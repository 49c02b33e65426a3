SPECIFICATION Spec
CONSTANTS
    TxIds = {t1, t2}
    Fingerprints = {}
    NoFingerprint = NoFingerprint
    Hooks = {h1}
    Digests = {d1}
    NoDigest = NoDigest
    Writers = {p, q, r}
    Readers = {r}
    NoProc = NoProc
    NoCall = NoCall
    Absent = Absent
    NoView = NoView
    Unreadable = Unreadable
    MaxAborts = 1
INVARIANT ReturnedStays

