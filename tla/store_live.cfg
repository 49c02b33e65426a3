SPECIFICATION FairSpec
CONSTANTS
    TxIds = {t1, t2, t3}
    Fingerprints = {}
    NoFingerprint = NoFingerprint
    Hooks = {}
    Digests = {}
    NoDigest = NoDigest
    Writers = {p, q, w}
    Readers = {r}
    NoProc = NoProc
    NoCall = NoCall
    Absent = Absent
    NoView = NoView
    Unreadable = Unreadable
    MaxAborts = 1
PROPERTY CallsEnd
