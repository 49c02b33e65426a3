SPECIFICATION Spec
CONSTANTS
    TxIds = {t1, t2}
    Fingerprints = {f1}
    NoFingerprint = NoFingerprint
    Hooks = {h1}
    Digests = {d1}
    NoDigest = NoDigest
    Writers = {p, q}
    Readers = {r}
    NoProc = NoProc
    NoCall = NoCall
    Absent = Absent
    NoView = NoView
    Unreadable = Unreadable
    MaxAborts = 1
SYMMETRY Symmetry
INVARIANTS NoLostTransaction NothingVanishes ListedBlobsWhole IInv
PROPERTY ReadsAreCurrent
PROPERTY ImplementsLog
