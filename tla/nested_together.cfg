SPECIFICATION Spec
CONSTANTS
    Cassettes = {a, b, c}
    Procs = {p, q}
    NoParent = NoParent
    MaxTxs = 2
    MaxLinks = 2
    MaxKills = 1
SYMMETRY Symmetry
INVARIANTS DigestsNameParent VerifyNotVacuous
CHECK_DEADLOCK FALSE
