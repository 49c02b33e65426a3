SPECIFICATION Spec
CONSTANTS
    Procs = {p, q}
    Tokens = {t, u}
    Quota = 2
    NoFile = NoFile
    Torn = Torn
    NoToken = NoToken
    MaxRequests = 4
    MaxKills = 1
SYMMETRY Symmetry
INVARIANTS NeverShortchanged Accounted
PROPERTY TornForGood
CHECK_DEADLOCK FALSE
