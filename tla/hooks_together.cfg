SPECIFICATION Spec
CONSTANTS
    Procs = {p, q}
    HookIds = {i, j}
    Tools = {a, b}
    i = i
    j = j
    a = a
    b = b
    Requests <- MixedCalls
    Live = {b}
    Forces = {"deny"}
    NoRequest = NoRequest
    TornLine = TornLine
    MaxRecords = 2
    MaxReplays = 2
    MaxInstalls = 2
    MaxEdits = 1
    MaxKills = 1
SYMMETRY SymmetryOfProcs
INVARIANTS EmittedIsForced ReplaysAgree AllowIsBacked InstallHolds
CHECK_DEADLOCK FALSE
