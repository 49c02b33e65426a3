SPECIFICATION SpecMigration
CONSTANTS
    Procs = {p, q}
    b = b
    c = c
    Bodies = {b, c}
    Gone = Gone
    TornText = TornText
    NoBody = NoBody
    MaxTxs = 3
    MaxEdits = 3
    MaxKills = 1
    Imports <- OldTransactions
    MaxImports = 2
    Unhashed = Unhashed
    Blank = Blank
    NoBackup = NoBackup
SYMMETRY Symmetry
INVARIANTS EditedIsWhole ForkIsWhole AppendsStayListed OrderKept OriginalSurvives
PROPERTIES MigrationKeepsKeys
CHECK_DEADLOCK FALSE
