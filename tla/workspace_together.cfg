SPECIFICATION Spec
CONSTANTS
    Procs = {p, q}
    Dirs = {"home", "snapshots", "empty"}
    Home = "home"
    SnapDir = "snapshots"
    Ids = {"snap"}
    Names = {"src", ".env"}
    Denied = {".env"}
    Texts = {"second"}
    Marks = {"field", "tool"}
    NoId = "none"
    NoMark = "none"
    MaxCalls = 3
    MaxEdits = 2
    MaxKills = 1
SYMMETRY Symmetry
INVARIANTS MarksKept RestoreIsExact RestoreWorks
CHECK_DEADLOCK FALSE
