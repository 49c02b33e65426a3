SPECIFICATION Spec
CONSTANTS
    Procs = {p, q}
    Dirs = {"home", "empty"}
    Home = "home"
    SnapDir = "home"
    Ids = {"snap"}
    Names = {"src", ".env"}
    Denied = {".env"}
    Texts = {"second"}
    Marks = {"field", "tool"}
    NoId = "none"
    NoMark = "none"
    MaxCalls = 3
    MaxEdits = 0
    MaxKills = 0
SYMMETRY Symmetry
INVARIANT ForcedRestoreWorks
CHECK_DEADLOCK FALSE
