SPECIFICATION FairLifecycle
CONSTANTS
    Proxies = {p, q, w}
    Slots = {s, t}
    Configs <- BothConfigs
    Requests <- OneRequest
    Replies <- OneReply
    Models = "models"
    NoNoise = "no noise"
    NoSecret = "no secret"
    Down = Down
    Free = Free
    NotBuilt = NotBuilt
    Mains = {m, n}
    Ports = {7432, 1, 2, 3}
    DefaultPort = 7432
    RunPorts = {7432}
    AnyPort = 0
    NoProxy = NoProxy
    NoSlot = NoSlot
    DemoRecord <- Recording
    DemoReplay <- Replaying
    MaxStarts = 3
    MaxSends = 3
    MaxEffort = 4
INVARIANTS ChildMeetsOwnProxy DemoReplays
PROPERTIES RequestsEnd RunEnds ImplementsSession
CHECK_DEADLOCK FALSE
