SPECIFICATION SettingsSpec
CONSTANTS
    Proxies = {p, q}
    Slots = {s, t}
    Configs <- AllConfigs
    Requests <- SomeRequests
    Replies <- SomeReplies
    Models = "models"
    NoNoise = "no noise"
    NoSecret = "no secret"
    Down = Down
    Free = Free
    NotBuilt = NotBuilt
    MaxStarts = 2
    MaxSends = 2
INVARIANTS Hermetic NoWrongHit AnswersFromStart SameSettingsHit StrictStoresNoSecret AnsweredIsRecorded
ACTION_CONSTRAINT FirstNames
CHECK_DEADLOCK FALSE
