CONSTANTS
    c1 = c1
    c2 = c2
    iw = iw
    id = id
    nokind = nokind
    Client = {c1, c2}
    Kind = {iw, id}
    NoKind = nokind
    Throttled = {iw}
    RequestGap = 3
    InterGap = 1
    DrainQuiet = 1
    HeaderTimeout = 1
    BodyTimeout = 1
    ChecksumTimeout = 1
    MaxRetries = 2
    InitialRetryDelay = 1
    BackoffMultiplier = 2
    AgeCap = 3
    Backlog = 2
    Latency = 2
    Shapes = {"whole", "nobody"}
    Replays = TRUE
    Unplugs = TRUE
    LowLatencyRefused = TRUE
    AllowCancel = TRUE
    LoopPrompt = FALSE
SPECIFICATION Safety
PROPERTIES
    FailureResets
    ServesInOrder
SYMMETRY ClientSymmetry
