CONSTANTS
    c1 = c1
    c2 = c2
    iw = iw
    id = id
    nokind = nokind
    Client = {c1, c2}
    Kind = {iw, id}
    NoKind = nokind
    Throttled = {iw}
    RequestGap = 1
    InterGap = 1
    DrainQuiet = 2
    HeaderTimeout = 2
    BodyTimeout = 2
    ChecksumTimeout = 1
    MaxRetries = 1
    InitialRetryDelay = 1
    BackoffMultiplier = 2
    AgeCap = 1
    Backlog = 2
    Latency = 3
    Shapes = {"whole"}
    Replays = FALSE
    Unplugs = TRUE
    LowLatencyRefused = FALSE
    AllowCancel = FALSE
    LoopPrompt = TRUE
SPECIFICATION Spec
PROPERTIES
    Reconnects
