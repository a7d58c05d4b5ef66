CONSTANTS
    c1 = c1
    c2 = c2
    iw = iw
    id = id
    nokind = nokind
    Client = {c1, c2}
    Kind = {iw, id}
    NoKind = nokind
    Throttled = {iw}
    RequestGap = 4
    InterGap = 3
    DrainQuiet = 2
    HeaderTimeout = 2
    BodyTimeout = 2
    ChecksumTimeout = 1
    MaxRetries = 3
    InitialRetryDelay = 1
    BackoffMultiplier = 2
    AgeCap = 4
    Backlog = 2
    Latency = 3
    Shapes = {"whole", "corrupt", "nobody", "nolrc"}
    Replays = TRUE
    Unplugs = TRUE
    LowLatencyRefused = FALSE
    AllowCancel = FALSE
    LoopPrompt = TRUE
SPECIFICATION QuietSpec
INVARIANTS
    TypeOK
    Exclusive
    OneReplyInFlight
    FreshReply
PROPERTIES
    RequestGapKept
    InterGapKept
    SilentBeforeRequest
    Returns
    ImplementsService
