CONSTANTS
    s1 = s1
    MaxBacklog = 2
    Threshold = 1
    Queue = {s1}
    Weights = {0, 1, 3}
    None = 9
    Kinds = {"frame", "EEEEEE", "IOBoardError", "OtherError"}
    MaxEvents = 2
SPECIFICATION SseSpec
INVARIANTS
    NoDeadSubscriber
PROPERTIES
    NoTheftMissed
    Released
CHECK_DEADLOCK FALSE
