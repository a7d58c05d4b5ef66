CONSTANTS
    c1 = c1
    c2 = c2
    recorder1 = recorder1
    tracker1 = tracker1
    Client = {c1}
    Recorder = recorder1
    Tracker = tracker1
    MaxBacklog = 1
SPECIFICATION Spec
INVARIANTS
    FlagMeansSubscribers
    NoDeadQueue
PROPERTIES
    Fed
    Rests
    Exits
CHECK_DEADLOCK FALSE
