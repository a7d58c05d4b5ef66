CONSTANTS
    c1 = c1
    c2 = c2
    tracker1 = tracker1
    Queue = {tracker1}
    MaxBacklog = 1
    Tracker = tracker1
    Client = {c1, c2}
    Doors = {"CLOSED"}
    Settle = 1
    StatusPause = 1
    ApplyTimeout = 2
    DoorLimit = 0
SPECIFICATION DSafety
INVARIANTS
    EveryStuckBoltReported
