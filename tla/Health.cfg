CONSTANTS
    c1 = c1
    tracker1 = tracker1
    Queue = {tracker1}
    MaxBacklog = 1
    Tracker = tracker1
    Client = {c1}
    Doors = {"OPENED", "CLOSED"}
    Settle = 1
    StatusPause = 1
    ApplyTimeout = 1
    DoorLimit = 1
SPECIFICATION HSafety
INVARIANTS
    StuckBoltReported
    OpenDoorReported
    LastingFaultsTold
