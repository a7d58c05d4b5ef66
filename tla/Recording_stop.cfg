CONSTANTS
    Queue <- RecordingQueues
    MaxBacklog = 2
    MaxStops = 1
    MaxPolls = 2
    Other <- OtherQueue
SPECIFICATION RSafety
PROPERTIES
    NothingAfterStop
