CONSTANTS
    Queue <- RecordingQueues
    MaxBacklog = 2
    MaxStops = 2
    MaxPolls = 3
    Other <- OtherQueue
SPECIFICATION RSpec
INVARIANTS
    OpenQueues
    RecordedInOrder
    NothingMissed
PROPERTIES
    Caught
