CONSTANTS
    c1 = c1
    c2 = c2
    iw = iw
    lz = lz
    id = id
    nokind = nokind
    Client = {c1, c2}
    Kind = {iw, lz, id}
    NoKind = nokind
    Loadcells = iw
    Calibrate = lz
    MinGap = 1
    MaxEpoch = 2
SPECIFICATION LSpec
INVARIANTS
    NoWeightBeforeCalibration
    MemorySinceCalibration
    OneReader
PROPERTIES
    Answered
