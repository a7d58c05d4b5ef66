CONSTANTS
    Loads <- MixedLoads
    Tolerance = 2
    MinMagnitude = 5
    Relatch = 3
    Step = 5
    Hysteresis = 1
    Top = 19
    Threshold = 8
SPECIFICATION CSpec
INVARIANTS
    Recovers
    GlitchesHidden
    NeverNegative
    CloseToValue
PROPERTIES
    NoFlapping
    RemovalReported
    NoFalseAlarm
