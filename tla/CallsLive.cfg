SPECIFICATION FairSpec
CONSTANTS
    MaxId = 2
    AutoAnswer = 2
    RingsWhenOff = 1
    BusyRings = 2
    AutoStream = TRUE
    HangupType = "DTR"
    TempBaud = FALSE
    Suppress = FALSE
    Callers = TRUE
    Commands = {"ATD host"}
PROPERTIES
    RingingEnds
    DtrHangsUp
CHECK_DEADLOCK FALSE
