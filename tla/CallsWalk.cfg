SPECIFICATION Spec
CONSTANTS
    MaxId = 2
    AutoAnswer = 2
    RingsWhenOff = 1
    BusyRings = 3
    AutoStream = TRUE
    HangupType = "NONE"
    TempBaud = FALSE
    Suppress = FALSE
    Callers = TRUE
    Commands = {"ATD host"}
INVARIANTS
    WalkListed
CHECK_DEADLOCK FALSE
