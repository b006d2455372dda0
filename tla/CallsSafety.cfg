SPECIFICATION Spec
CONSTANTS
    MaxId = 2
    AutoAnswer = 1
    RingsWhenOff = 1
    BusyRings = 2
    AutoStream = TRUE
    HangupType = "PPPHARD"
    TempBaud = TRUE
    Suppress = FALSE
    Callers = TRUE
    Commands = {"ATA", "ATO", "ATD", "ATDn", "ATC", "ATC0", "ATCn", "ATH", "ATH0", "ATHn", "ATD host", "ATC host"}
INVARIANTS
    PointersListed
    StreamListed
    NoCarrierAlone
    BaudFollowsCarrier
CHECK_DEADLOCK FALSE
