SPECIFICATION Spec
CONSTANTS
    Protocols = {"XModem", "YModem"}
    File <- ShortFile
    Mod = 256
    StartTries = 2
    Prompts = 1
    SendRetries = 2
    RcvRetries = 3
    Faults = {"damage"}
    Garbles = {255}
    MaxFaults = 1
    Rooms = {9}
INVARIANTS
    SuccessTold
CHECK_DEADLOCK FALSE
