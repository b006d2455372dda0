SPECIFICATION Spec
CONSTANTS
    Protocols = {"XModem", "YModem"}
    File <- ShortFile
    Mod = 256
    StartTries = 2
    Prompts = 1
    SendRetries = 2
    RcvRetries = 3
    Faults = {"damage", "lose"}
    Garbles = {4, 6, 21, 255}
    MaxFaults = 3
    Rooms = {2, 9}
INVARIANTS
    FilePrefix
    AckMeansStored
    ReceiverTruth
PROPERTIES
    TransferEnds
    DamageRepaired
CHECK_DEADLOCK FALSE
