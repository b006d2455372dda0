SPECIFICATION Spec
CONSTANTS
    Receivers = {"zUpload", "recv_files"}
    File <- FiveUnits
    OldFiles <- OldUnits
    Rooms = {3, 9}
    BufSizes = {0, 2}
    MaxBlock = 2
    MaxErrors = 3
    MaxFaults = 1
INVARIANTS
    FilePrefix
    SenderTruth
    ReceiverTruth
PROPERTIES
    AckMeansStored
    TransferEnds
    Repaired
CHECK_DEADLOCK FALSE
