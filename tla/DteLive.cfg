SPECIFICATION FairSpec
CONSTANTS
    Threads = 2
    FlowTypes = {"RTSCTS", "NORMAL"}
    Rates = {2, 8}
    BootRate = 8
    MaxOut = 3
    MaxDrops = 1
    TbufCap = 2
    RingCap = 2
    TxFifo = 2
    SerBuf = 1
    PreconfigHold = 2
    FlowDiv = 4
PROPERTIES
    PollEnds
    OutputDrains
