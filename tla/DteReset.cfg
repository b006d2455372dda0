SPECIFICATION Spec
CONSTANTS
    Threads = 1
    FlowTypes = {"NORMAL"}
    Rates = {8}
    BootRate = 8
    MaxOut = 5
    MaxDrops = 1
    TbufCap = 2
    RingCap = 4
    TxFifo = 2
    SerBuf = 1
    PreconfigHold = 3
    FlowDiv = 4
INVARIANTS
    NothingResurfaces
