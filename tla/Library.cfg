SPECIFICATION LibrarySpec
CONSTANTS
    N = 4
    Bytes = {a, b}
    NoValue = NoValue
    MaxInst = 2
    Threads = 2
    FlowTypes = {"RTSCTS", "NORMAL"}
    Rates = {2, 8}
    BootRate = 8
    MaxOut = 4
    MaxDrops = 1
    TbufCap = 2
    RingCap = 3
    TxFifo = 2
    SerBuf = 1
    PreconfigHold = 2
    FlowDiv = 4
INVARIANTS
    NoSlotRace
    SignalsTold
    NoDangling
    ByteOrder
    NoSilentLoss
    RtsOvershoot
    ResetKeepsTbuf
PROPERTIES
    ImplementsFifo
CHECK_DEADLOCK FALSE
