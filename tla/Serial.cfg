SPECIFICATION SerialSpec
CONSTANTS
    DteBauds = {103, 300}
    FwBauds = {100, 300}
    Formats = {28, 62}
    Word = 1048576
    Unit = 6
    UnitsPerTick <- Worth
    Cap = 2
    RingCap = 2
    Hold = 1
    Supply = 3
    MaxIdle = 2
    Digits = {"1"}
    Others = {"a"}
    Target <- adash
    Lengths = {0, 2}
    NoLimit = unlimited
    Timeout = 2
    Wrap = 4
    MaxWait = 1
    MaxBytes = 3
INVARIANTS
    RateKept
    ResultExact
PROPERTIES
    LineServed
    CallEnds
