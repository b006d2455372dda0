SPECIFICATION Spec
CONSTANTS
    Retries = 1
    Width = 7
    Short = 1
    Long = 2
    MaxStep = 2
    Fields = 3
    Again = 1
    MaxVersion = 3
    Zones = {0, 32, 999}
    Clients = {c1, t1}
    Secure = {t1}
    Socks = {s1, s2}
    Fds = {f1, f2}
    NoSock = NoSock
    BadFd = BadFd
    Record = 2
    MaxSent = 2
    MaxWrite = 2
    SndBuf = 1
    Backlog = 1
    MaxTries = 1
    PingPorts = 2
INVARIANTS
    FreshLine
    AsksAgain
    NoMixture
    SavedIsStored
    DescriptorsOwned
    EndAfterBytes
PROPERTIES
    LoopGoesOn
    WriteEnds
CHECK_DEADLOCK FALSE
