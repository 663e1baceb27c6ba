SPECIFICATION Spec
CONSTANTS
    None = None
    t1 = t1  t2 = t2
    a1 = a1  a2 = a2  a3 = a3
    q1 = q1  q2 = q2
    d1 = d1  d2 = d2
    Threads = {t1}
    Addr = {a1}
    Queues = {q1}
    Devices = {d1}
    QueueDevice <- OneQueue
    MinBin = 1
    MaxBin = 1
    BinBytes <- MCBinBytes
    RequestSizes = {1, 2}
    DeviceMemory = 2
    MaxCachedBytes = 2
    ReuseSameQueue = TRUE
    QueueBound = 2
INVARIANTS RequestedIsInUse
