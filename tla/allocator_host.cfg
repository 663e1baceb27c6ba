SPECIFICATION FairSpec
CONSTANTS
    None = None
    t1 = t1  t2 = t2
    a1 = a1  a2 = a2  a3 = a3
    q1 = q1  q2 = q2
    d1 = d1  d2 = d2
    Threads = {t1, t2}
    Addr = {a1, a2}
    Queues = {q1, q2}
    Devices = {d1, d2}
    QueueDevice <- TwoDevices
    MinBin = 1
    MaxBin = 1
    BinBytes <- MCBinBytes
    RequestSizes = {2, 3}
    DeviceMemory = 4
    MaxCachedBytes = 2
    ReuseSameQueue = FALSE
    QueueBound = 2
INVARIANTS HeldBlockServes
PROPERTIES HandOver MutexReleased
