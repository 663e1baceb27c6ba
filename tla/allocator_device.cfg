SPECIFICATION Spec
CONSTANTS
    None = None
    t1 = t1  t2 = t2
    a1 = a1  a2 = a2  a3 = a3
    q1 = q1  q2 = q2
    d1 = d1  d2 = d2
    Threads = {t1, t2}
    Addr = {a1, a2, a3}
    Queues = {q1, q2}
    Devices = {d1}
    QueueDevice <- OneDevice
    MinBin = 1
    MaxBin = 2
    BinBytes <- MCBinBytes
    RequestSizes = {2, 3, 5}
    DeviceMemory = 6
    MaxCachedBytes = 4
    ReuseSameQueue = TRUE
    QueueBound = 2
SYMMETRY Symmetry
INVARIANTS TypeOK SoleOwner AccountingExact CacheWithinLimit EventGuardsWork
           HeldBlockServes HeldFreeSucceeds DestructorReleasesAll
PROPERTIES SameQueueBlockFound
