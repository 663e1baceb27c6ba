SPECIFICATION Spec
CONSTANTS
    q1 = q1
    q2 = q2
    s1 = s1
    s2 = s2
    s3 = s3
    v1 = v1
    p1 = p1
    h1 = h1
    d1 = d1
    d2 = d2
    Queues = {q1, q2}
    Slots = {s1, s2, s3}
    NumCols = 2
    Values = {v1}
    Heap <- MCHeap
    Builds <- MCBuilds
    MaxCalls = 6
    MaxAlgorithms = 1
SYMMETRY Symmetry
INVARIANTS
    TypeOK
    MemoryFollowsTheProgram
    AnswersFollowTheProgram
CHECK_DEADLOCK FALSE
