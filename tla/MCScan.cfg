\* What redis.go says of the walk over a cluster.
SPECIFICATION ScanSpec
CONSTANTS
    k1 = k1
    k2 = k2
    k3 = k3
    m1 = m1
    m2 = m2
    Masters = {m1, m2}
    ScanKeys = {k1, k2, k3}
    Home <- MCHome
    Slots = 3
    MaxRepeats = 1
    MaxCalls = 7
    DedupRoom = 1
    Looping = {}
    NoError = NoError
INVARIANT
    EveryMasterVisited
\* A scan finishes.
CHECK_DEADLOCK FALSE
