SPECIFICATION CoreSpec
SYMMETRY KeySymmetry
CONSTANTS
    MaxSeq = 7
    MaxIntervals = 2
    Publishers = {1, 2}
    Epochs = {1, 2}
    Seqs = {0, 1, 2, 3, 4, 5, 6}
    MaxPublishers = 1
    Delta = 3
    Ceiling = 2
    MaxTime = 1
    Unknown = Unknown
    Keys = {k1, k2, k3}
    Values = {v}
    Absent = Absent
    MaxKeys = 2
    Windows = {1, 2}
    MaxWindow = 2
    Factor = 2
    BucketWidth = 2
    Bootstrap = "Adopt"
    MaxDelay = 1
    MaxInstants = 5
    MaxVersion = 2
    NoEntry = NoEntry
    TrustKeys = {t1, t2}
    TrustRoom = 1
    Goroutines = {"applier", "watcher", "bootstrap"}
    Calls <- WatcherCalls
    Patterns = {{t1}}
    MaxGen = 2
    Vacant = Vacant
INVARIANTS
    OracleInBounds
    NoGapMissed
    ExactUntilTruncated
    CountersExact
    
PROPERTIES
    IndexIsExact
    SnapshotRestoresTrust
\* The bounds on time and generations stop a behaviour.
CHECK_DEADLOCK FALSE
