SPECIFICATION IngestSpec
CONSTANTS
    MaxSeq = 4
    MaxIntervals = 2
    Publishers = {1, 2}
    Epochs = {1, 2}
    Seqs = {0, 1, 2, 3}
    MaxPublishers = 2
    Delta = 2
    Ceiling = 1
    MaxTime = 0
    Unknown = Unknown
    Keys = {"a", "b", "c"}
    Content <- TwoStreams
    Owned <- TwoOwners
    Partitioned = TRUE
    Bootstraps = {"Strict", "Wait"}
    RawSize = 1
    SignalSize = 1
    Copies = 1
    Window = 1
    MaxHeld = 3
    Nothing = Nothing

    
PROPERTIES
    IngestDelivers
CHECK_DEADLOCK FALSE
