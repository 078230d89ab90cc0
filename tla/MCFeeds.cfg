SPECIFICATION FeedSpec
CONSTANTS
    ClientBuffer = 2
    NatsRaw = 1
    NatsGaps = 1
    MaxClientDrops = 2
    MaxPublished = 4
    Capacity = 2
    OutRoom = 1
    MaxLines = 3
    FileRoom = 1
    StreamKeys = {s}
    ForeignKeys = {f, g}
    ExtrasWindow = 3
    IngestLag = 1
    MaxScan = 1
    MaxExtrasTracked = 2
    NoPass = NoPass
INVARIANTS
    FeedsAreFaithful
PROPERTIES
    FeedsAreLive
    
\* A source ends.
CHECK_DEADLOCK FALSE
