SPECIFICATION ValueSpec
CONSTANTS
    a = a
    b = b
    c = c
    Members = {a, b, c}
    Empty = Empty
    FieldLists <- MCFields
    Scalars = {"v", "w"}
    MaxMembers = 2
    IntBits = 3
    Deltas <- MCDeltas
    NaN = NaN
    NoValue = NoValue
    Nothing = Nothing
    BatchKeys <- MCBatch
    MaxEmitted <- MCMax
    NoSuchKey = NoSuchKey
    NotAnInt = NotAnInt
    NotTracked = NotTracked
    SetValues = {{"a"}, {"a", "b", "c"}, {"b", "c"}}
    W = 2
    WriteLag = 1
    TTLs = {0, 2, 4}
    AssumedTTL = 3
    ListLimit = 1
    MaxFindings = 1
    MaxEventsSeen = 2
    MaxCompared = 3
    Gone = Gone
    Hash = Hash
    NoFinding = NoFinding
    DriftKeys = {1, 2, 3}
    Categories = {missing, stale}
    MostEpisodes = 3
    WaiterIds = {1, 2}
    Periods = {1, 2}
    Moves = {0, 1, 3}
    EndOfTime = 3
    Testers = {g}
    Incarnations = {1, 2}
    TopSeq = 5
    Window = 2
    MaxHeld = 3
    MaxSeq = 9
    MaxIntervals = 3
    k1 = k1
    k2 = k2
    k3 = k3
    m1 = m1
    m2 = m2
    Masters = {m1, m2}
    ScanKeys = {k1, k2, k3}
    Home <- MCHome
    Slots = 3
    MaxRepeats = 1
    MaxCalls = 7
    DedupRoom = 1
    Looping = {m1}
    NoError = NoError
INVARIANTS
    FoldsAreSound
    
    
    
    ClockIsSound
    ListIsSound
    BufferInBounds
PROPERTIES
    BufferIsFaithful
    HeldIsReleased
    ImplementsGapSet
    ScanIsComplete
\* A scan finishes, and the bounded histories stop.
CHECK_DEADLOCK FALSE
