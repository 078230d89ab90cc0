SPECIFICATION ZmqSpec
CONSTANTS
    Endpoints = {a, b}
    IdleTimeout = 1
    RawBuffer = 1
    GapBuffer = 1
    MaxOrphans = 1
INVARIANTS
    SessionIsWatched
PROPERTIES
    SourceIsLive
