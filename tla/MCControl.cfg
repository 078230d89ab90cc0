SPECIFICATION ControlSpec
CONSTANTS
    busy = busy
    quiet = quiet
    Keys = {busy}
    Window = 3
    Lag = 1
    MaxSweep = 1
    BatchSize = 1
    MaxQueue = 1
    LossyKeys = {busy}
    EvictableKeys = {}
    Adopted = {}
    MaxEvents <- OnlyBusy
    None = None
    Runners = {r1, r2, r3}
    MaxEdits = 2
    MaxFails = 1
    NoRunner = NoRunner
    NoFactor = NoFactor
    Garbage = Garbage
    NotANumber = NotANumber
    NoObject = NoObject
    MaxManifests = 2
    MaxRotations = 2
INVARIANTS
    OneRunner
    NothingLeftBehind
    AdmissionIsSound
PROPERTIES
    ReleasedStopped
    DriftIsTracked
    
\* The manager ends after the shutdown, and manifests run out.
CHECK_DEADLOCK FALSE
