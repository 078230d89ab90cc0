SPECIFICATION SignsSpec
CONSTANTS
    Keys = {calm, hot}
    Restless = {hot}
    ProbeCount = 1
    ProbeRotation = 3
    MaxPollDelay = 2
    MaxPollInterval = 2
    WindowSize = 2
    MinWindow = 2
    MaxWindow = 5
    SafetyFactor = 3
    MinObservations = 2
    MinChangeInterval = 2
    None = None
    LastGen = 2
    MostDrift = 1
    MostRestarts = 1
    Unset = Unset
INVARIANTS
    WindowInBounds
PROPERTIES
    
    
    StatusTellsTruth
\* Edits of the object run out.
CHECK_DEADLOCK FALSE
