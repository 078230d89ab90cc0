\* A window that leaves room for the lag and for a sweep of one instant.
SPECIFICATION Spec
CONSTANTS
    busy = busy
    quiet = quiet
    Keys = {busy, quiet}
    Window = 3
    Lag = 1
    MaxSweep = 1
    BatchSize = 1
    MaxQueue = 1
    LossyKeys = {busy}
    EvictableKeys = {quiet}
    Adopted = {quiet}
    MaxEvents <- BusyAndQuiet
    None = None
INVARIANTS
    ComparesCurrent
    QueueIsSound
PROPERTIES
    OpensOnDrift
