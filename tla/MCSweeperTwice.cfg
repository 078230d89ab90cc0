\* What confirm.go says of every finding.
SPECIFICATION Spec
CONSTANTS
    busy = busy
    quiet = quiet
    Keys = {busy}
    Window = 3
    Lag = 1
    MaxSweep = 1
    BatchSize = 1
    MaxQueue = 1
    LossyKeys = {busy}
    EvictableKeys = {}
    Adopted = {}
    MaxEvents <- OnlyBusy
    None = None
INVARIANT
    SeenTwice
