SPECIFICATION CheckSpec
CONSTANTS
    Bootstraps = {"Adopt", "Wait", "Strict"}
    Passive = {"gaps"}
    MaxPauses = 1
    NoPhase = NoPhase
INVARIANTS
    PhaseIsHonest
PROPERTIES
    RunEndsWell
CHECK_DEADLOCK FALSE
