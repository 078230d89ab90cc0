\* What finalize says of a check that could not be stopped.
SPECIFICATION RegSpec
CONSTANTS
    Runners = {r1, r2, r3}
    MaxEdits = 2
    MaxFails = 1
    NoRunner = NoRunner
PROPERTY
    NotForgotten
\* The manager ends after the shutdown.
CHECK_DEADLOCK FALSE
