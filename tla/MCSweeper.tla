----------------------------- MODULE MCSweeper ------------------------------
\* Sweeper for model checking: one key that keeps changing and drifts, and one
\* that is seen once and may be evicted.
EXTENDS Sweeper, TLC

CONSTANTS busy, quiet

BusyAndQuiet == (busy :> 2) @@ (quiet :> 1)

OnlyBusy == busy :> 2
=============================================================================
