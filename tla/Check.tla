------------------------------- MODULE Check --------------------------------
(***************************************************************************)
(* pkg/check/check.go, the life of a check: Run's goroutines under one     *)
(* errgroup, the bootstrap modes, pausing, and the phase that is the first *)
(* thing an operator reads. The phase is recomputed (steadyPhase) and then *)
(* set (setPhase) in two steps by whichever goroutine has something to say:*)
(* the source's, the sweeper's, the applier's and the caller of SetPaused. *)
(* What flows through the pipeline is in Ingest and Sweeper.               *)
(***************************************************************************)
EXTENDS Naturals, FiniteSets

CONSTANTS
    Bootstraps,     \* the values of spec.Policy.Bootstrap
    Passive,        \* the goroutines that never set the phase: watchGaps, est.Run
    MaxPauses,      \* bound: how often SetPaused is called
    NoPhase         \* nothing is about to be set

ASSUME CheckAssumption ==
    /\ Bootstraps \subseteq {"Adopt", "Wait", "Strict"}
    /\ MaxPauses \in Nat

Loops == {"source", "ingest", "sweeper"} \cup Passive

\* The goroutines guard recovers panics of (runSource is not one).
Guarded == Loops \ {"source"}

Setters == {"source", "ingest", "sweeper", "caller"}

Phases == {"Pending", "Bootstrapping", "AwaitingSnapshot", "Watching", "Degraded", "Paused", "Failed"}

ASSUME NoPhaseAssumption == NoPhase \notin Phases

VARIABLES
    run,            \* "new", "running", "stopped"
    live,           \* the goroutines that have not returned
    cancelled,      \* the errgroup's context is done
    failed,         \* a goroutine returned an error that is no cancellation
    closed,         \* Check.closed
    phase,          \* Check.phase
    toSet,          \* per goroutine, the phase it is about to set
    paused,         \* Check.paused
    pauses,         \* how often SetPaused was called
    awaiting,       \* Check.awaitingSnapshot
    sourceFailed,   \* Check.sourceFailed
    saturated,      \* Check.saturated
    unreachable,    \* Check.targetUnreachable
    boot,           \* where the sweeper goroutine is
    connected,      \* environment: Source.Stats().Connected
    storeUp,        \* environment: the store answers
    raced           \* history: a phase was out of date when it was set

control == <<run, live, cancelled, failed, closed>>
flags == <<awaiting, sourceFailed, saturated, unreachable>>
environment == <<connected, storeUp>>
pause == <<paused, pauses>>
program == <<control, phase, toSet, pause, flags, boot, environment>>
checkVars == <<program, raced>>

CheckInit ==
    /\ run = "new" /\ live = {} /\ cancelled = FALSE /\ failed = FALSE /\ closed = FALSE
    /\ phase = "Pending"
    /\ toSet = [g \in Setters |-> NoPhase]
    /\ paused \in BOOLEAN /\ pauses = 0
    /\ awaiting = FALSE /\ sourceFailed = FALSE /\ saturated = FALSE /\ unreachable = FALSE
    /\ boot \in Bootstraps
    /\ connected = FALSE /\ storeUp \in BOOLEAN
    /\ raced = FALSE

\* Mutant: a saturated oracle is forgotten by the next clean sweep.
SteadyUnsaturated ==
    CASE paused -> "Paused"
      [] ~paused /\ awaiting -> "AwaitingSnapshot"
      [] ~paused /\ ~awaiting /\ (sourceFailed \/ ~connected) -> "Degraded"
      [] OTHER -> "Watching"

\* steadyPhase
Steady ==
    CASE paused -> "Paused"
      [] ~paused /\ awaiting -> "AwaitingSnapshot"
      [] ~paused /\ ~awaiting /\ (sourceFailed \/ ~connected \/ saturated) -> "Degraded"
      [] OTHER -> "Watching"

\* A goroutine works out a phase, and sets it in a step of its own.
WillSet(g, p) == toSet' = [toSet EXCEPT ![g] = p] /\ UNCHANGED phase

SetsNow(p) == phase' = p /\ UNCHANGED toSet

SetPhase(g) ==
    /\ toSet[g] # NoPhase
    /\ phase' = toSet[g]
    /\ toSet' = [toSet EXCEPT ![g] = NoPhase]
    /\ UNCHANGED <<control, pause, flags, boot, environment>>

Running(g) == g \in live /\ ~cancelled /\ (g \in Setters => toSet[g] = NoPhase)

-----------------------------------------------------------------------------
(* Run, its goroutines' ends, and Close.                                   *)

Run ==
    /\ run = "new" /\ ~closed
    /\ run' = "running" /\ live' = Loops
    /\ SetsNow("Bootstrapping")
    /\ UNCHANGED <<cancelled, failed, closed, pause, flags, boot, environment>>

\* The context Run was given is cancelled, or its deadline passes.
Cancel ==
    /\ run = "running" /\ ~cancelled
    /\ cancelled' = TRUE
    /\ UNCHANGED <<run, live, failed, closed, phase, toSet, pause, flags, boot, environment>>

\* Each loop selects on ctx.Done; guard and runSource turn the cancellation
\* into a nil return.
Exit(g) ==
    /\ g \in live /\ cancelled /\ (g \in Setters => toSet[g] = NoPhase)
    /\ live' = live \ {g}
    /\ UNCHANGED <<run, cancelled, failed, closed, phase, toSet, pause, flags, boot, environment>>

\* guard: a recovered panic is an error, and the first error cancels the rest.
Panic(g) ==
    /\ g \in live \cap Guarded /\ (g \in Setters => toSet[g] = NoPhase)
    /\ live' = live \ {g} /\ cancelled' = TRUE /\ failed' = TRUE
    /\ UNCHANGED <<run, closed, phase, toSet, pause, flags, boot, environment>>

\* g.Wait, and the end of Run.
Return ==
    /\ run = "running" /\ live = {}
    /\ run' = "stopped"
    /\ SetsNow(IF failed THEN "Failed" ELSE "Pending")
    /\ UNCHANGED <<live, cancelled, failed, closed, pause, flags, boot, environment>>

\* Close, by the registry when the check has stopped or its grace is over.
Close ==
    /\ run = "new" \/ cancelled
    /\ ~closed /\ closed' = TRUE
    /\ UNCHANGED <<run, live, cancelled, failed, phase, toSet, pause, flags, boot, environment>>

-----------------------------------------------------------------------------
(* The source.                                                             *)

SourceTurns ==
    /\ Running("source") /\ ~sourceFailed
    /\ connected' = ~connected
    /\ UNCHANGED <<control, phase, toSet, pause, flags, boot, storeUp>>

\* runSource when Source.Run returns an error.
SourceFails ==
    /\ Running("source") /\ ~sourceFailed
    /\ sourceFailed' = TRUE /\ connected' = FALSE
    /\ WillSet("source", "Degraded")
    /\ UNCHANGED <<control, pause, awaiting, saturated, unreachable, boot, storeUp>>

StoreTurns ==
    /\ run = "running" /\ ~cancelled
    /\ storeUp' = ~storeUp
    /\ UNCHANGED <<control, phase, toSet, pause, flags, boot, connected>>

-----------------------------------------------------------------------------
(* The sweeper goroutine: bootstrap, then sweeps.                          *)

Sweeper(from, to) == Running("sweeper") /\ boot = from /\ boot' = to

\* bootstrapAdopt: each attempt says it is scanning.
AdoptScan ==
    /\ Sweeper("Adopt", "scanning")
    /\ SetsNow("Bootstrapping")
    /\ UNCHANGED <<control, pause, flags, environment>>

AdoptFails ==
    /\ Sweeper("scanning", "Adopt") /\ ~storeUp
    /\ SetsNow("Bootstrapping")
    /\ UNCHANGED <<control, pause, flags, environment>>

\* The scan ends; when keys did not fit, the oracle is saturated for good.
AdoptEnds(skipped) ==
    /\ Sweeper("scanning", "ready") /\ storeUp
    /\ saturated' = skipped
    /\ SetsNow(IF skipped THEN "Degraded" ELSE phase)
    /\ UNCHANGED <<control, pause, awaiting, sourceFailed, unreachable, environment>>

BootstrapWait ==
    /\ Sweeper("Wait", "ready")
    /\ UNCHANGED <<control, phase, toSet, pause, flags, environment>>

BootstrapStrict ==
    /\ Sweeper("Strict", "ready")
    /\ awaiting' = TRUE
    /\ WillSet("sweeper", "AwaitingSnapshot")
    /\ UNCHANGED <<control, pause, sourceFailed, saturated, unreachable, environment>>

\* runSweeper, between bootstrap and the sweep loop.
Bootstrapped ==
    /\ Sweeper("ready", "idle")
    /\ WillSet("sweeper", Steady)
    /\ UNCHANGED <<control, pause, flags, environment>>

SweepBegins(pass) ==
    /\ Sweeper("idle", pass) /\ ~paused
    /\ UNCHANGED <<control, phase, toSet, pause, flags, environment>>

\* Mutant: only a failed sweep changes the phase.
PassSucceedsSilently(pass) ==
    /\ Sweeper(pass, "idle") /\ storeUp
    /\ unreachable' = IF pass = "sweep" THEN FALSE ELSE unreachable
    /\ UNCHANGED <<phase, toSet, control, pause, awaiting, sourceFailed, saturated, environment>>

\* onReport for a pass that reached the store. Only a sweep measures that, but
\* either pass ends a Degraded phase.
PassSucceeds(pass) ==
    /\ Sweeper(pass, "idle") /\ storeUp
    /\ unreachable' = IF pass = "sweep" THEN FALSE ELSE unreachable
    /\ IF phase = "Degraded" THEN WillSet("sweeper", Steady) ELSE UNCHANGED <<phase, toSet>>
    /\ UNCHANGED <<control, pause, awaiting, sourceFailed, saturated, environment>>

\* onReport for ErrTargetUnavailable.
PassUnavailable(pass) ==
    /\ Sweeper(pass, "idle") /\ ~storeUp
    /\ unreachable' = TRUE
    /\ SetsNow("Degraded")
    /\ UNCHANGED <<control, pause, awaiting, sourceFailed, saturated, environment>>

\* onReport for any other error.
PassFails(pass) ==
    /\ Sweeper(pass, "idle")
    /\ UNCHANGED <<control, phase, toSet, pause, flags, environment>>

-----------------------------------------------------------------------------
(* The applier, and SetPaused.                                             *)

\* onSnapshotOp: the first snapshotEnd ends the wait.
SnapshotEnds ==
    /\ Running("ingest") /\ awaiting
    /\ awaiting' = FALSE
    /\ UNCHANGED <<control, pause, sourceFailed, saturated, unreachable, boot, environment>>
    /\ WillSet("ingest", Steady')

SetPaused ==
    /\ pauses < MaxPauses /\ toSet["caller"] = NoPhase
    /\ paused' = ~paused /\ pauses' = pauses + 1
    /\ UNCHANGED <<control, flags, boot, environment>>
    /\ WillSet("caller", IF phase \in {"Watching", "Paused", "Degraded"} THEN Steady' ELSE NoPhase)

Passes == {"sweep", "extras"}

Steps ==
    \/ Run \/ Cancel \/ Return \/ Close
    \/ \E g \in Setters : SetPhase(g)
    \/ \E g \in Loops : Exit(g) \/ Panic(g)
    \/ SourceTurns \/ SourceFails \/ StoreTurns
    \/ AdoptScan \/ AdoptFails \/ (\E skipped \in BOOLEAN : AdoptEnds(skipped))
    \/ BootstrapWait \/ BootstrapStrict \/ Bootstrapped
    \/ \E pass \in Passes :
          SweepBegins(pass) \/ PassSucceeds(pass) \/ PassUnavailable(pass) \/ PassFails(pass)
    \/ SnapshotEnds \/ SetPaused

\* A phase is out of date when something it was worked out from, or the phase
\* itself, changes before it is set.
CheckNext ==
    /\ Steps
    /\ raced' = (raced \/ \E g \in Setters :
                    toSet[g] # NoPhase /\ toSet'[g] = toSet[g] /\ <<Steady, phase>>' # <<Steady, phase>>)

\* Goroutines go on, and the sweep loop's select serves both its tickers; the
\* store, the source and the operator need not do anything, but a sweep of a
\* store that answers does not fail every time.
CheckFairness ==
    /\ WF_program(\E g \in Setters \ {"sweeper"} : SetPhase(g))
    /\ WF_program(SetPhase("sweeper"))
    /\ WF_program((\E g \in Loops : Exit(g)) \/ Return)
    /\ WF_program(AdoptScan \/ AdoptFails \/ \E skipped \in BOOLEAN : AdoptEnds(skipped))
    /\ WF_program(BootstrapWait \/ BootstrapStrict \/ Bootstrapped)
    /\ SF_program(SweepBegins("sweep"))
    /\ WF_program(\E pass \in Passes : PassSucceeds(pass) \/ PassUnavailable(pass))
    /\ SF_program(PassSucceeds("sweep"))

CheckSpec == CheckInit /\ [][CheckNext]_checkVars /\ CheckFairness

-----------------------------------------------------------------------------
Settled == \A g \in Setters : toSet[g] = NoPhase

\* Watching is the word an operator reads as "clean reports mean a clean store".
\* Once nobody is about to change the phase, it is not said of a check that is
\* paused, awaits a snapshot, lost its source for good or saw only part of the
\* keyspace, whatever order bootstrap, sweeps, snapshots and pauses came in; and
\* a check whose Run has returned says Pending or Failed. (A phase that was out
\* of date when it was set is the exception: raced.)
PhaseIsHonest ==
    ~raced /\ Settled =>
        /\ phase = "Watching" => ~paused /\ ~awaiting /\ ~sourceFailed /\ ~saturated
        /\ run = "stopped" => phase = IF failed THEN "Failed" ELSE "Pending"

\* Degraded "clears by itself": once source and store stay up, nothing is held
\* against the check and nobody pauses it, it is Watching and stays so.
Recovers ==
    <>[](/\ run = "running" /\ ~cancelled /\ ~raced
         /\ connected /\ storeUp /\ ~paused
         /\ ~awaiting /\ ~sourceFailed /\ ~saturated)
    => <>[](phase = "Watching")

\* A panic in any guarded goroutine ends the check, and it says so.
FailureEndsRun == failed ~> (run = "stopped" /\ (phase = "Failed" \/ raced))

\* steadyPhase: a disconnected source "is not a steady state"; "a check whose
\* subscription has been down for minutes" must not stay Watching.
\* Does not hold: README, section 6.
DisconnectIsShown ==
    (phase = "Watching" /\ ~connected /\ ~raced) ~> (phase # "Watching" \/ connected \/ raced)

\* steadyPhase: "Paused outranks everything below it": a check somebody silenced
\* does not report Degraded.
\* Does not hold: README, section 6.
PausedOutranks ==
    [][Settled /\ phase = "Paused" /\ paused' => phase' # "Degraded"]_checkVars

\* Degraded clears once everything is up again, and a panic ends the run as Failed.
RunEndsWell == Recovers /\ FailureEndsRun
=============================================================================
