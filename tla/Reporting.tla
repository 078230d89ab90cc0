----------------------------- MODULE Reporting -----------------------------
(***************************************************************************)
(* What an operator sees of a check: the status block and conditions the   *)
(* reconciler patches onto the object (internal/controller/status.go,      *)
(* driftcheck_controller.go) and the events it emits on transitions        *)
(* (events.go), from the snapshot a running check gives of itself          *)
(* (pkg/check/check.go, Status).  The runner's own life is the module      *)
(* Registry; here a runner is replaced in one step, and moves between any  *)
(* two steps of a reconcile.  Messages, counters that nothing decides on   *)
(* and the per-publisher list are left out, but for the restart count.     *)
(***************************************************************************)
EXTENDS Integers

CONSTANTS
    LastGen,       \* bound: generations of the object
    MostDrift,     \* bound: confirmed divergent keys
    MostRestarts,  \* bound: publisher restarts a runner counts
    Unset          \* a status never written, a tracker entry not there

VARIABLES
    object,   \* [gen, status] at the API server
    run,      \* the registered runner's check
    fresh,    \* whether the last start is less than RestartInterval ago
    tracker,  \* transitionTracker.state of this check
    moving,   \* bound: the one aspect of the check that changes
    job,      \* where the reconcile is
    story     \* history: what the events say to someone who reads them all

reportVars == <<object, run, fresh, tracker, moving, job, story>>

Aspects == {"source", "sweeps", "saturation", "restarts"}

Resting == [at |-> "rest"]

\* A check as New leaves it, for the spec of a generation.
NewRun(g) ==
    [gen |-> g, phase |-> "Pending", failed |-> FALSE, boot |-> FALSE,
     swept |-> FALSE, unreachable |-> FALSE, connected |-> FALSE,
     confirmed |-> 0, saturated |-> FALSE, restarts |-> 0]

ReportInit ==
    /\ object = [gen |-> 1, status |-> Unset]
    /\ run = Unset /\ fresh = FALSE
    /\ tracker = Unset
    /\ moving \in Aspects
    /\ job = Resting
    /\ story = Unset

---------------------------------------------------------------------------
(* The user and the runner.                                                *)

EditSpec ==
    /\ object.gen < LastGen
    /\ object' = [object EXCEPT !.gen = @ + 1]
    /\ UNCHANGED <<run, fresh, tracker, job, story, moving>>

IntervalPasses ==
    /\ fresh /\ fresh' = FALSE
    /\ UNCHANGED <<object, run, tracker, job, story, moving>>

Alive == run # Unset /\ ~run.failed

RunMoves(next) ==
    /\ Alive /\ run' = next /\ run' # run
    /\ UNCHANGED <<object, fresh, tracker, job, story, moving>>

\* The source connects, loses its subscription, and gets it back.
SubscriptionTurns == Alive /\ moving = "source" /\ RunMoves([run EXCEPT !.connected = ~@])

Boots == Alive /\ RunMoves([run EXCEPT !.boot = TRUE, !.phase = "Watching"])

\* onReport: a sweep ends, or finds the store away and keeps the last report.
SweepReports ==
    /\ Alive /\ run.boot /\ moving = "sweeps"
    /\ \/ \E n \in 0 .. MostDrift :
             RunMoves([run EXCEPT !.swept = TRUE, !.unreachable = FALSE,
                                  !.confirmed = n, !.phase = "Watching"])
       \/ RunMoves([run EXCEPT !.unreachable = TRUE, !.phase = "Degraded"])

Saturates == Alive /\ moving = "saturation" /\ RunMoves([run EXCEPT !.saturated = TRUE])

PublisherRestarts ==
    /\ Alive /\ moving = "restarts" /\ run.restarts < MostRestarts
    /\ RunMoves([run EXCEPT !.restarts = @ + 1])

RunnerDies == Alive /\ RunMoves([run EXCEPT !.failed = TRUE])

---------------------------------------------------------------------------
(* Check.Status and Runner.Status: the last good report, overruled by what *)
(* is known about the store since.                                         *)
Status ==
    [phase |-> IF run.failed THEN "Failed" ELSE run.phase,
     boot |-> run.boot, divergent |-> run.confirmed, connected |-> run.connected,
     reachable |-> run.swept /\ ~run.unreachable,
     saturated |-> run.saturated, restarts |-> run.restarts]

---------------------------------------------------------------------------
(* Reconcile.                                                              *)

StepTo(j) == job' = j

\* Steps 1 to 4; a secret that does not resolve leaves the runner alone.
ReadObject ==
    /\ job = Resting
    /\ \E secrets \in BOOLEAN :
          StepTo([at |-> IF secrets THEN "ensure" ELSE "fail", gen |-> object.gen])
    /\ UNCHANGED <<object, run, fresh, tracker, story, moving>>

Same == run # Unset /\ run.gen = job.gen /\ ~run.failed

\* Step 7: unchanged, throttled, started or replaced.
EnsureRunner ==
    /\ job.at = "ensure"
    /\ IF Same \/ (run # Unset /\ fresh)
       THEN UNCHANGED <<run, fresh>>
       ELSE run' = NewRun(job.gen) /\ fresh' = TRUE
    /\ StepTo([job EXCEPT !.at = "observe"])
    /\ UNCHANGED <<object, tracker, story, moving>>

\* The check cannot be built; a runner that was to be replaced is gone.
EnsureFails ==
    /\ job.at = "ensure" /\ ~Same /\ ~(run # Unset /\ fresh)
    /\ run' = Unset
    /\ StepTo([job EXCEPT !.at = "fail"])
    /\ UNCHANGED <<object, fresh, tracker, story, moving>>

\* transitionTracker.record: on first sight everything counts as already so.
Previous(st) ==
    IF tracker = Unset THEN [seen |-> FALSE, was |-> st] ELSE [seen |-> TRUE, was |-> tracker]

Recorded(st) == tracker' = st

\* emitTransitions: which of the eight events one observation gives rise to.
Emitted(st) ==
    LET p == Previous(st)  was == p.was
    IN  [boot |-> st.boot /\ ~was.boot,
         detected |-> st.divergent > was.divergent,
         resolved |-> st.divergent = 0 /\ was.divergent > 0,
         reconnected |-> p.seen /\ st.connected /\ ~was.connected,
         disconnected |-> p.seen /\ ~st.connected /\ was.connected,
         available |-> p.seen /\ st.reachable /\ ~was.reachable,
         unavailable |-> p.seen /\ ~st.reachable /\ was.reachable,
         saturated |-> st.saturated /\ ~was.saturated,
         restarted |-> p.seen /\ st.restarts > was.restarts]

\* What a reader of the events makes of them, from the first sight on.
Read(s, e, st) ==
    [drift |-> (s.drift \/ e.detected) /\ ~e.resolved,
     connected |-> (s.connected \/ e.reconnected) /\ ~e.disconnected,
     reachable |-> (s.reachable \/ e.available) /\ ~e.unavailable,
     saturated |-> s.saturated \/ e.saturated,
     restarts |-> IF e.restarted THEN st.restarts ELSE s.restarts,
     lost |-> s.lost \union (IF e.disconnected THEN {"source"} ELSE {})
                     \union (IF e.unavailable THEN {"target"} ELSE {}),
     again |-> (IF e.reconnected THEN {"source"} ELSE {})
                     \union (IF e.available THEN {"target"} ELSE {})]

FirstSight(st) ==
    [drift |-> st.divergent > 0, connected |-> st.connected, reachable |-> st.reachable,
     saturated |-> st.saturated, restarts |-> st.restarts, lost |-> {}, again |-> {}]

\* updateStatus up to the patch.
Observe ==
    /\ job.at = "observe"
    /\ Recorded(Status)
    /\ story' = IF tracker = Unset THEN FirstSight(Status)
                ELSE Read(story, Emitted(Status), Status)
    /\ StepTo([at |-> "patch", gen |-> job.gen, of |-> run.gen, st |-> Status])
    /\ UNCHANGED <<object, run, fresh, moving>>

\* renderConditions. The conditions that repeat a field of the snapshot are
\* left out.
Conditions(st) ==
    [ready |-> st.phase \in {"Watching", "Paused", "Degraded"}, drift |-> st.divergent > 0]

\* renderStatus: every field and every condition, each time.
Rendered(old) ==
    [phase |-> job.st.phase, observed |-> job.gen, of |-> job.of,
     divergent |-> job.st.divergent,
     ready |-> Conditions(job.st).ready, drift |-> Conditions(job.st).drift]

\* secretFailure and startFailure: the phase and Ready, and nothing else.
FailureRendered(old) ==
    IF old = Unset THEN [phase |-> "Failed", observed |-> job.gen, of |-> job.gen,
                         divergent |-> 0, ready |-> FALSE, drift |-> FALSE]
    ELSE [old EXCEPT !.phase = "Failed", !.observed = job.gen, !.ready = FALSE]

\* A mutant of Patched: the object read at the start is sent back whole.
PatchedWhole(status) == [gen |-> job.gen, status |-> status]

\* patchStatus: the status of the object as it is now.
Patched(status) == [object EXCEPT !.status = status]

PatchStatus ==
    /\ job.at \in {"patch", "fail"}
    /\ object' = Patched(IF job.at = "patch" THEN Rendered(object.status)
                         ELSE FailureRendered(object.status))
    /\ StepTo(Resting)
    /\ UNCHANGED <<run, fresh, tracker, story, moving>>

\* The API server does not answer; the reconcile is queued again.
PatchIsLost ==
    /\ job.at \in {"patch", "fail"}
    /\ StepTo(Resting)
    /\ UNCHANGED <<object, run, fresh, tracker, story, moving>>

Reconcile ==
    \/ ReadObject \/ EnsureRunner \/ EnsureFails \/ Observe \/ PatchStatus \/ PatchIsLost

ReportNext ==
    \/ EditSpec \/ IntervalPasses \/ SubscriptionTurns \/ Boots \/ SweepReports
    \/ Saturates \/ PublisherRestarts \/ RunnerDies \/ Reconcile

\* Every return of Reconcile is followed by another one (RequeueAfter, or the
\* queue's retry of an error); secrets resolve and patches arrive at times.
ReportFairness ==
    /\ SF_reportVars(ReadObject /\ job'.at = "ensure") /\ WF_reportVars(EnsureRunner)
    /\ WF_reportVars(Observe) /\ WF_reportVars(PatchStatus \/ PatchIsLost)
    /\ SF_reportVars(PatchStatus /\ job.at = "patch") /\ WF_reportVars(IntervalPasses)

ReportSpec == ReportInit /\ [][ReportNext]_reportVars /\ ReportFairness

---------------------------------------------------------------------------
(* The events read as a history: whoever has read all of them since the    *)
(* first sight of the check knows whether it drifts, is subscribed and     *)
(* reaches its store as last observed, and has heard of every saturation   *)
(* and restart; whatever failed in between and however often the runner    *)
(* was replaced (events.go, emitTransitions and record).                   *)
EventsTellState ==
    tracker # Unset =>
        /\ story.drift = (tracker.divergent > 0)
        /\ story.connected = tracker.connected
        /\ story.reachable = tracker.reachable
        /\ tracker.saturated => story.saturated
        /\ tracker.restarts <= story.restarts

(* A status is never half of one snapshot and half of another where it     *)
(* matters: the drift condition goes with the count, and a failed check is *)
(* not ready, also after a failure that rewrites only part of the status.  *)
StatusCoheres ==
    object.status # Unset =>
        /\ object.status.drift = (object.status.divergent > 0)
        /\ object.status.phase = "Failed" => ~object.status.ready

(* A reconcile that took its time does not take back an edit made in the   *)
(* meantime: only the status is written (patchStatus).                     *)
EditsSurvive == [][object'.gen >= object.gen]_reportVars

(* When the object is left alone and the check stays as it is, the status  *)
(* comes to say what the check says, past lost patches, unresolved secrets *)
(* and throttled restarts.                                                 *)
StatusCatchesUp ==
    <>[](run # Unset) /\ <>[][UNCHANGED run]_reportVars =>
        []<>(run # Unset /\ object.status # Unset /\ object.status.phase = Status.phase
             /\ object.status.divergent = Status.divergent)

(* driftcheck_types.go: "ObservedGeneration is the spec generation this    *)
(* status describes."  A status rendered from a running check has the      *)
(* generation that check was started from.                                 *)
\* Does not hold: README, section 6.
ObservedIsDescribed ==
    object.status # Unset /\ object.status.phase # "Failed" =>
        object.status.observed = object.status.of

(* events.go: "ReasonTargetAvailable reports it coming back",              *)
(* "ReasonSourceReconnected reports getting it back": what comes back was  *)
(* lost before.                                                            *)
\* Does not hold: README, section 6.
BackMeansLost == story # Unset => story.again \subseteq story.lost

\* Status and events say what the check does: they cohere with each other and with
\* the last observation, survive concurrent edits, and catch up in the end.
StatusTellsTruth == [](EventsTellState /\ StatusCoheres) /\ EditsSurvive /\ StatusCatchesUp
============================================================================
