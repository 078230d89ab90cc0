------------------------------ MODULE Registry ------------------------------
(***************************************************************************)
(* internal/controller: the life of the runner of one DriftCheck. The      *)
(* reconciler starts, replaces and stops it as the object changes; when    *)
(* the manager loses the lease the stopper shuts the registry down while a *)
(* reconcile may still be under way. Both take the check's own mutex, so   *)
(* checks share nothing but the latch and one of them is enough.           *)
(*                                                                         *)
(* A runner is told to stop by cancelling its context, and may take longer *)
(* than the grace period, or fail by itself at any time.                   *)
(***************************************************************************)
EXTENDS Integers, FiniteSets

CONSTANTS
    Runners,    \* bound: identities of runner instances, used again when free
    MaxEdits,   \* bound: how often the user edits or creates the object
    MaxFails,   \* bound: how often a runner fails by itself
    NoRunner

ASSUME RegistryAssumption ==
    /\ MaxEdits \in Nat /\ MaxFails \in Nat
    /\ NoRunner \notin Runners /\ NoRunner \notin {"reconciler", "stopper"}

VARIABLES
    obj,        \* the DriftCheck at the API server
    leading,    \* whether the manager's context is alive
    closed,     \* RunnerRegistry.closed
    entry,      \* RunnerRegistry.runners: the registered instance
    runner,     \* every instance
    recent,     \* lastStart is less than RestartInterval ago
    lock,       \* who holds the check's mutex
    actor,      \* where the reconciler and the stopper are
    fails       \* how often a runner has failed

regVars == <<obj, leading, closed, entry, runner, recent, lock, actor, fails>>

Actors == {"reconciler", "stopper"}

AtRest == [at |-> "idle"]

\* overdue: the grace period ran out before the instance exited.
Unused == [state |-> "unused", hash |-> 0, cancelled |-> FALSE, failed |-> FALSE,
           overdue |-> FALSE]

RegInit ==
    /\ obj = [exists |-> TRUE, spec |-> 0, deleting |-> FALSE, finalizer |-> FALSE]
    /\ leading = TRUE /\ closed = FALSE
    /\ entry = NoRunner
    /\ runner = [i \in Runners |-> Unused]
    /\ recent = FALSE
    /\ lock = NoRunner
    /\ actor = [a \in Actors |-> AtRest]
    /\ fails = 0

Running == {i \in Runners : runner[i].state = "running"}

-----------------------------------------------------------------------------
(* The user, the clock, the lease and the runners.                         *)

Edit ==
    /\ obj.exists /\ ~obj.deleting /\ obj.spec < MaxEdits
    /\ obj' = [obj EXCEPT !.spec = @ + 1]
    /\ UNCHANGED <<leading, closed, entry, runner, recent, lock, actor, fails>>

\* Without a finalizer the object is gone at once.
Delete ==
    /\ obj.exists /\ ~obj.deleting
    /\ obj' = [obj EXCEPT !.exists = obj.finalizer, !.deleting = obj.finalizer]
    /\ UNCHANGED <<leading, closed, entry, runner, recent, lock, actor, fails>>

Create ==
    /\ ~obj.exists /\ obj.spec < MaxEdits
    /\ obj' = [exists |-> TRUE, spec |-> obj.spec + 1, deleting |-> FALSE, finalizer |-> FALSE]
    /\ UNCHANGED <<leading, closed, entry, runner, recent, lock, actor, fails>>

\* RestartInterval has passed since the last start.
ThrottleEnds ==
    /\ recent
    /\ recent' = FALSE
    /\ UNCHANGED <<obj, leading, closed, entry, runner, lock, actor, fails>>

\* The lease is lost, and with the manager's context every runner's.
LoseLease ==
    /\ leading
    /\ leading' = FALSE
    /\ runner' = [i \in Runners |-> IF i \in Running THEN [runner[i] EXCEPT !.cancelled = TRUE]
                                    ELSE runner[i]]
    /\ UNCHANGED <<obj, closed, entry, recent, lock, actor, fails>>

\* supervise: Run returns after the cancellation.
Exit(i) ==
    /\ i \in Running /\ runner[i].cancelled
    /\ runner' = [runner EXCEPT ![i] = IF @.overdue THEN Unused ELSE [@ EXCEPT !.state = "exited"]]
    /\ UNCHANGED <<obj, leading, closed, entry, recent, lock, actor, fails>>

\* supervise: Run panics or returns an error, which is recorded.
Fail(i) ==
    /\ i \in Running /\ ~runner[i].overdue /\ fails < MaxFails
    /\ runner' = [runner EXCEPT ![i].state = "exited", ![i].failed = TRUE]
    /\ fails' = fails + 1
    /\ UNCHANGED <<obj, leading, closed, entry, recent, lock, actor>>

-----------------------------------------------------------------------------
(* What both actors do.                                                    *)

Goto(a, state) == actor' = [actor EXCEPT ![a] = state]

\* RunnerRegistry.lock
Lock(a) ==
    /\ actor[a].at = "lock" /\ lock = NoRunner
    /\ lock' = a
    /\ Goto(a, [actor[a] EXCEPT !.at = "locked"])
    /\ UNCHANGED <<obj, leading, closed, entry, runner, recent, fails>>

Unlock(a, state) == lock' = NoRunner /\ Goto(a, state)

\* stopLocked up to the wait: cancel, and take the entry out of the map.
StopBegin(a, then) ==
    /\ runner' = [runner EXCEPT ![entry].cancelled = TRUE]
    /\ entry' = NoRunner
    /\ Goto(a, [at |-> "wait", instance |-> entry, then |-> then])
    /\ UNCHANGED <<obj, leading, closed, recent, lock, fails>>

\* stopLocked ends well: Run has returned, then Close. Stop and the undoing
\* Ensure return; a replacing Ensure goes on to start.
WaitDone(a) ==
    LET w == actor[a]
    IN  /\ w.at = "wait" /\ runner[w.instance].state = "exited"
        /\ runner' = [runner EXCEPT ![w.instance] = Unused]
        /\ IF w.then.at = "start" THEN Goto(a, w.then) /\ UNCHANGED lock ELSE Unlock(a, w.then)
        /\ UNCHANGED <<obj, leading, closed, entry, recent, fails>>

\* stopLocked gives up after the grace period: Close, and the error ends the call.
WaitTimesOut(a) ==
    LET w == actor[a]
    IN  /\ w.at = "wait" /\ w.instance \in Running
        /\ runner' = [runner EXCEPT ![w.instance].overdue = TRUE]
        /\ Unlock(a, IF a = "stopper" THEN [at |-> "done"] ELSE AtRest)
        /\ UNCHANGED <<obj, leading, closed, entry, recent, fails>>

-----------------------------------------------------------------------------
(* The reconciler.                                                         *)

\* Reconcile reads the object and decides what to do about it.
Fetch ==
    /\ actor["reconciler"] = AtRest /\ leading
    /\ Goto("reconciler",
            CASE ~obj.exists -> [at |-> "lock", goal |-> "forget"]
              [] obj.exists /\ obj.deleting -> [at |-> "lock", goal |-> "finalize"]
              [] obj.exists /\ ~obj.deleting /\ ~obj.finalizer -> [at |-> "patch"]
              [] obj.exists /\ ~obj.deleting /\ obj.finalizer ->
                     [at |-> "lock", goal |-> "ensure", hash |-> obj.spec])
    /\ UNCHANGED <<obj, leading, closed, entry, runner, recent, lock, fails>>

\* The finalizer is added; the answer refreshes the spec. Gone objects end it.
Patch ==
    /\ actor["reconciler"].at = "patch"
    /\ IF obj.exists
       THEN /\ obj' = [obj EXCEPT !.finalizer = TRUE]
            /\ Goto("reconciler", [at |-> "lock", goal |-> "ensure", hash |-> obj.spec])
       ELSE UNCHANGED obj /\ Goto("reconciler", AtRest)
    /\ UNCHANGED <<leading, closed, entry, runner, recent, lock, fails>>

\* Ensure has the lock with the goal of running this hash.
Ensuring == lock = "reconciler" /\ actor["reconciler"].at = "locked"
               /\ actor["reconciler"].goal = "ensure"

\* The registered runner has not failed and its spec is the wanted one.
Current == entry # NoRunner /\ runner[entry].hash = actor["reconciler"].hash /\ ~runner[entry].failed

Starting == [at |-> "start", hash |-> actor["reconciler"].hash]

\* Ensure returns without a start: shut down, unchanged, or throttled.
EnsureReturns ==
    /\ Ensuring
    /\ closed \/ Current \/ (entry # NoRunner /\ recent)
    /\ Unlock("reconciler", AtRest)
    /\ UNCHANGED <<obj, leading, closed, entry, runner, recent, fails>>

\* Ensure finds nothing running.
EnsureStarts ==
    /\ Ensuring /\ ~closed /\ entry = NoRunner
    /\ Goto("reconciler", Starting)
    /\ UNCHANGED <<obj, leading, closed, entry, runner, recent, lock, fails>>

\* Mutant: the replacement does not wait for the runner it replaces.
EnsureReplacesAtOnce ==
    /\ Ensuring /\ ~closed /\ entry # NoRunner /\ ~Current /\ ~recent
    /\ runner' = [runner EXCEPT ![entry].cancelled = TRUE]
    /\ entry' = NoRunner
    /\ Goto("reconciler", Starting)
    /\ UNCHANGED <<obj, leading, closed, recent, lock, fails>>

\* Ensure replaces a runner that failed or has another spec.
EnsureReplaces ==
    /\ Ensuring /\ ~closed /\ entry # NoRunner /\ ~Current /\ ~recent
    /\ StopBegin("reconciler", Starting)

\* startLocked; the instance's context descends from the manager's.
Start(i) ==
    /\ actor["reconciler"].at = "start" /\ runner[i] = Unused
    /\ runner' = [runner EXCEPT ![i] = [@ EXCEPT !.state = "running", !.cancelled = ~leading,
                                                !.hash = actor["reconciler"].hash]]
    /\ entry' = i
    /\ recent' = TRUE
    /\ Goto("reconciler", [at |-> "recheck"])
    /\ UNCHANGED <<obj, leading, closed, lock, fails>>

\* startLocked: the check cannot be built.
StartFails ==
    /\ actor["reconciler"].at = "start"
    /\ Unlock("reconciler", AtRest)
    /\ UNCHANGED <<obj, leading, closed, entry, runner, recent, fails>>

\* Mutant: no second look at the latch.
RecheckNever ==
    /\ actor["reconciler"].at = "recheck"
    /\ Unlock("reconciler", AtRest)
    /\ UNCHANGED <<obj, leading, closed, entry, runner, recent, fails>>

\* Ensure looks at the latch again, and undoes its own start.
Recheck ==
    /\ actor["reconciler"].at = "recheck"
    /\ IF closed THEN StopBegin("reconciler", AtRest)
       ELSE /\ Unlock("reconciler", AtRest)
            /\ UNCHANGED <<obj, leading, closed, entry, runner, recent, fails>>

\* Where Stop leaves the reconciler: forget drops the restart record, finalize
\* releases the object after that.
Stopped(goal) == [at |-> "forget", goal |-> goal]

\* Mutant: the stop is ordered and not waited for.
ReconcilerStopsAtOnce ==
    /\ actor["reconciler"].at = "locked" /\ actor["reconciler"].goal \in {"forget", "finalize"}
    /\ runner' = IF entry = NoRunner THEN runner ELSE [runner EXCEPT ![entry].cancelled = TRUE]
    /\ entry' = NoRunner
    /\ Unlock("reconciler", Stopped(actor["reconciler"].goal))
    /\ UNCHANGED <<obj, leading, closed, recent, fails>>

\* Stop has the lock.
ReconcilerStops ==
    /\ actor["reconciler"].at = "locked" /\ actor["reconciler"].goal \in {"forget", "finalize"}
    /\ IF entry # NoRunner THEN StopBegin("reconciler", Stopped(actor["reconciler"].goal))
       ELSE /\ Unlock("reconciler", Stopped(actor["reconciler"].goal))
            /\ UNCHANGED <<obj, leading, closed, entry, runner, recent, fails>>

Forget ==
    /\ actor["reconciler"].at = "forget"
    /\ recent' = FALSE
    /\ Goto("reconciler", IF actor["reconciler"].goal = "finalize" THEN [at |-> "release"] ELSE AtRest)
    /\ UNCHANGED <<obj, leading, closed, entry, runner, lock, fails>>

\* finalize takes the finalizer off, and the object goes.
Release ==
    /\ actor["reconciler"].at = "release"
    /\ obj' = [obj EXCEPT !.exists = FALSE, !.deleting = FALSE, !.finalizer = FALSE]
    /\ Goto("reconciler", AtRest)
    /\ UNCHANGED <<leading, closed, entry, runner, recent, lock, fails>>

\* The API server does not take the patch; the reconcile is tried again.
PatchFails ==
    /\ actor["reconciler"].at \in {"patch", "release"}
    /\ Goto("reconciler", AtRest)
    /\ UNCHANGED <<obj, leading, closed, entry, runner, recent, lock, fails>>

-----------------------------------------------------------------------------
(* The stopper.                                                            *)

\* Shutdown closes the registry to new runners.
Latch ==
    /\ actor["stopper"] = AtRest /\ ~leading
    /\ closed' = TRUE
    /\ Goto("stopper", [at |-> "list"])
    /\ UNCHANGED <<obj, leading, entry, runner, recent, lock, fails>>

\* StopAll enumerates what is registered.
List ==
    /\ actor["stopper"].at = "list"
    /\ Goto("stopper", [at |-> IF entry = NoRunner THEN "done" ELSE "lock"])
    /\ UNCHANGED <<obj, leading, closed, entry, runner, recent, lock, fails>>

StopperStops ==
    /\ actor["stopper"].at = "locked"
    /\ IF entry # NoRunner THEN StopBegin("stopper", [at |-> "done"])
       ELSE /\ Unlock("stopper", [at |-> "done"])
            /\ UNCHANGED <<obj, leading, closed, entry, runner, recent, fails>>

Reconciler ==
    \/ Fetch \/ Patch \/ PatchFails
    \/ EnsureReturns \/ EnsureStarts \/ EnsureReplaces
    \/ StartFails \/ Recheck
    \/ \E i \in Runners : Start(i)
    \/ ReconcilerStops \/ Forget \/ Release

Stopper == Latch \/ List \/ StopperStops

Environment ==
    \/ Edit \/ Delete \/ Create \/ ThrottleEnds \/ LoseLease
    \/ \E i \in Runners : Exit(i) \/ Fail(i)

RegNext ==
    \/ Environment \/ Reconciler \/ Stopper
    \/ \E a \in Actors : Lock(a) \/ WaitDone(a) \/ WaitTimesOut(a)

\* Objects are reconciled again and again (RequeueAfter, retries), goroutines
\* run, a mutex starves nobody, builds and patches succeed at times, and a
\* cancelled runner returns in the end.
RegFairness ==
    /\ WF_regVars(Fetch) /\ SF_regVars(Patch) /\ SF_regVars(Release)
    /\ WF_regVars(EnsureReturns) /\ WF_regVars(EnsureStarts) /\ WF_regVars(EnsureReplaces)
    /\ SF_regVars(\E i \in Runners : Start(i)) /\ WF_regVars(Recheck)
    /\ WF_regVars(ReconcilerStops) /\ WF_regVars(Forget) /\ WF_regVars(ThrottleEnds)
    /\ WF_regVars(Stopper)
    /\ \A i \in Runners : WF_regVars(Exit(i))
    /\ \A a \in Actors : SF_regVars(Lock(a)) /\ WF_regVars(WaitDone(a))

RegSpec == RegInit /\ [][RegNext]_regVars /\ RegFairness

-----------------------------------------------------------------------------
\* Fields keep their types; the registered instance is a real one, and whoever is
\* between locking and unlocking holds the mutex, alone.
RegTypeOK ==
    /\ obj \in [exists : BOOLEAN, spec : 0 .. MaxEdits, deleting : BOOLEAN, finalizer : BOOLEAN]
    /\ runner \in [Runners -> [state : {"unused", "running", "exited"}, hash : 0 .. MaxEdits,
                               cancelled : BOOLEAN, failed : BOOLEAN, overdue : BOOLEAN]]
    /\ entry # NoRunner => runner[entry].state # "unused"
    /\ \A a \in Actors :
          actor[a].at \in {"locked", "wait", "start", "recheck"} <=> lock = a

\* "Never two runners for one check" (Ensure): of the instances that run, all but
\* one have outlived the grace period they were given; and the one that has not
\* is the registered one, or is being waited for.
OneRunner ==
    LET timely == {i \in Running : ~runner[i].overdue}
    IN  /\ Cardinality(timely) <= 1
        /\ \A i \in timely :
              entry = i \/ \E a \in Actors : actor[a].at = "wait" /\ actor[a].instance = i

\* "A runner nothing would ever stop": once Shutdown has returned and no reconcile
\* is under way, nothing is registered and nothing runs that was not waited for,
\* wherever the lease was lost in between.
NothingLeftBehind ==
    actor["stopper"].at = "done" /\ actor["reconciler"] = AtRest =>
        entry = NoRunner /\ \A i \in Running : runner[i].overdue

\* "The object never disappears while a check still holds its connections": when
\* the finalizer comes off, the check's runner has returned, unless it was given
\* up on.
ReleasedStopped ==
    [][obj.deleting /\ ~obj'.exists => entry = NoRunner /\ \A i \in Running : runner[i].overdue]_regVars

\* A deleted object is released in the end, if the manager keeps the lease.
DeletionCompletes == obj.deleting ~> (~obj.deleting \/ ~leading)

Served == entry # NoRunner /\ runner[entry].state = "running" /\ runner[entry].hash = obj.spec

\* A check that is left alone ends up running at its latest spec, whatever failed,
\* was throttled or was read stale on the way.
LatestSpecServed ==
    <>[](obj.exists /\ ~obj.deleting /\ leading) => <>[]Served

\* driftcheck_controller.go: "A check that could not be stopped cleanly is exactly
\* the one that must not be forgotten about."
NotForgotten == [][obj.deleting /\ ~obj'.exists => Running = {}]_regVars
=============================================================================
