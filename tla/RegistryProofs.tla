---------------------------- MODULE RegistryProofs ----------------------------
(***************************************************************************)
(* The registry keeps one runner per check, leaves none behind and         *)
(* releases no object too early, for every number of runner instances,     *)
(* edits and failures.                                                     *)
(*                                                                         *)
(* The argument is about the check's mutex. Whoever holds it is at a step  *)
(* between locking and unlocking (MutexHeld), so the reconciler and the    *)
(* stopper are never both there; while its holder waits for an instance or *)
(* is about to start one, nothing is registered (Vacated). An instance     *)
(* that runs in time is therefore the registered one or the one waited     *)
(* for, and there is one such place.                                       *)
(***************************************************************************)
EXTENDS Registry, FiniteSetTheorems, TLAPS

Holding == {"locked", "wait", "start", "recheck"}

MutexHeld == \A a \in Actors : actor[a].at \in Holding <=> lock = a

Instance ==
    [state : {"unused", "running", "exited"}, hash : 0 .. MaxEdits,
     cancelled : BOOLEAN, failed : BOOLEAN, overdue : BOOLEAN]

\* The types of the fields.
Types ==
    /\ obj \in [exists : BOOLEAN, spec : 0 .. MaxEdits, deleting : BOOLEAN, finalizer : BOOLEAN]
    /\ obj.deleting => obj.exists
    /\ runner \in [Runners -> Instance]
    /\ entry \in Runners \cup {NoRunner}
    /\ closed \in BOOLEAN

\* What a step reads from the place where another step has left an actor.
Places ==
    /\ actor = [a \in Actors |-> actor[a]]
    /\ \A a \in Actors :
          /\ "at" \in DOMAIN actor[a]
          /\ actor[a].at = "wait" =>
                /\ actor[a].instance \in Runners
                /\ "at" \in DOMAIN actor[a].then
                /\ actor[a].then.at \in {"start", "idle", "forget", "done"}
    /\ LET r == actor["reconciler"]
       IN  /\ r.at \in {"lock", "locked"} =>
                 /\ "goal" \in DOMAIN r
                 /\ r.goal = "ensure" => "hash" \in DOMAIN r /\ r.hash \in 0 .. MaxEdits
           /\ r.at = "start" => r.hash \in 0 .. MaxEdits
           /\ r.at = "wait" /\ r.then.at = "start" => r.then.hash \in 0 .. MaxEdits

\* The registered instance has been started and was not given up on; nothing is
\* registered while the holder of the mutex waits or is about to start; the
\* instance waited for was not given up on; and what Ensure has just started is
\* registered when it looks at the latch again.
Vacated ==
    /\ entry # NoRunner => runner[entry].state # "unused" /\ ~runner[entry].overdue
    /\ \A a \in Actors : actor[a].at \in {"wait", "start"} => entry = NoRunner
    /\ \A a \in Actors : actor[a].at = "wait" =>
          runner[actor[a].instance].state # "unused" /\ ~runner[actor[a].instance].overdue
    /\ actor["reconciler"].at = "recheck" => entry # NoRunner

\* An instance that runs in time is the registered one or is waited for.
Accounted ==
    \A i \in Runners : runner[i].state = "running" /\ ~runner[i].overdue =>
        entry = i \/ \E a \in Actors : actor[a].at = "wait" /\ actor[a].instance = i

\* The stopper has latched the registry before it does anything else, and once it
\* is done only a reconcile about to look at the latch can have registered one.
Latched ==
    /\ actor["stopper"].at # "idle" => closed
    /\ actor["stopper"].at \notin {"start", "recheck", "forget"}
    /\ actor["stopper"].at = "wait" => actor["stopper"].then.at = "done"
    /\ actor["reconciler"].at = "wait" => actor["reconciler"].then.at # "done"
    /\ actor["stopper"].at = "done" => entry = NoRunner \/ actor["reconciler"].at = "recheck"

\* On its way to the finalizer the reconciler has seen the last instance go.
Released ==
    actor["reconciler"].at \in {"forget", "release"} =>
        entry = NoRunner /\ actor["stopper"].at # "wait"

RegInv == Types /\ Places /\ MutexHeld /\ Vacated /\ Accounted /\ Latched /\ Released

-----------------------------------------------------------------------------
(* The invariant: at first, and through every step.                        *)

\* A runner with one field changed is a runner.
LEMMA FieldChanged ==
    ASSUME Types, NEW j \in Runners
    PROVE  /\ [runner EXCEPT ![j].cancelled = TRUE] \in [Runners -> Instance]
           /\ [runner EXCEPT ![j].overdue = TRUE] \in [Runners -> Instance]
           /\ [runner EXCEPT ![j].state = "exited", ![j].failed = TRUE] \in [Runners -> Instance]
<1>1. \A i \in Runners : runner[i] \in Instance
  BY DEF Types
<1>2. ASSUME NEW r \in Instance
      PROVE  /\ [r EXCEPT !.cancelled = TRUE] \in Instance
             /\ [r EXCEPT !.overdue = TRUE] \in Instance
             /\ [r EXCEPT !.state = "exited"] \in Instance
             /\ [r EXCEPT !.failed = TRUE] \in Instance
  BY Zenon DEF Instance
<1>3. [runner EXCEPT ![j].cancelled = TRUE] \in [Runners -> Instance]
  BY <1>1, <1>2, Zenon DEF Types
<1>4. [runner EXCEPT ![j].overdue = TRUE] \in [Runners -> Instance]
  BY <1>1, <1>2, Zenon DEF Types
<1>5. [runner EXCEPT ![j].state = "exited", ![j].failed = TRUE] \in [Runners -> Instance]
  BY <1>1, <1>2, Zenon DEF Types
<1> QED
  BY <1>3, <1>4, <1>5

\* Nothing is registered, nobody holds the mutex.
LEMMA InitHolds == RegInit => RegInv
<1> SUFFICES ASSUME RegInit PROVE RegInv
  OBVIOUS
<1> USE RegistryAssumption DEF RegInit, AtRest, Unused, Actors
<1>1. Types
  <2>1. Unused \in Instance
    BY DEF Instance
  <2>2. runner \in [Runners -> Instance]
    BY <2>1 DEF RegInit
  <2>3. obj \in [exists : BOOLEAN, spec : 0 .. MaxEdits, deleting : BOOLEAN, finalizer : BOOLEAN]
    OBVIOUS
  <2> QED
    BY <2>2, <2>3, Zenon DEF Types
<1>2. Places
  BY DEF Places
<1>3. MutexHeld
  BY DEF MutexHeld, Holding
<1>4. Vacated /\ Accounted /\ Latched /\ Released
  BY DEF Vacated, Accounted, Latched, Released
<1> QED
  BY <1>1, <1>2, <1>3, <1>4 DEF RegInv

\* The user's steps and the clock leave everything else alone.
LEMMA QuietStepKeeps == ASSUME RegInv, Edit \/ Delete \/ Create \/ ThrottleEnds PROVE RegInv'
<1>1. Types'
  <2>1. CASE Edit
    BY <2>1, RegistryAssumption DEF RegInv, Types, Edit
  <2>2. CASE Delete
    BY <2>2, Zenon DEF RegInv, Types, Delete
  <2>3. CASE Create
    BY <2>3, RegistryAssumption DEF RegInv, Types, Create
  <2>4. CASE ThrottleEnds
    BY <2>4 DEF RegInv, Types, ThrottleEnds
  <2> QED
    BY <2>1, <2>2, <2>3, <2>4
<1>2. UNCHANGED <<runner, entry, closed, lock, actor>>
  BY DEF Edit, Delete, Create, ThrottleEnds
<1> QED
  BY <1>1, <1>2 DEF RegInv, Places, MutexHeld, Vacated, Accounted, Latched, Released

\* The contexts are cancelled; no instance starts, ends or is given up on.
LEMMA LoseLeaseKeeps == ASSUME RegInv, LoseLease PROVE RegInv'
<1> USE RegistryAssumption
    DEF LoseLease, Running, RegInv, Types, Places, MutexHeld, Holding,
        Vacated, Actors
<1>1. Types'
  BY ZenonT(60) DEF Instance
<1>2. Vacated'
  BY DEF Instance
<1>3. Accounted'
  BY DEF Accounted, Instance
<1>4. UNCHANGED <<entry, closed, lock, actor>>
  OBVIOUS
<1> QED
  BY <1>1, <1>2, <1>3, <1>4 DEF Latched, Released

\* An instance that is registered or waited for is not overdue and stays on record
\* as exited.
LEMMA ExitKeeps == ASSUME RegInv, NEW i \in Runners, Exit(i) PROVE RegInv'
<1> USE RegistryAssumption
    DEF Exit, Running, Unused, RegInv, Types, Places, MutexHeld, Holding,
        Vacated, Actors
<1>1. Types'
  BY DEF Instance
<1>2. Vacated'
  BY DEF Instance
<1>3. Accounted'
  BY DEF Accounted, Instance
<1>4. UNCHANGED <<entry, closed, lock, actor>>
  OBVIOUS
<1> QED
  BY <1>1, <1>2, <1>3, <1>4 DEF Latched, Released

\* The same for one that ends by itself.
LEMMA FailKeeps == ASSUME RegInv, NEW i \in Runners, Fail(i) PROVE RegInv'
<1> USE RegistryAssumption
    DEF Fail, Running, RegInv, Types, Places, MutexHeld, Holding, Vacated,
        Actors
<1>1. Types'
  BY FieldChanged, Zenon
<1>2. Vacated'
  BY DEF Instance
<1>3. Accounted'
  BY DEF Accounted, Instance
<1>4. UNCHANGED <<entry, closed, lock, actor>>
  BY Zenon
<1> QED
  BY <1>1, <1>2, <1>3, <1>4 DEF Latched, Released

\* Only a free mutex is taken.
LEMMA LockKeeps == ASSUME RegInv, NEW a \in Actors, Lock(a) PROVE RegInv'
<1> USE RegistryAssumption
    DEF Lock, Goto, RegInv, Types, Places, MutexHeld, Holding, Vacated, Actors
<1>1. Types'
  BY DEF Instance
<1>2. Places'
  BY Zenon
<1>3. MutexHeld'
  OBVIOUS
<1>4. Vacated'
  BY DEF Instance
<1>5. Accounted'
  BY DEF Accounted, Instance
<1>6. Latched'
  BY DEF Latched
<1>7. Released'
  BY DEF Released
<1> QED
  BY <1>1, <1>2, <1>3, <1>4, <1>5, <1>6, <1>7

\* The instance waited for is the one that is forgotten; the holder starts the
\* next or lets go.
LEMMA WaitDoneKeeps == ASSUME RegInv, NEW a \in Actors, WaitDone(a) PROVE RegInv'
<1> USE RegistryAssumption
    DEF WaitDone, Goto, Unlock, Unused, RegInv, Types, Places, MutexHeld,
        Holding, Vacated, Actors
<1>1. Types'
  BY DEF Instance
<1>2. Places'
  OBVIOUS
<1>3. MutexHeld'
  OBVIOUS
<1>4. Vacated'
  BY DEF Instance
<1>5. Accounted'
  BY DEF Accounted, Instance
<1>6. Latched'
  BY DEF Latched
<1>7. Released'
  BY Zenon DEF Released
<1> QED
  BY <1>1, <1>2, <1>3, <1>4, <1>5, <1>6, <1>7

\* The instance waited for is the one that is given up on.
LEMMA WaitTimesOutKeeps == ASSUME RegInv, NEW a \in Actors, WaitTimesOut(a) PROVE RegInv'
<1> USE RegistryAssumption
    DEF WaitTimesOut, Goto, Unlock, Running, AtRest, RegInv, Types, Places,
        MutexHeld, Holding, Vacated, Actors
<1>1. Types'
  BY FieldChanged, Zenon
<1>2. Places'
  BY ZenonT(60)
<1>3. MutexHeld'
  OBVIOUS
<1>4. Vacated'
  BY DEF Instance
<1>5. Accounted'
  BY DEF Accounted, Instance
<1>6. Latched'
  BY DEF Latched
<1>7. Released'
  BY Zenon DEF Released
<1> QED
  BY <1>1, <1>2, <1>3, <1>4, <1>5, <1>6, <1>7, Zenon

\* Reading the object touches nothing else.
LEMMA FetchKeeps == ASSUME RegInv, Fetch PROVE RegInv'
<1> USE RegistryAssumption
    DEF Fetch, Goto, AtRest, RegInv, Types, Places, MutexHeld, Holding,
        Vacated, Actors
<1>1. Types'
  BY DEF Instance
<1>2. Places'
  BY ZenonT(60)
<1>3. MutexHeld'
  OBVIOUS
<1>4. Vacated'
  BY DEF Instance
<1>5. Accounted'
  BY DEF Accounted, Instance
<1>6. Latched'
  BY DEF Latched
<1>7. Released'
  BY DEF Released
<1> QED
  BY <1>1, <1>2, <1>3, <1>4, <1>5, <1>6, <1>7, Zenon

\* The object is alive, or nothing is patched.
LEMMA PatchKeeps == ASSUME RegInv, Patch PROVE RegInv'
<1> USE RegistryAssumption
    DEF Patch, Goto, AtRest, RegInv, Types, Places, MutexHeld, Holding,
        Vacated, Actors
<1>1. Types'
  BY Zenon DEF Instance
<1>2. Places'
  OBVIOUS
<1>3. MutexHeld'
  OBVIOUS
<1>4. Vacated'
  BY DEF Instance
<1>5. Accounted'
  BY DEF Accounted, Instance
<1>6. Latched'
  BY DEF Latched
<1>7. Released'
  BY DEF Released
<1> QED
  BY <1>1, <1>2, <1>3, <1>4, <1>5, <1>6, <1>7

\* A failed patch ends the reconcile.
LEMMA PatchFailsKeeps == ASSUME RegInv, PatchFails PROVE RegInv'
<1> USE RegistryAssumption
    DEF PatchFails, Goto, AtRest, RegInv, Types, Places, MutexHeld, Holding,
        Vacated, Actors
<1>1. Types'
  BY DEF Instance
<1>2. Places'
  BY Zenon
<1>3. MutexHeld'
  OBVIOUS
<1>4. Vacated'
  BY DEF Instance
<1>5. Accounted'
  BY DEF Accounted, Instance
<1>6. Latched'
  BY DEF Latched
<1>7. Released'
  BY DEF Released
<1> QED
  BY <1>1, <1>2, <1>3, <1>4, <1>5, <1>6, <1>7

\* The mutex is released, nothing else.
LEMMA EnsureReturnsKeeps == ASSUME RegInv, EnsureReturns PROVE RegInv'
<1> USE RegistryAssumption
    DEF EnsureReturns, Ensuring, Goto, Unlock, AtRest, RegInv, Types, Places,
        MutexHeld, Holding, Vacated, Actors
<1>1. Types'
  BY DEF Instance
<1>2. Places'
  BY Zenon
<1>3. MutexHeld'
  OBVIOUS
<1>4. Vacated'
  BY DEF Instance
<1>5. Accounted'
  BY DEF Accounted, Instance
<1>6. Latched'
  BY DEF Latched
<1>7. Released'
  BY DEF Released
<1> QED
  BY <1>1, <1>2, <1>3, <1>4, <1>5, <1>6, <1>7, Zenon

\* Nothing is registered when a start is decided on.
LEMMA EnsureStartsKeeps == ASSUME RegInv, EnsureStarts PROVE RegInv'
<1> USE RegistryAssumption
    DEF EnsureStarts, Ensuring, Starting, Goto, RegInv, Types, Places,
        MutexHeld, Holding, Vacated, Actors
<1>1. Types'
  BY DEF Instance
<1>2. Places'
  BY Zenon
<1>3. MutexHeld'
  OBVIOUS
<1>4. Vacated'
  BY DEF Instance
<1>5. Accounted'
  BY DEF Accounted, Instance
<1>6. Latched'
  BY DEF Latched
<1>7. Released'
  BY DEF Released
<1> QED
  BY <1>1, <1>2, <1>3, <1>4, <1>5, <1>6, <1>7

\* The registered instance becomes the one waited for.
LEMMA EnsureReplacesKeeps == ASSUME RegInv, EnsureReplaces PROVE RegInv'
<1> USE RegistryAssumption
    DEF EnsureReplaces, Ensuring, Starting, StopBegin, Goto, RegInv, Types,
        Places, MutexHeld, Holding, Vacated, Actors
<1>1. Types'
  BY FieldChanged, Zenon
<1>2. Places'
  BY Zenon
<1>3. MutexHeld'
  OBVIOUS
<1>4. Vacated'
  BY DEF Instance
<1>5. Accounted'
  BY DEF Accounted, Instance
<1>6. Latched'
  BY DEF Latched
<1>7. Released'
  BY DEF Released
<1> QED
  BY <1>1, <1>2, <1>3, <1>4, <1>5, <1>6, <1>7, Zenon

\* The new instance is registered, and the latch is still to be looked at.
LEMMA StartKeeps == ASSUME RegInv, NEW i \in Runners, Start(i) PROVE RegInv'
<1> USE RegistryAssumption
    DEF Start, Unused, Goto, RegInv, Types, Places, MutexHeld, Holding,
        Vacated, Actors
<1>1. Types'
  BY Zenon DEF Instance
<1>2. Places'
  BY Zenon
<1>3. MutexHeld'
  OBVIOUS
<1>4. Vacated'
  BY DEF Instance
<1>5. Accounted'
  BY DEF Accounted, Instance
<1>6. Latched'
  BY DEF Latched
<1>7. Released'
  BY Zenon DEF Released
<1> QED
  BY <1>1, <1>2, <1>3, <1>4, <1>5, <1>6, <1>7

\* Nothing was registered.
LEMMA StartFailsKeeps == ASSUME RegInv, StartFails PROVE RegInv'
<1> USE RegistryAssumption
    DEF StartFails, Goto, Unlock, AtRest, RegInv, Types, Places, MutexHeld,
        Holding, Vacated, Actors
<1>1. Types'
  BY DEF Instance
<1>2. Places'
  BY Zenon
<1>3. MutexHeld'
  OBVIOUS
<1>4. Vacated'
  BY DEF Instance
<1>5. Accounted'
  BY DEF Accounted, Instance
<1>6. Latched'
  BY DEF Latched
<1>7. Released'
  BY DEF Released
<1> QED
  BY <1>1, <1>2, <1>3, <1>4, <1>5, <1>6, <1>7, Zenon

\* What was registered behind the latch becomes the instance waited for.
LEMMA RecheckKeeps == ASSUME RegInv, Recheck PROVE RegInv'
<1> USE RegistryAssumption
    DEF Recheck, StopBegin, Goto, Unlock, AtRest, RegInv, Types, Places,
        MutexHeld, Holding, Vacated, Actors
<1>1. Types'
  BY FieldChanged, ZenonT(60)
<1>2. Places'
  OBVIOUS
<1>3. MutexHeld'
  OBVIOUS
<1>4. Vacated'
  BY DEF Instance
<1>5. Accounted'
  BY DEF Accounted, Instance
<1>6. Latched'
  BY DEF Latched
<1>7. Released'
  BY DEF Released
<1> QED
  BY <1>1, <1>2, <1>3, <1>4, <1>5, <1>6, <1>7

\* The registered instance, if any, becomes the one waited for.
LEMMA ReconcilerStopsKeeps == ASSUME RegInv, ReconcilerStops PROVE RegInv'
<1> USE RegistryAssumption
    DEF ReconcilerStops, StopBegin, Stopped, Goto, Unlock, RegInv, Types,
        Places, MutexHeld, Holding, Vacated, Actors
<1>1. Types'
  BY FieldChanged, ZenonT(60)
<1>2. Places'
  OBVIOUS
<1>3. MutexHeld'
  OBVIOUS
<1>4. Vacated'
  BY DEF Instance
<1>5. Accounted'
  BY DEF Accounted, Instance
<1>6. Latched'
  BY DEF Latched
<1>7. Released'
  BY DEF Released
<1> QED
  BY <1>1, <1>2, <1>3, <1>4, <1>5, <1>6, <1>7

\* Only the restart record changes.
LEMMA ForgetKeeps == ASSUME RegInv, Forget PROVE RegInv'
<1> USE RegistryAssumption
    DEF Forget, Goto, AtRest, RegInv, Types, Places, MutexHeld, Holding,
        Vacated, Actors
<1>1. Types'
  BY DEF Instance
<1>2. Places'
  BY Zenon
<1>3. MutexHeld'
  OBVIOUS
<1>4. Vacated'
  BY DEF Instance
<1>5. Accounted'
  BY DEF Accounted, Instance
<1>6. Latched'
  BY DEF Latched
<1>7. Released'
  BY DEF Released
<1> QED
  BY <1>1, <1>2, <1>3, <1>4, <1>5, <1>6, <1>7, Zenon

\* Only the object changes.
LEMMA ReleaseKeeps == ASSUME RegInv, Release PROVE RegInv'
<1> USE RegistryAssumption
    DEF Release, Goto, AtRest, RegInv, Types, Places, MutexHeld, Holding,
        Vacated, Actors
<1>1. Types'
  BY Zenon DEF Instance
<1>2. Places'
  BY Zenon
<1>3. MutexHeld'
  OBVIOUS
<1>4. Vacated'
  BY DEF Instance
<1>5. Accounted'
  BY DEF Accounted, Instance
<1>6. Latched'
  BY DEF Latched
<1>7. Released'
  BY Zenon DEF Released
<1> QED
  BY <1>1, <1>2, <1>3, <1>4, <1>5, <1>6, <1>7, Zenon

\* The stopper closes the registry first.
LEMMA LatchKeeps == ASSUME RegInv, Latch PROVE RegInv'
<1> USE RegistryAssumption
    DEF Latch, Goto, AtRest, RegInv, Types, Places, MutexHeld, Holding,
        Vacated, Actors
<1>1. Types'
  BY DEF Instance
<1>2. Places'
  BY Zenon
<1>3. MutexHeld'
  OBVIOUS
<1>4. Vacated'
  BY DEF Instance
<1>5. Accounted'
  BY DEF Accounted, Instance
<1>6. Latched'
  BY DEF Latched
<1>7. Released'
  BY DEF Released
<1> QED
  BY <1>1, <1>2, <1>3, <1>4, <1>5, <1>6, <1>7, Zenon

\* The stopper is done only if nothing is registered.
LEMMA ListKeeps == ASSUME RegInv, List PROVE RegInv'
<1> USE RegistryAssumption
    DEF List, Goto, RegInv, Types, Places, MutexHeld, Holding, Vacated, Actors
<1>1. Types'
  BY DEF Instance
<1>2. Places'
  BY Zenon
<1>3. MutexHeld'
  OBVIOUS
<1>4. Vacated'
  BY DEF Instance
<1>5. Accounted'
  BY DEF Accounted, Instance
<1>6. Latched'
  BY DEF Latched
<1>7. Released'
  BY DEF Released
<1> QED
  BY <1>1, <1>2, <1>3, <1>4, <1>5, <1>6, <1>7

\* The registered instance, if any, becomes the one waited for.
LEMMA StopperStopsKeeps == ASSUME RegInv, StopperStops PROVE RegInv'
<1> USE RegistryAssumption
    DEF StopperStops, StopBegin, Goto, Unlock, RegInv, Types, Places,
        MutexHeld, Holding, Vacated, Actors
<1>1. Types'
  <2>1. runner' \in [Runners -> Instance]
    <3>1. CASE entry = NoRunner
      BY <3>1, Zenon
    <3>2. CASE entry \in Runners /\ entry # NoRunner
      <4>1. runner' = [runner EXCEPT ![entry].cancelled = TRUE]
        BY <3>2, Zenon
      <4> QED
        BY <3>2, <4>1, FieldChanged, Zenon
    <3> QED
      BY <3>1, <3>2, Zenon
  <2>2. obj' = obj /\ closed' = closed /\ entry' \in {entry, NoRunner}
    BY Zenon
  <2> QED
    BY <2>1, <2>2, Zenon
<1>2. Places'
  OBVIOUS
<1>3. MutexHeld'
  OBVIOUS
<1>4. Vacated'
  BY DEF Instance
<1>5. Accounted'
  BY DEF Accounted, Instance
<1>6. Latched'
  BY DEF Latched
<1>7. Released'
  BY DEF Released
<1> QED
  BY <1>1, <1>2, <1>3, <1>4, <1>5, <1>6, <1>7

-----------------------------------------------------------------------------
(* The theorems.                                                           *)

\* Every step keeps the invariant.
LEMMA StepKeeps == RegInv /\ [RegNext]_regVars => RegInv'
<1> SUFFICES ASSUME RegInv, [RegNext]_regVars PROVE RegInv'
  OBVIOUS
<1>1. CASE Environment
  BY <1>1, QuietStepKeeps, LoseLeaseKeeps, ExitKeeps, FailKeeps DEF Environment
<1>2. CASE Reconciler
  BY <1>2, FetchKeeps, PatchKeeps, PatchFailsKeeps, EnsureReturnsKeeps, EnsureStartsKeeps,
     EnsureReplacesKeeps, StartKeeps, StartFailsKeeps, RecheckKeeps, ReconcilerStopsKeeps,
     ForgetKeeps, ReleaseKeeps DEF Reconciler
<1>3. CASE Stopper
  BY <1>3, LatchKeeps, ListKeeps, StopperStopsKeeps DEF Stopper
<1>4. CASE \E a \in Actors : Lock(a) \/ WaitDone(a) \/ WaitTimesOut(a)
  BY <1>4, LockKeeps, WaitDoneKeeps, WaitTimesOutKeeps, Zenon
<1>5. CASE UNCHANGED regVars
  BY <1>5 DEF regVars, RegInv, Types, Places, MutexHeld, Vacated, Accounted, Latched, Released
<1> QED
  BY <1>1, <1>2, <1>3, <1>4, <1>5 DEF RegNext

\* The inductive invariant holds throughout.
LEMMA InvariantHolds == RegSpec => []RegInv
BY InitHolds, StepKeeps, PTL DEF RegSpec

\* The fields of the registry keep their types, the registered instance is a real
\* one, and the check's mutex is held by whoever is between lock and unlock.
THEOREM RegistryTyped == RegSpec => []RegTypeOK
<1>1. RegInv => RegTypeOK
  BY DEF RegInv, Types, Instance, MutexHeld, Holding, Vacated, RegTypeOK
<1> QED
  BY <1>1, InvariantHolds, PTL

\* "Never two runners for one check" (Ensure), for any number of edits, failures
\* and instances: two instances in time would both be registered or waited for.
THEOREM RunnerIsAlone == RegSpec => []OneRunner
<1>1. RegInv => OneRunner
  <2> SUFFICES ASSUME RegInv PROVE OneRunner
    OBVIOUS
  <2> DEFINE timely == {i \in Running : ~runner[i].overdue}
  <2>1. \A i \in timely :
           entry = i \/ \E a \in Actors : actor[a].at = "wait" /\ actor[a].instance = i
    BY DEF RegInv, Accounted, Running
  <2>2. \A i, j \in timely : i = j
    BY <2>1, RegistryAssumption DEF RegInv, Vacated, MutexHeld, Holding, Running, Actors
  <2>3. timely = {} \/ \E i \in timely : timely = {i}
    BY <2>2
  <2>4. Cardinality(timely) <= 1
    BY <2>3, FS_EmptySet, FS_Singleton
  <2> QED
    BY <2>1, <2>4 DEF OneRunner
<1> QED
  BY <1>1, InvariantHolds, PTL

\* "A runner nothing would ever stop" (Shutdown): there is none once the stopper
\* is done and no reconcile is under way, wherever the lease was lost.
THEOREM ShutdownLeavesNothing == RegSpec => []NothingLeftBehind
<1>1. RegInv => NothingLeftBehind
  BY RegistryAssumption
     DEF RegInv, Accounted, Latched, NothingLeftBehind, Running, Actors, AtRest
<1> QED
  BY <1>1, InvariantHolds, PTL

\* The finalizer comes off only after the check's runner has returned or was given
\* up on (finalize): of all steps only Release removes an object under deletion.
THEOREM ReleaseComesLast == RegSpec => ReleasedStopped
<1> DEFINE Gone == entry = NoRunner /\ \A i \in Running : runner[i].overdue
<1>1. RegInv /\ [RegNext]_regVars => [obj.deleting /\ ~obj'.exists => Gone]_regVars
  <2> SUFFICES ASSUME RegInv, RegNext, obj.deleting, ~obj'.exists PROVE Gone
    BY Zenon DEF regVars
  <2>1. Release
    BY Zenon DEF RegInv, Types, RegNext, Environment, Reconciler, Stopper, Edit, Delete, Create, ThrottleEnds,
       LoseLease, Exit, Fail, Lock, WaitDone, WaitTimesOut, Fetch, Patch, PatchFails, EnsureReturns,
       EnsureStarts, EnsureReplaces, StopBegin, Start, StartFails, Recheck, ReconcilerStops, Forget,
       Latch, List, StopperStops
  <2> QED
    BY <2>1, RegistryAssumption DEF Release, RegInv, Released, Accounted, Running, Actors
<1> QED
  BY <1>1, InvariantHolds, PTL DEF RegSpec, ReleasedStopped
=============================================================================
