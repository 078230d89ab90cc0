------------------------------- MODULE Clock -------------------------------
(***************************************************************************)
(* The manually advanced clock of pkg/clock/clock.go, on which every       *)
(* deterministic test of the pipeline stands: timers, tickers, Sleep,      *)
(* Advance and BlockUntil.  Each operation holds the clock's mutex from    *)
(* beginning to end, so each is one action.  The real clock is Go's own    *)
(* time package and is not modelled.                                       *)
(***************************************************************************)
EXTENDS Integers, FiniteSets, Sequences, FiniteSetsExt

CONSTANTS
    WaiterIds,     \* the ids registerLocked can hand out: 1..n
    Periods,       \* positive durations
    Moves,         \* durations Advance is called with, zero included
    EndOfTime,     \* bound on the clock
    Testers        \* goroutines that call BlockUntil

VARIABLES
    clock,     \* [now, waiters, chans]: waiters is the map of registered ones,
               \* chans the one-slot channel of every waiter handed out
    kinds,     \* what each handed-out id is: "timer", "ticker" or "sleep"
    sleeping,  \* the ids on which a goroutine is inside Sleep
    parked     \* the n each goroutine inside BlockUntil waits for, 0 outside

clockVars == <<clock, kinds, sleeping, parked>>

ClockInit ==
    /\ clock = [now |-> 0, waiters |-> <<>>, chans |-> <<>>]
    /\ kinds = <<>> /\ sleeping = {}
    /\ parked = [g \in Testers |-> 0]

With(f, x, v) == [y \in DOMAIN f \union {x} |-> IF y = x THEN v ELSE f[y]]
Without(f, x) == [y \in DOMAIN f \ {x} |-> f[y]]

(* Every parked goroutine whose count is reached is released. *)
CheckBlockers(waiters) ==
    parked' = [g \in Testers |->
                 IF Cardinality(DOMAIN waiters) >= parked[g] THEN 0 ELSE parked[g]]

---------------------------------------------------------------------------
(* Registering.  A negative duration counts as zero, which is due at the   *)
(* next Advance, Advance(0) included.                                      *)
Register(kind, d, period) ==
    LET id == Cardinality(DOMAIN kinds) + 1
        w  == [deadline |-> clock.now + IF d < 0 THEN 0 ELSE d, period |-> period]
    IN  /\ id \in WaiterIds
        /\ clock' = [clock EXCEPT !.waiters = With(@, id, w),
                                  !.chans = With(@, id, <<>>)]
        /\ kinds' = With(kinds, id, kind)
        /\ sleeping' = IF kind = "sleep" THEN sleeping \union {id} ELSE sleeping
        /\ CheckBlockers(With(clock.waiters, id, w))

NewTicker == \E d \in Periods : Register("ticker", d, d)
NewTimer == \E d \in Periods \union {-1, 0} : Register("timer", d, 0)
Sleep == \E d \in Periods : Register("sleep", d, 0)

---------------------------------------------------------------------------
(* Advance.  Deadlines are met in order, ties by id; each waiter is fired  *)
(* at its own deadline, a tick that finds the slot taken is dropped.       *)
EarliestDue(s, target) ==
    LET due == {i \in DOMAIN s.waiters : s.waiters[i].deadline <= target}
        first == Min({s.waiters[i].deadline : i \in due})
    IN  IF due = {} THEN 0
        ELSE Min({i \in due : s.waiters[i].deadline = first})

Offered(s, id, at) ==
    IF s.chans[id] = <<>> THEN [s.chans EXCEPT ![id] = <<at>>] ELSE s.chans

Fired(s, id, target) ==
    LET w == s.waiters[id]
    IN  [now |-> w.deadline, chans |-> Offered(s, id, w.deadline),
         waiters |-> IF w.period > 0
                     THEN With(s.waiters, id, [w EXCEPT !.deadline = @ + w.period])
                     ELSE Without(s.waiters, id)]

RECURSIVE AdvanceTo(_, _)
AdvanceTo(s, target) ==
    LET id == EarliestDue(s, target)
    IN  IF id = 0 THEN [s EXCEPT !.now = target]
        ELSE AdvanceTo(Fired(s, id, target), target)

Advance ==
    \E d \in Moves :
        /\ clock.now + d <= EndOfTime
        /\ clock' = AdvanceTo(clock, clock.now + d)
        /\ CheckBlockers(clock'.waiters)
        /\ UNCHANGED <<kinds, sleeping>>

---------------------------------------------------------------------------
(* The owners of timers and tickers: receive, Stop and Reset.              *)
Receive ==
    \E i \in DOMAIN kinds \ sleeping :
        /\ clock.chans[i] # <<>>
        /\ clock' = [clock EXCEPT !.chans[i] = <<>>]
        /\ UNCHANGED <<kinds, sleeping, parked>>

StopWaiter ==
    \E i \in DOMAIN clock.waiters \ sleeping :
        /\ clock' = [clock EXCEPT !.waiters = Without(@, i)]
        /\ CheckBlockers(clock'.waiters)
        /\ UNCHANGED <<kinds, sleeping>>

\* A mutant of Rearmed: nobody looks at the goroutines in BlockUntil.
RearmedQuietly(i, d, period) ==
    /\ clock' = [clock EXCEPT !.waiters =
                   With(@, i, [deadline |-> clock.now + d, period |-> period])]
    /\ UNCHANGED parked

Rearmed(i, d, period) ==
    /\ clock' = [clock EXCEPT !.waiters =
                   With(@, i, [deadline |-> clock.now + d, period |-> period])]
    /\ CheckBlockers(clock'.waiters)

ResetWaiter ==
    \E i \in DOMAIN kinds \ sleeping, d \in Periods :
        /\ kinds[i] # "sleep"
        /\ Rearmed(i, d, IF kinds[i] = "ticker" THEN d ELSE 0)
        /\ UNCHANGED <<kinds, sleeping>>

(* The two ways out of Sleep; the deferred Stop unregisters the timer.     *)
SleepElapsed ==
    \E i \in sleeping :
        /\ clock.chans[i] # <<>>
        /\ clock' = [clock EXCEPT !.chans[i] = <<>>]
        /\ sleeping' = sleeping \ {i}
        /\ UNCHANGED <<kinds, parked>>

SleepCancelled ==
    \E i \in sleeping :
        /\ sleeping' = sleeping \ {i}
        /\ clock' = [clock EXCEPT !.waiters = Without(@, i)]
        /\ CheckBlockers(clock'.waiters)
        /\ UNCHANGED kinds

BlockUntil ==
    \E g \in Testers, n \in 1 .. Cardinality(WaiterIds) :
        /\ parked[g] = 0
        /\ Cardinality(DOMAIN clock.waiters) < n
        /\ parked' = [parked EXCEPT ![g] = n]
        /\ UNCHANGED <<clock, kinds, sleeping>>

ClockNext ==
    \/ NewTicker \/ NewTimer \/ Sleep \/ Advance \/ Receive \/ StopWaiter
    \/ ResetWaiter \/ SleepElapsed \/ SleepCancelled \/ BlockUntil

ClockSpec == ClockInit /\ [][ClockNext]_clockVars

---------------------------------------------------------------------------
(* One large Advance leaves the same clock, the same pending ticks and the *)
(* same deadlines as any two smaller ones that add up to it: Advance fires *)
(* every waiter at its own deadline, in order (clock.go, Advance).         *)
AdvanceSplits ==
    \A a, b \in Moves :
        AdvanceTo(clock, clock.now + a + b) =
            AdvanceTo(AdvanceTo(clock, clock.now + a), clock.now + a + b)

(* Nobody stays inside BlockUntil while enough waiters are registered:     *)
(* every operation that may add one looks at the parked goroutines.        *)
ParkedIsShort ==
    \A g \in Testers :
        parked[g] # 0 => Cardinality(DOMAIN clock.waiters) < parked[g]

(* A Sleep that was cancelled leaves no waiter behind, so that BlockUntil  *)
(* counts only goroutines that wait (fakeClock.Sleep and its deferred      *)
(* Stop).                                                                  *)
SleepLeavesNothing ==
    \A i \in DOMAIN clock.waiters : kinds[i] = "sleep" => i \in sleeping

\* The fake clock does what the real one would: an advance may be cut into parts,
\* nobody waits past a deadline, and a sleep that is cut short leaves no timer.
ClockIsSound == AdvanceSplits /\ ParkedIsShort /\ SleepLeavesNothing
============================================================================
