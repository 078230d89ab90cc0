--------------------------------- MODULE Lag --------------------------------
(***************************************************************************)
(* pkg/lag: how long the store takes to follow an event, measured on a     *)
(* rotating sample of keys, and the settlement window derived from it. The *)
(* applier offers keys and starts measurements; the estimator's goroutine  *)
(* polls, rotates and recomputes on a ticker. Only the map of measurements *)
(* is locked, so an event may come between a poll and the removal that     *)
(* follows it.                                                             *)
(*                                                                         *)
(* One unit of time is the base poll interval, the period of the ticker.   *)
(* Times are kept as ages that stop growing at the limit they are compared *)
(* with. A round of polls takes no time, and neither does folding an event.*)
(***************************************************************************)
EXTENDS Integers, FiniteSets, Sequences, FiniteSetsExt, Functions

CONSTANTS
    Keys,
    Restless,           \* the keys that may change while they are measured
    ProbeCount,         \* Config.ProbeCount
    ProbeRotation,      \* Config.ProbeRotation
    MaxPollDelay,       \* Config.MaxPollDelay
    MaxPollInterval,    \* maxPollInterval
    WindowSize,         \* Config.WindowSize
    MinWindow,          \* Config.MinWindow
    MaxWindow,          \* Config.MaxWindow
    SafetyFactor,       \* Config.SafetyFactor
    MinObservations,    \* minObservations
    MinChangeInterval,  \* minChangeInterval
    None

ASSUME LagAssumption ==
    /\ Restless \subseteq Keys
    /\ {ProbeCount, ProbeRotation, MaxPollDelay, MaxPollInterval, WindowSize, MinWindow,
        SafetyFactor, MinObservations, MinChangeInterval} \subseteq Nat \ {0}
    /\ MaxWindow \in Nat /\ MinWindow <= MaxWindow
    /\ MinObservations <= WindowSize

\* A measurement (pending): whether the oracle still holds its version,
\* its age, the time to the next poll and the interval after which that was
\* scheduled.
Measurements ==
    [current : BOOLEAN, age : 0 .. MaxPollDelay, wait : Nat, interval : Nat]

ASSUME NoneAssumption == None \notin Keys \cup Measurements

VARIABLES
    store,      \* what the store holds of a key: the latest value, an older one, another type
    wedged,     \* the store has stopped following
    applied,    \* the key whose event is in the oracle and not yet observed
    born,       \* age of the latest version of a key, while that is measured
    probes,     \* probeSet.index
    rotated,    \* age of probeSet.rotatedAt, None before the first round
    pending,    \* Estimator.pending
    round,      \* where the estimator's goroutine is
    samples,    \* the retained observations, oldest first
    window,     \* Estimator.window
    ctrl        \* the controller

lagVars == <<store, wedged, applied, born, probes, rotated,
             pending, round, samples, window, ctrl>>

Least(a, b) == IF a <= b THEN a ELSE b

\* A measurement that starts.
Measurement == [current |-> TRUE, age |-> 0, wait |-> 1, interval |-> 1]

LagInit ==
    /\ store = [k \in Keys |-> "latest"]
    /\ wedged = FALSE
    /\ applied = None
    /\ born = [k \in Keys |-> 0]
    /\ probes = {} /\ rotated = None
    /\ pending = [k \in Keys |-> None]
    /\ round = [at |-> "idle"]
    /\ samples = <<>>
    /\ window = MinWindow
    /\ ctrl = [current |-> 0, changed |-> None, clamped |-> FALSE, adaptive |-> FALSE]

-----------------------------------------------------------------------------
(* The store and the applier.                                              *)

\* The materializer catches up, or writes another type.
StoreFollows(k) ==
    /\ ~wedged /\ store[k] # "latest"
    /\ \E s \in {"latest", "other type"} : store' = [store EXCEPT ![k] = s]
    /\ UNCHANGED <<wedged, applied, born, probes, rotated, pending, round, samples, window, ctrl>>

StoreWedges ==
    /\ ~wedged
    /\ wedged' = TRUE
    /\ store' = [k \in Keys |-> "older"]
    /\ UNCHANGED <<applied, born, probes, rotated, pending, round, samples, window, ctrl>>

\* fold: the oracle takes a new version of k.
ApplyEvent(k) ==
    /\ applied = None
    /\ k \in Restless \/ pending[k] = None
    /\ applied' = k
    /\ born' = [born EXCEPT ![k] = 0]
    /\ store' = [store EXCEPT ![k] = "older"]
    /\ pending' = [pending EXCEPT ![k] = IF @ = None THEN None ELSE [@ EXCEPT !.current = FALSE]]
    /\ UNCHANGED <<wedged, probes, rotated, round, samples, window, ctrl>>

\* probeSet.offer: what may be the sample after k was offered. In a full
\* reservoir chance decides (seen, the number of offers, only weighs it).
Offered(k) ==
    CASE k \in probes                     -> {probes}
      [] Cardinality(probes) < ProbeCount -> {probes \cup {k}}
      [] OTHER -> {probes} \cup {(probes \ {j}) \cup {k} : j \in probes}

\* fold: OfferKey, then Observe; a new measurement replaces the old one.
OfferAndObserve(k) ==
    /\ applied = k
    /\ applied' = None
    /\ probes' \in Offered(k)
    /\ IF k \in probes'
       THEN /\ pending' = [pending EXCEPT ![k] = Measurement]
            /\ round' = IF round.at = "polling"
                        THEN [round EXCEPT !.replaced = @ \cup ({k} \cap round.due)] ELSE round
       ELSE UNCHANGED <<pending, round>>
    /\ UNCHANGED <<store, wedged, born, rotated, samples, window, ctrl>>

-----------------------------------------------------------------------------
(* A round of the estimator: pollDue, rotateIfDue, Recompute.              *)

\* due points at the measurements, so one that is replaced stays in it.
TickStarts ==
    /\ round.at = "ticked"
    /\ round' = [at |-> "polling", replaced |-> {}, removing |-> None,
                 due |-> {k \in Keys : pending[k] # None /\ pending[k].wait = 0}]
    /\ UNCHANGED <<store, wedged, applied, born, probes, rotated, pending, samples, window, ctrl>>

\* window.push, with the oldest observation overwritten in a full ring
Pushed(d) ==
    IF Len(samples) < WindowSize THEN Append(samples, d) ELSE Append(Tail(samples), d)

\* Mutant: a measurement that timed out is thrown away.
TimeoutsDropped(d) == samples

\* window.recordTimeout
TimeoutsRecorded(d) == Pushed(d)

\* Mutant: a measurement goes on although the oracle has moved on.
PollAnyVersion(k) ==
    LET p == pending[k]
    IN  /\ round.at = "polling" /\ round.removing = None /\ k \in round.due
        /\ samples' = Pushed(p.age)
        /\ round' = [round EXCEPT !.removing = k]
        /\ UNCHANGED <<store, wedged, applied, born, probes, rotated, pending, window, ctrl>>

\* poll, and the case of pollDue that follows. The measurement of a replaced
\* one is of an older version. A failing read says nothing.
Poll(k) ==
    LET p     == pending[k]
        ended == round' = [round EXCEPT !.removing = k] /\ UNCHANGED pending
    IN  /\ round.at = "polling" /\ round.removing = None /\ k \in round.due
        /\ \/ /\ k \in round.replaced \/ ~p.current \/ store[k] = "other type"
              /\ ended /\ UNCHANGED samples
           \/ /\ k \notin round.replaced /\ p.current /\ store[k] = "latest"
              /\ samples' = Pushed(p.age)
              /\ ended
           \/ /\ k \notin round.replaced /\ p.current /\ p.age = MaxPollDelay
              /\ samples' = TimeoutsRecorded(MaxPollDelay)
              /\ ended
           \/ /\ k \notin round.replaced /\ p.current /\ p.age < MaxPollDelay
              /\ LET interval == Least(2 * p.interval, MaxPollInterval)
                 IN  pending' = [pending EXCEPT ![k].interval = interval, ![k].wait = interval]
              /\ round' = [round EXCEPT !.due = @ \ {k}]
              /\ UNCHANGED samples
        /\ UNCHANGED <<store, wedged, applied, born, probes, rotated, window, ctrl>>

\* remove, by key: whatever measurement the key has by now.
RemoveByKey ==
    /\ round.at = "polling" /\ round.removing # None
    /\ pending' = [pending EXCEPT ![round.removing] = None]
    /\ round' = [round EXCEPT !.removing = None, !.due = @ \ {round.removing},
                              !.replaced = @ \ {round.removing}]
    /\ UNCHANGED <<store, wedged, applied, born, probes, rotated, samples, window, ctrl>>

\* rotateIfDue and dropNonProbes: the new sample is empty, so every
\* measurement goes. (Keys offered between the two calls are not modelled.)
Rotate ==
    /\ round.at = "polling" /\ round.due = {}
    /\ round' = [at |-> "recompute"]
    /\ IF rotated = ProbeRotation
       THEN /\ probes' = {} /\ rotated' = 0
            /\ pending' = [k \in Keys |-> None]
       ELSE /\ rotated' = IF rotated = None THEN 0 ELSE rotated
            /\ UNCHANGED <<probes, pending>>
    /\ UNCHANGED <<store, wedged, applied, born, samples, window, ctrl>>

\* percentile 0.99 by nearest rank: the least observation with that many at or
\* below it.
P99 ==
    LET rank      == (99 * Len(samples) + 99) \div 100
        atMost(d) == Cardinality({i \in DOMAIN samples : samples[i] <= d})
    IN  Min({d \in Range(samples) : atMost(d) >= rank})

\* Mutant: the measured lag is not held to the configured range.
ClampedNot(want) == want

Clamped(want) == IF want < MinWindow THEN MinWindow ELSE Least(want, MaxWindow)

\* The two guards between a wanted window and the one in force.
Held(want) ==
    LET diff == IF want > ctrl.current THEN want - ctrl.current ELSE ctrl.current - want
    IN  \/ 5 * diff <= ctrl.current
        \/ ctrl.changed # None /\ ctrl.changed < MinChangeInterval

\* Recompute, with decide.
Recompute ==
    /\ round.at = "recompute"
    /\ round' = [at |-> "idle"]
    /\ IF Len(samples) < MinObservations
       THEN /\ ctrl' = [ctrl EXCEPT !.adaptive = FALSE,
                                    !.current = IF @ = 0 THEN MinWindow ELSE @]
            /\ UNCHANGED window
       ELSE LET want == Clamped(P99 * SafetyFactor)
                next == [ctrl EXCEPT !.adaptive = TRUE,
                                     !.clamped = P99 * SafetyFactor > MaxWindow]
            IN  IF ctrl.current # 0 /\ Held(want)
                THEN ctrl' = next /\ UNCHANGED window
                ELSE ctrl' = [next EXCEPT !.current = want, !.changed = 0] /\ window' = want
    /\ UNCHANGED <<store, wedged, applied, born, probes, rotated, pending, samples>>

\* The ticker: one unit of time passes, and the next round begins.
Elapse ==
    /\ round.at = "idle" /\ applied = None
    /\ round' = [at |-> "ticked"]
    /\ rotated' = IF rotated = None THEN None ELSE Least(rotated + 1, ProbeRotation)
    /\ ctrl' = [ctrl EXCEPT !.changed = IF @ = None THEN None ELSE Least(@ + 1, MinChangeInterval)]
    /\ pending' = [k \in Keys |->
                      IF pending[k] = None THEN None
                      ELSE [pending[k] EXCEPT !.age = Least(@ + 1, MaxPollDelay),
                                              !.wait = IF @ = 0 THEN 0 ELSE @ - 1]]
    /\ born' = [k \in Keys |-> IF pending[k] # None /\ pending[k].current
                               THEN Least(born[k] + 1, MaxPollDelay) ELSE 0]
    /\ UNCHANGED <<store, wedged, applied, probes, samples, window>>

Estimates == TickStarts \/ (\E k \in Keys : Poll(k)) \/ RemoveByKey \/ Rotate \/ Recompute

LagNext ==
    \/ \E k \in Keys : StoreFollows(k) \/ ApplyEvent(k) \/ OfferAndObserve(k)
    \/ StoreWedges
    \/ Estimates
    \/ Elapse

\* The ticker fires and its round runs to the end; the applier finishes the
\* event it has begun. A key that is not restless keeps being updated, now and
\* then just after a rotation, and the chance of the reservoir takes it then.
LagFairness ==
    /\ SF_lagVars(Elapse) /\ WF_lagVars(Estimates)
    /\ \A k \in Keys : WF_lagVars(OfferAndObserve(k))
    /\ \A k \in Keys \ Restless :
           /\ SF_lagVars(ApplyEvent(k) /\ rotated = 0)
           /\ SF_lagVars(OfferAndObserve(k) /\ k \in probes' /\ rotated = 0)

LagSpec == LagInit /\ [][LagNext]_lagVars /\ LagFairness

-----------------------------------------------------------------------------
\* The window the sweeper reads, and the controller's copy of it, stay between
\* the configured bounds whatever the store does (DESIGN.md's property test of
\* SettlementWindow), and agree once the controller has decided anything.
WindowInBounds ==
    /\ window \in MinWindow .. MaxWindow
    /\ ctrl.current \in {0, window}
    /\ Cardinality(probes) <= ProbeCount

\* Every observation is the time since the oracle learned the version it holds
\* now: a measurement that an event overtook between the copy of the due list,
\* the poll and the removal is lost, but never recorded as the lag of another
\* version.
SamplesHonest ==
    [][samples' # samples =>
           /\ round'.removing # None
           /\ samples'[Len(samples')] = born[round'.removing]]_lagVars

\* A store that stops following widens the window: probes that never converge
\* count at MaxPollDelay, fill the distribution and carry the window to within
\* a fifth of what they ask for, through rotation, hysteresis and rate limit.
WedgedWidens ==
    wedged ~> [](5 * (Clamped(MaxPollDelay * SafetyFactor) - window) <= window)
=============================================================================
