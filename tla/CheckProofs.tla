---------------------------- MODULE CheckProofs -----------------------------
(***************************************************************************)
(* What is proved of a running check. The lag estimator, for any keys,     *)
(* sizes and bounds: the settlement window stays within its configured     *)
(* range, and every observation is the age of the version the oracle       *)
(* holds. The check, for any number of pauses: its phase is honest, apart  *)
(* from the races that are named.                                          *)
(***************************************************************************)
EXTENDS Lag, Check, FiniteSetTheorems, WellFoundedInduction, TLAPS

\* Where the estimator's goroutine is, with its local variables. What it is about
\* to poll is being measured.
RoundTyped ==
    \/ round.at \in {"idle", "ticked", "recompute"}
    \/ /\ round.at = "polling"
       /\ round = [at |-> "polling", replaced |-> round.replaced,
                   removing |-> round.removing, due |-> round.due]
       /\ round.due \subseteq {k \in Keys : pending[k] # None}
       /\ round.removing \in round.due \cup {None}

\* A measurement of the current version is as old as that version.
Dated ==
    /\ \A k \in Keys : pending[k] # None /\ pending[k].current => pending[k].age = born[k]
    /\ applied # None => applied \in Keys /\ born[applied] = 0

Observed ==
    /\ pending \in [Keys -> Measurements \cup {None}]
    /\ born \in [Keys -> 0 .. MaxPollDelay]
    /\ RoundTyped
    /\ Dated

\* The observations, the window and the controller.
Decided ==
    /\ samples \in Seq(0 .. MaxPollDelay)
    /\ window \in MinWindow .. MaxWindow
    /\ ctrl = [current |-> ctrl.current, changed |-> ctrl.changed,
               clamped |-> ctrl.clamped, adaptive |-> ctrl.adaptive]
    /\ ctrl.current = window \/ (ctrl.current = 0 /\ window = MinWindow)

Sampled == IsFiniteSet(probes) /\ Cardinality(probes) <= ProbeCount

LagInv == Observed /\ Decided /\ Sampled

-----------------------------------------------------------------------------
(* The percentile is one of the observations.                              *)

LEMMA Sizes ==
    /\ ProbeCount \in Nat \ {0} /\ MaxPollDelay \in Nat \ {0} /\ WindowSize \in Nat \ {0}
    /\ MinWindow \in Nat \ {0} /\ MaxWindow \in Nat /\ MinWindow <= MaxWindow
    /\ SafetyFactor \in Nat \ {0} /\ MinObservations \in Nat \ {0}
BY LagAssumption

LEMMA LeastOfNat ==
    ASSUME NEW T, T \subseteq Nat, T # {}
    PROVE  \E x \in T : \A y \in T : x <= y
<1>1. PICK x \in T : \A y \in T : ~(<<y, x>> \in OpToRel(<, Nat))
  BY NatLessThanWellFounded, WFMin
<1>2. \A y \in T : ~(y < x)
  BY <1>1, Zenon DEF OpToRel
<1> QED
  BY <1>2

LEMMA GreatestOfNat ==
    ASSUME NEW T, NEW top \in Nat, T \subseteq 0 .. top, T # {}
    PROVE  \E x \in T : \A y \in T : y <= x
<1> DEFINE below == {top - x : x \in T}
<1>1. below \subseteq Nat /\ below # {} /\ \A y \in T : y \in 0 .. top /\ top - y \in below
  <2>1. \A y \in T : y \in 0 .. top /\ top - y \in Nat /\ top - y \in below
    OBVIOUS
  <2> QED
    BY <2>1, Zenon
<1>2. PICK b \in below : \A y \in below : b <= y
  BY <1>1, LeastOfNat, Zenon
<1>3. PICK x \in T : b = top - x
  OBVIOUS
<1>4. \A y \in T : top - x <= top - y
  BY <1>1, <1>2, <1>3, Zenon
<1> QED
  BY <1>1, <1>4

LEMMA Elements ==
    ASSUME NEW S, NEW s \in Seq(S)
    PROVE  /\ Len(s) \in Nat /\ DOMAIN s = 1 .. Len(s)
           /\ \A i \in 1 .. Len(s) : s[i] \in S
OBVIOUS

LEMMA Appended ==
    ASSUME NEW S, NEW s \in Seq(S), NEW d \in S
    PROVE  Append(s, d) \in Seq(S) /\ Append(s, d)[Len(Append(s, d))] = d
OBVIOUS

LEMMA PercentileTyped ==
    ASSUME samples \in Seq(0 .. MaxPollDelay), Len(samples) >= 1
    PROVE  P99 \in 0 .. MaxPollDelay
<1> DEFINE rank == (99 * Len(samples) + 99) \div 100
           atMost(d) == Cardinality({i \in DOMAIN samples : samples[i] <= d})
           enough == {d \in Range(samples) : atMost(d) >= rank}
<1>1. /\ Len(samples) \in Nat \ {0} /\ DOMAIN samples = 1 .. Len(samples)
      /\ Range(samples) \subseteq 0 .. MaxPollDelay /\ Range(samples) # {}
  <2>0. /\ Len(samples) \in Nat /\ DOMAIN samples = 1 .. Len(samples)
        /\ \A i \in 1 .. Len(samples) : samples[i] \in 0 .. MaxPollDelay
    BY Elements, Zenon
  <2>1. /\ Len(samples) \in Nat \ {0} /\ DOMAIN samples = 1 .. Len(samples)
        /\ \A i \in 1 .. Len(samples) : samples[i] \in 0 .. MaxPollDelay
    BY <2>0
  <2>2. samples[1] \in Range(samples)
    BY <2>1 DEF Range
  <2> QED
    BY <2>1, <2>2 DEF Range
<1>2. PICK top \in Range(samples) : \A d \in Range(samples) : d <= top
  BY <1>1, Sizes, GreatestOfNat, Zenon
<1>3. {i \in DOMAIN samples : samples[i] <= top} = 1 .. Len(samples)
  BY <1>1, <1>2 DEF Range
<1>4. atMost(top) = Len(samples)
  <2>1. Cardinality(1 .. Len(samples)) = Len(samples)
    BY <1>1, FS_Interval
  <2> QED
    BY <1>3, <2>1, Zenon
<1>5. rank \in Int /\ rank <= Len(samples)
  BY <1>1
<1>6. enough \subseteq Nat /\ enough # {}
  <2>1. atMost(top) >= rank
    <3> HIDE DEF atMost, rank
    <3> QED
      BY <1>1, <1>4, <1>5
  <2>2. top \in enough
    <3> HIDE DEF atMost, rank
    <3> QED
      BY <1>2, <2>1
  <2>3. enough \subseteq Range(samples) /\ 0 .. MaxPollDelay \subseteq Nat
    BY Sizes
  <2> HIDE DEF enough
  <2> QED
    BY <1>1, <2>2, <2>3
<1>7. \E x \in enough : \A y \in enough : x <= y
  BY <1>6, LeastOfNat, Zenon
<1>8. Min(enough) \in enough
  BY <1>7, Zenon DEF Min
<1> QED
  BY <1>1, <1>8 DEF P99

-----------------------------------------------------------------------------
(* The window.                                                             *)

LEMMA ClampedTyped == ASSUME NEW want \in Int PROVE Clamped(want) \in MinWindow .. MaxWindow
BY Sizes DEF Clamped, Least

\* The newest observation is the last one.
LEMMA PushedTyped ==
    ASSUME samples \in Seq(0 .. MaxPollDelay), NEW d \in 0 .. MaxPollDelay
    PROVE  Pushed(d) \in Seq(0 .. MaxPollDelay) /\ Pushed(d)[Len(Pushed(d))] = d
<1>1. CASE Len(samples) < WindowSize
  BY <1>1, Appended DEF Pushed
<1>2. CASE ~(Len(samples) < WindowSize)
  <2>1. samples # <<>>
    BY <1>2, Sizes
  <2>2. Tail(samples) \in Seq(0 .. MaxPollDelay)
    BY <2>1
  <2> QED
    BY <1>2, <2>2, Appended DEF Pushed
<1> QED
  BY <1>1, <1>2

LEMMA DecidedStep ==
    ASSUME Decided, Observed, [LagNext]_lagVars
    PROVE  Decided'
<1>1. ASSUME NEW d \in 0 .. MaxPollDelay PROVE Pushed(d) \in Seq(0 .. MaxPollDelay)
  BY PushedTyped DEF Decided
<1>2. ASSUME NEW k \in Keys, Poll(k) PROVE Decided'
  <2>1. samples' \in Seq(0 .. MaxPollDelay)
    <3>1. pending[k] \in Measurements
      BY <1>2 DEF Poll, Observed, RoundTyped
    <3> QED
      BY <1>1, <1>2, <3>1, Sizes DEF Poll, TimeoutsRecorded, Decided, Measurements
  <2> QED
    BY <1>2, <2>1 DEF Poll, Decided
<1>3. CASE Recompute
  <2>1. CASE Len(samples) < MinObservations
    <3>1. ctrl' = [current |-> IF ctrl.current = 0 THEN MinWindow ELSE ctrl.current,
                   changed |-> ctrl.changed, clamped |-> ctrl.clamped, adaptive |-> FALSE]
      BY <1>3, <2>1, Zenon DEF Recompute, Decided
    <3> QED
      BY <1>3, <2>1, <3>1, Sizes DEF Recompute, Decided
  <2>2. CASE ~(Len(samples) < MinObservations)
    <3> DEFINE want == Clamped(P99 * SafetyFactor)
               over == P99 * SafetyFactor > MaxWindow
    <3>1. P99 \in 0 .. MaxPollDelay
      BY <2>2, Elements, Sizes, PercentileTyped DEF Decided
    <3>2. want \in MinWindow .. MaxWindow
      BY <3>1, Sizes, ClampedTyped
    <3>3. \/ /\ ctrl' = [current |-> ctrl.current, changed |-> ctrl.changed, clamped |-> over, adaptive |-> TRUE]
             /\ window' = window
          \/ /\ ctrl' = [current |-> want, changed |-> 0, clamped |-> over, adaptive |-> TRUE]
             /\ window' = want
      BY <1>3, <2>2, ZenonT(60) DEF Recompute, Decided
    <3>4. samples' = samples
      BY <1>3 DEF Recompute
    <3> HIDE DEF want, over
    <3> QED
      BY <3>2, <3>3, <3>4 DEF Decided
  <2> QED
    BY <2>1, <2>2
<1>4. CASE Elapse
  <2>1. ctrl' = [current |-> ctrl.current, changed |-> ctrl'.changed,
                 clamped |-> ctrl.clamped, adaptive |-> ctrl.adaptive]
    BY <1>4, Zenon DEF Elapse, Decided
  <2> QED
    BY <1>4, <2>1, Zenon DEF Elapse, Decided
<1>5. ASSUME NEW k \in Keys, StoreFollows(k) \/ ApplyEvent(k) \/ OfferAndObserve(k) PROVE Decided'
  BY <1>5 DEF StoreFollows, ApplyEvent, OfferAndObserve, Decided
<1>6. CASE StoreWedges \/ TickStarts \/ RemoveByKey \/ Rotate \/ UNCHANGED lagVars
  BY <1>6 DEF StoreWedges, TickStarts, RemoveByKey, Rotate, lagVars, Decided
<1> QED
  BY <1>2, <1>3, <1>4, <1>5, <1>6 DEF LagNext, Estimates

LEMMA SampledStep ==
    ASSUME Sampled, [LagNext]_lagVars
    PROVE  Sampled'
<1>1. ASSUME NEW k \in Keys, OfferAndObserve(k) PROVE Sampled'
  <2>1. probes' \in Offered(k)
    BY <1>1 DEF OfferAndObserve
  <2>2. CASE k \in probes
    BY <2>1, <2>2 DEF Offered, Sampled
  <2>3. CASE k \notin probes /\ Cardinality(probes) < ProbeCount
    <3>1. probes' = probes \cup {k}
      BY <2>1, <2>3 DEF Offered
    <3>2. IsFiniteSet(probes') /\ Cardinality(probes') = Cardinality(probes) + 1
      BY <2>3, <3>1, FS_AddElement DEF Sampled
    <3>3. Cardinality(probes) \in Nat
      BY FS_CardinalityType DEF Sampled
    <3> QED
      BY <2>3, <3>2, <3>3, Sizes DEF Sampled
  <2>4. CASE k \notin probes /\ ~(Cardinality(probes) < ProbeCount)
    <3>1. probes' = probes \/ \E j \in probes : probes' = (probes \ {j}) \cup {k}
      BY <2>1, <2>4 DEF Offered
    <3>2. ASSUME NEW j \in probes, probes' = (probes \ {j}) \cup {k} PROVE Sampled'
      <4>1. IsFiniteSet(probes \ {j}) /\ Cardinality(probes \ {j}) = Cardinality(probes) - 1
        BY FS_RemoveElement DEF Sampled
      <4>2. IsFiniteSet(probes') /\ Cardinality(probes') = Cardinality(probes \ {j}) + 1
        BY <2>4, <3>2, <4>1, FS_AddElement
      <4> QED
        BY <4>1, <4>2, FS_CardinalityType, Sizes DEF Sampled
    <3> QED
      BY <3>1, <3>2 DEF Sampled
  <2> QED
    BY <2>2, <2>3, <2>4
<1>2. CASE Rotate
  BY <1>2, FS_EmptySet, Sizes DEF Rotate, Sampled
<1>3. ASSUME NEW k \in Keys, StoreFollows(k) \/ ApplyEvent(k) \/ Poll(k) PROVE Sampled'
  BY <1>3, ZenonT(60) DEF StoreFollows, ApplyEvent, Poll, Sampled
<1>4. CASE StoreWedges \/ TickStarts \/ RemoveByKey \/ Recompute \/ Elapse \/ UNCHANGED lagVars
  BY <1>4, Zenon DEF StoreWedges, TickStarts, RemoveByKey, Recompute, Elapse, lagVars, Sampled
<1> QED
  BY <1>1, <1>2, <1>3, <1>4 DEF LagNext, Estimates

-----------------------------------------------------------------------------
(* The measurements.                                                       *)

LEMMA ObservedStep ==
    ASSUME Observed, [LagNext]_lagVars
    PROVE  Observed'
<1>0. /\ pending \in [Keys -> Measurements \cup {None}] /\ born \in [Keys -> 0 .. MaxPollDelay]
      /\ RoundTyped /\ Dated /\ None \notin Keys /\ None \notin Measurements
      /\ MaxPollDelay \in Nat \ {0}
  BY NoneAssumption, Sizes DEF Observed
<1>1. ASSUME NEW k \in Keys, StoreFollows(k) PROVE Observed'
  BY <1>0, <1>1 DEF StoreFollows, Observed, RoundTyped, Dated
<1>2. CASE StoreWedges \/ Recompute \/ UNCHANGED lagVars
  BY <1>0, <1>2 DEF StoreWedges, Recompute, lagVars, Observed, RoundTyped, Dated
<1>3. ASSUME NEW k \in Keys, ApplyEvent(k) PROVE Observed'
  <2>1. /\ \A j \in Keys \ {k} : pending'[j] = pending[j] /\ born'[j] = born[j]
        /\ born'[k] = 0 /\ born' \in [Keys -> 0 .. MaxPollDelay]
        /\ pending[k] = None => pending'[k] = None
        /\ pending[k] # None => pending'[k] = [pending[k] EXCEPT !.current = FALSE]
        /\ round' = round /\ applied' = k
    BY <1>0, <1>3 DEF ApplyEvent
  <2>2. ASSUME pending[k] # None
        PROVE  pending'[k] \in Measurements /\ ~pending'[k].current
    <3>1. pending'[k] = [current |-> FALSE, age |-> pending[k].age, wait |-> pending[k].wait,
                         interval |-> pending[k].interval]
      BY <1>0, <2>1, <2>2, Zenon DEF Measurements
    <3>2. pending'[k] \in Measurements
      BY <1>0, <2>2, <3>1 DEF Measurements
    <3>3. pending'[k].current = FALSE
      BY <3>1
    <3>4. ~pending'[k].current
      BY <3>3
    <3> QED
      BY <3>2, <3>4, Zenon
  <2>3. pending' \in [Keys -> Measurements \cup {None}]
    <3>1. \A j \in Keys : pending'[j] \in Measurements \cup {None}
      BY <1>0, <2>1, <2>2
    <3>2. PICK v : pending' = [pending EXCEPT ![k] = v]
      BY <1>3, Zenon DEF ApplyEvent
    <3> QED
      BY <1>0, <3>1, <3>2
  <2>4. Dated'
    BY <1>0, <2>1, <2>2 DEF Dated
  <2>5. RoundTyped'
    BY <1>0, <2>1, <2>2 DEF RoundTyped
  <2> QED
    BY <2>1, <2>3, <2>4, <2>5 DEF Observed
<1>4. ASSUME NEW k \in Keys, OfferAndObserve(k) PROVE Observed'
  <2>1. Measurement \in Measurements /\ Measurement.age = 0
    BY <1>0 DEF Measurement, Measurements
  <2>2. /\ born' = born /\ applied = k /\ applied' = None
        /\ pending' = pending \/ pending' = [pending EXCEPT ![k] = Measurement]
    BY <1>4 DEF OfferAndObserve
  <2>3. /\ round.at # "polling" => round' = round
        /\ round.at = "polling" =>
              round' = [at |-> "polling", replaced |-> round'.replaced,
                        removing |-> round.removing, due |-> round.due]
    BY <1>0, <1>4 DEF OfferAndObserve, RoundTyped
  <2>4. pending' \in [Keys -> Measurements \cup {None}] /\ Dated'
    BY <1>0, <2>1, <2>2 DEF Dated
  <2>5. RoundTyped'
    BY <1>0, <2>1, <2>2, <2>3 DEF RoundTyped
  <2> QED
    BY <1>0, <2>2, <2>4, <2>5 DEF Observed
<1>5. CASE TickStarts
  BY <1>0, <1>5, Zenon DEF TickStarts, Observed, RoundTyped, Dated
<1>6. ASSUME NEW k \in Keys, Poll(k) PROVE Observed'
  <2>1. /\ born' = born /\ applied' = applied /\ pending[k] \in Measurements
        /\ round.at = "polling" /\ k \in round.due
    BY <1>0, <1>6 DEF Poll, RoundTyped
  <2>2. CASE pending' = pending /\ round' = [round EXCEPT !.removing = k]
    <3>1. round' = [at |-> "polling", replaced |-> round.replaced, removing |-> k, due |-> round.due]
      BY <1>0, <2>1, <2>2, Zenon DEF RoundTyped
    <3> QED
      BY <1>0, <2>1, <2>2, <3>1 DEF Observed, RoundTyped, Dated
  <2>3. CASE /\ \E n \in Nat : pending' = [pending EXCEPT ![k].interval = n, ![k].wait = n]
             /\ round' = [round EXCEPT !.due = round.due \ {k}]
    <3>1. round' = [at |-> "polling", replaced |-> round.replaced,
                    removing |-> round.removing, due |-> round.due \ {k}]
      BY <1>0, <2>1, <2>3, Zenon DEF RoundTyped
    <3>2. PICK n \in Nat : pending' = [pending EXCEPT ![k].interval = n, ![k].wait = n]
      BY <2>3, Zenon
    <3>3. pending'[k] = [current |-> pending[k].current, age |-> pending[k].age, wait |-> n, interval |-> n]
      BY <1>0, <2>1, <3>2, Zenon DEF Measurements
    <3>4. /\ pending'[k] \in Measurements /\ pending'[k].age = pending[k].age
          /\ pending'[k].current = pending[k].current
      BY <2>1, <3>3 DEF Measurements
    <3>5. pending' \in [Keys -> Measurements \cup {None}] /\ Dated'
      BY <1>0, <2>1, <3>2, <3>4, Zenon DEF Dated
    <3>6. RoundTyped'
      BY <1>0, <1>6, <2>1, <3>1, <3>2, <3>4 DEF RoundTyped, Poll
    <3> QED
      BY <1>0, <2>1, <3>5, <3>6 DEF Observed
  <2>4. Least(2 * pending[k].interval, MaxPollInterval) \in Nat
    BY <2>1, LagAssumption DEF Least, Measurements
  <2> QED
    BY <1>6, <2>2, <2>3, <2>4 DEF Poll
<1>7. CASE RemoveByKey
  <2>1. /\ round.at = "polling" /\ round.removing \in round.due
        /\ round' = [at |-> "polling", replaced |-> round.replaced \ {round.removing}, removing |-> None,
                     due |-> round.due \ {round.removing}]
        /\ pending' = [pending EXCEPT ![round.removing] = None]
    BY <1>0, <1>7, Zenon DEF RemoveByKey, RoundTyped
  <2>2. /\ \A k \in Keys : pending'[k] = IF k = round.removing THEN None ELSE pending[k]
        /\ pending' \in [Keys -> Measurements \cup {None}] /\ born' = born /\ applied' = applied
    BY <1>0, <1>7, <2>1, Zenon DEF RemoveByKey
  <2>3. RoundTyped'
    BY <1>0, <2>1, <2>2 DEF RoundTyped
  <2>4. Dated'
    BY <1>0, <2>2 DEF Dated
  <2> QED
    BY <1>0, <2>2, <2>3, <2>4 DEF Observed
<1>8. CASE Rotate
  BY <1>0, <1>8, Zenon DEF Rotate, Observed, RoundTyped, Dated
<1>9. CASE Elapse
  <2>1. ASSUME NEW k \in Keys
        PROVE  /\ pending[k] = None => pending'[k] = None
               /\ pending[k] # None =>
                     pending'[k] = [current |-> pending[k].current,
                                    age |-> Least(pending[k].age + 1, MaxPollDelay),
                                    wait |-> IF pending[k].wait = 0 THEN 0 ELSE pending[k].wait - 1,
                                    interval |-> pending[k].interval]
               /\ born'[k] = IF pending[k] # None /\ pending[k].current
                             THEN Least(born[k] + 1, MaxPollDelay) ELSE 0
    <3>1. /\ pending'[k] = IF pending[k] = None THEN None
                           ELSE [pending[k] EXCEPT !.age = Least(@ + 1, MaxPollDelay),
                                                   !.wait = IF @ = 0 THEN 0 ELSE @ - 1]
          /\ born'[k] = IF pending[k] # None /\ pending[k].current
                        THEN Least(born[k] + 1, MaxPollDelay) ELSE 0
      BY <1>9, Zenon DEF Elapse
    <3>2. pending[k] # None => pending[k] \in Measurements
      BY <1>0
    <3> QED
      BY <3>1, <3>2, Zenon DEF Measurements
  <2>2. ASSUME NEW k \in Keys
        PROVE  /\ pending'[k] \in Measurements \cup {None} /\ born'[k] \in 0 .. MaxPollDelay
               /\ pending'[k] # None /\ pending'[k].current => pending'[k].age = born'[k]
    <3>1. CASE pending[k] = None
      <4>1. pending'[k] = None /\ born'[k] = 0
        BY <2>1, <3>1, Zenon
      <4> QED
        BY <1>0, <4>1
    <3>2. CASE pending[k] # None
      <4>1. /\ pending[k] \in Measurements /\ pending[k].age \in 0 .. MaxPollDelay
            /\ born[k] \in 0 .. MaxPollDelay
            /\ pending[k].wait \in Nat /\ pending[k].interval \in Nat /\ pending[k].current \in BOOLEAN
        BY <1>0, <3>2 DEF Measurements
      <4>2. /\ pending'[k].current = pending[k].current
            /\ pending'[k].age = Least(pending[k].age + 1, MaxPollDelay)
        <5>1. pending'[k] = [current |-> pending[k].current,
                             age |-> Least(pending[k].age + 1, MaxPollDelay),
                             wait |-> IF pending[k].wait = 0 THEN 0 ELSE pending[k].wait - 1,
                             interval |-> pending[k].interval]
          BY <2>1, <3>2, Zenon
        <5> QED
          BY <5>1
      <4>7. \/ pending[k].current /\ born'[k] = Least(born[k] + 1, MaxPollDelay)
            \/ ~pending[k].current /\ born'[k] = 0
        BY <2>1, <3>2, Zenon
      <4>3. pending[k].current => pending[k].age = born[k]
        BY <1>0, <3>2 DEF Dated
      <4>4. \A n \in 0 .. MaxPollDelay : Least(n + 1, MaxPollDelay) \in 0 .. MaxPollDelay
        BY <1>0 DEF Least
      <4>5. pending'[k] \in Measurements
        <5> DEFINE wait == IF pending[k].wait = 0 THEN 0 ELSE pending[k].wait - 1
        <5>1. wait \in Nat
          BY <4>1
        <5>2. pending'[k] = [current |-> pending[k].current, age |-> Least(pending[k].age + 1, MaxPollDelay),
                             wait |-> wait, interval |-> pending[k].interval]
          BY <2>1, <3>2, Zenon
        <5> HIDE DEF wait
        <5>3. PICK a \in 0 .. MaxPollDelay : a = Least(pending[k].age + 1, MaxPollDelay)
          BY <4>1, <4>4, Zenon
        <5>4. PICK c, n : c = pending[k].current /\ n = pending[k].interval
          OBVIOUS
        <5>5. c \in BOOLEAN /\ n \in Nat
          BY <4>1, <5>4, Zenon
        <5>6. pending'[k] = [current |-> c, age |-> a, wait |-> wait, interval |-> n]
          BY <5>2, <5>3, <5>4, Zenon
        <5> QED
          BY <5>1, <5>3, <5>5, <5>6 DEF Measurements
      <4>6. born'[k] \in 0 .. MaxPollDelay
        <5>1. 0 \in 0 .. MaxPollDelay
          BY <1>0
        <5> QED
          BY <4>1, <4>4, <4>7, <5>1, ZenonT(60)
      <4> QED
        BY <4>2, <4>3, <4>5, <4>6, <4>7, Zenon
    <3> QED
      BY <3>1, <3>2
  <2>3. /\ pending' \in [Keys -> Measurements \cup {None}] /\ born' \in [Keys -> 0 .. MaxPollDelay]
    BY <1>9, <2>2, Zenon DEF Elapse
  <2> QED
    BY <1>9, <2>2, <2>3, Zenon DEF Elapse, Observed, RoundTyped, Dated
<1> QED
  BY <1>1, <1>2, <1>3, <1>4, <1>5, <1>6, <1>7, <1>8, <1>9, Zenon DEF LagNext, Estimates

-----------------------------------------------------------------------------
LEMMA LagStarts == LagInit => LagInv
<1> SUFFICES ASSUME LagInit PROVE LagInv
  OBVIOUS
<1>1. Observed
  BY Sizes DEF LagInit, Observed, RoundTyped, Dated
<1>2. Decided
  BY Sizes DEF LagInit, Decided
<1>3. Sampled
  BY FS_EmptySet, Sizes DEF LagInit, Sampled
<1> QED
  BY <1>1, <1>2, <1>3 DEF LagInv

LEMMA LagKeeps == LagInv /\ [LagNext]_lagVars => LagInv'
BY DecidedStep, SampledStep, ObservedStep DEF LagInv

\* The window the sweeper reads and the controller's copy stay in the configured
\* range and agree, and the reservoir within its size, for any keys, sizes, bounds
\* and safety factor.
THEOREM WindowStaysInBounds == LagSpec => []WindowInBounds
<1>1. LagInv => WindowInBounds
  BY DEF LagInv, Decided, Sampled, WindowInBounds
<1> QED
  BY <1>1, LagStarts, LagKeeps, PTL DEF LagSpec

\* Every observation is the age of the version the oracle holds, for any keys and
\* sizes: no interleaving of an event with the polls records a lag for a version
\* it was not measured on.
THEOREM SamplesAreHonest == LagSpec => SamplesHonest
<1>1. LagInv /\ [LagNext]_lagVars =>
         [samples' # samples =>
             /\ round'.removing # None
             /\ samples'[Len(samples')] = born[round'.removing]]_lagVars
  <2> SUFFICES ASSUME LagInv, LagNext, samples' # samples
               PROVE  /\ round'.removing # None
                      /\ samples'[Len(samples')] = born[round'.removing]
    BY Zenon
  <2>1. PICK k \in Keys : Poll(k)
    BY Zenon DEF LagNext, Estimates, StoreFollows, ApplyEvent, OfferAndObserve, StoreWedges, TickStarts,
           RemoveByKey, Rotate, Recompute, Elapse
  <2>2. /\ round.at = "polling" /\ k \in round.due /\ RoundTyped /\ Dated
        /\ samples \in Seq(0 .. MaxPollDelay) /\ pending[k] \in Measurements /\ pending[k] # None
    BY <2>1, NoneAssumption DEF Poll, LagInv, Observed, Decided, RoundTyped
  <2>3. /\ round' = [round EXCEPT !.removing = k] /\ pending[k].current
        /\ samples' = Pushed(pending[k].age)
    BY <2>1 DEF Poll, TimeoutsRecorded
  <2>4. round'.removing = k
    BY <2>2, <2>3 DEF RoundTyped
  <2>5. samples'[Len(samples')] = pending[k].age /\ pending[k].age = born[k]
    BY <2>2, <2>3, PushedTyped DEF Dated, Measurements
  <2> QED
    BY <2>4, <2>5, NoneAssumption
<1> QED
  BY <1>1, LagStarts, LagKeeps, PTL DEF LagSpec, SamplesHonest

-----------------------------------------------------------------------------
(***************************************************************************)
(* The phase of a check. Something is held against it or nothing is; what  *)
(* a goroutine is about to set still fits, and a Watching that no longer   *)
(* does is about to be replaced.                                           *)
(***************************************************************************)
CheckTyped ==
    /\ run \in {"new", "running", "stopped"} /\ live \subseteq Loops
    /\ failed \in BOOLEAN /\ raced \in BOOLEAN
    /\ paused \in BOOLEAN /\ awaiting \in BOOLEAN /\ sourceFailed \in BOOLEAN
    /\ saturated \in BOOLEAN /\ connected \in BOOLEAN
    /\ phase \in Phases
    /\ toSet \in [Setters -> (Phases \ {"Pending", "Failed"}) \cup {NoPhase}]

\* A goroutine that is about to set the phase has not returned.
Attended == \A g \in Setters \ {"caller"} : toSet[g] # NoPhase => g \in live

\* The phase before, during and after Run.
OfRun ==
    /\ run # "running" => live = {}
    /\ run = "running" => phase \notin {"Pending", "Failed"}
    /\ run = "new" => phase = "Pending" /\ toSet["caller"] = NoPhase
    /\ run = "stopped" /\ ~raced =>
          toSet["caller"] = NoPhase /\ phase = IF failed THEN "Failed" ELSE "Pending"

Fine == ~paused /\ ~awaiting /\ ~sourceFailed /\ ~saturated

Timely == \A g \in Setters : ~raced /\ toSet[g] = "Watching" => Fine /\ connected

Overruled == \E g \in Setters : toSet[g] \notin {NoPhase, "Watching"}

Warned == ~raced /\ phase = "Watching" => Fine \/ Overruled

CheckInv == CheckTyped /\ Attended /\ OfRun /\ Timely /\ Warned

Races ==
    raced' = (raced \/ \E g \in Setters :
                 toSet[g] # NoPhase /\ toSet'[g] = toSet[g] /\ <<Steady, phase>>' # <<Steady, phase>>)

\* A phase worked out and not overtaken still says what steadyPhase says.
LEMMA TimelyKept ==
    ASSUME CheckInv, CheckTyped', Races,
           \A g \in Setters : \/ toSet'[g] = toSet[g]
                              \/ toSet'[g] # "Watching"
                              \/ (Fine /\ connected)'
    PROVE  Timely'
<1> SUFFICES ASSUME NEW g \in Setters, ~raced', toSet'[g] = "Watching", toSet'[g] = toSet[g]
             PROVE  (Fine /\ connected)'
  BY DEF Timely
<1>1. "Watching" # NoPhase
  BY NoPhaseAssumption DEF Phases
<1>2. ~raced /\ Steady' = Steady
  BY <1>1, Zenon DEF Races
<1>3. Fine /\ connected
  BY <1>2 DEF CheckInv, Timely
<1>4. Steady = "Watching"
  BY <1>3 DEF Steady, Fine
<1>5. Steady' = "Watching"
  BY <1>2, <1>4
<1> QED
  BY <1>5, Zenon DEF Steady, Fine, CheckTyped

\* A Watching that stays is still right, or still about to be replaced.
LEMMA WarnedKept ==
    ASSUME CheckInv, CheckTyped', Races,
           \/ phase' # "Watching"
           \/ Fine'
           \/ Overruled'
           \/ /\ phase = "Watching" /\ (Fine => Fine')
              /\ \A g \in Setters : toSet[g] # NoPhase => toSet'[g] = toSet[g]
    PROVE  Warned'
BY DEF CheckInv, CheckTyped, Warned, Overruled, Races

\* A step that leaves the phase, what is about to be set and what they say alone,
\* though goroutines may return and one of them may fail.
LEMMA QuietKeeps ==
    ASSUME CheckInv, Races, UNCHANGED <<run, phase, toSet, paused, awaiting, saturated, sourceFailed>>,
           connected' \in BOOLEAN, live' \subseteq live,
           \A g \in (live \ live') \cap Setters : toSet[g] = NoPhase,
           failed' = failed \/ (failed' = TRUE /\ live # {})
    PROVE  CheckInv'
<1>1. CheckTyped'
  BY Zenon DEF CheckInv, CheckTyped, Races
<1>2. Attended'
  BY Zenon DEF CheckInv, Attended
<1>3. OfRun'
  <2>1. ~raced' => ~raced
    BY Zenon DEF Races
  <2>2. run = "stopped" => failed' = failed
    BY DEF CheckInv, OfRun
  <2>3. live = {} => live' = {}
    OBVIOUS
  <2>4. UNCHANGED <<run, phase, toSet>>
    OBVIOUS
  <2> QED
    BY <2>1, <2>2, <2>3, <2>4 DEF CheckInv, OfRun
<1>4. Timely'
  BY <1>1, TimelyKept, Zenon
<1>5. Warned'
  <2>1. Fine' = Fine
    BY DEF Fine
  <2>2. phase' # "Watching" \/ (phase = "Watching" /\ (Fine => Fine') /\ \A g \in Setters : toSet[g] # NoPhase => toSet'[g] = toSet[g])
    BY <2>1
  <2> QED
    BY <1>1, <2>2, WarnedKept, Zenon
<1> QED
  BY <1>1, <1>2, <1>3, <1>4, <1>5, Zenon DEF CheckInv

\* A goroutine of the running check sets a phase at once, and not Watching.
LEMMA NowKeeps ==
    ASSUME CheckInv, Races, run = "running",
           UNCHANGED <<run, live, failed, toSet, paused, awaiting, sourceFailed, connected>>,
           saturated' \in BOOLEAN, phase' \in Phases \ {"Pending", "Failed"},
           phase' = "Watching" => phase = "Watching" /\ ~saturated'
    PROVE  CheckInv'
<1>1. CheckTyped'
  BY DEF CheckInv, CheckTyped, Races
<1>2. Attended'
  BY Zenon DEF CheckInv, Attended
<1>3. OfRun'
  <2>1. run' = "running" /\ phase' \notin {"Pending", "Failed"}
    OBVIOUS
  <2> QED
    BY <2>1 DEF OfRun
<1>4. Timely'
  BY <1>1, TimelyKept, Zenon
<1>5. Warned'
  <2>1. phase' = "Watching" => (Fine => Fine')
    BY DEF Fine
  <2> QED
    BY <1>1, <2>1, WarnedKept, Zenon
<1> QED
  BY <1>1, <1>2, <1>3, <1>4, <1>5, Zenon DEF CheckInv

\* A goroutine that is not about to set anything works out a phase; it says
\* Watching only when that is right now.
LEMMA WillKeeps ==
    ASSUME CheckInv, Races, NEW g \in Setters, toSet[g] = NoPhase,
           NEW p, p \in (Phases \ {"Pending", "Failed"}) \cup {NoPhase},
           toSet' = [toSet EXCEPT ![g] = p], UNCHANGED <<run, live, failed, phase>>,
           g # "caller" => g \in live,
           g = "caller" /\ p # NoPhase => phase \notin {"Pending", "Failed"},
           CheckTyped',
           p = "Watching" => (Fine /\ connected)',
           Fine /\ ~Fine' /\ phase = "Watching" => p # NoPhase
    PROVE  CheckInv'
<1>2. Attended'
  BY Zenon DEF CheckInv, CheckTyped, Attended
<1>3. OfRun'
  <2>1. ~raced' => ~raced
    BY Zenon DEF Races
  <2>2. g # "caller" => run = "running"
    BY DEF CheckInv, OfRun
  <2>3. run # "running" /\ ~raced => toSet'["caller"] = toSet["caller"]
    BY <2>2 DEF CheckInv, CheckTyped, OfRun
  <2> QED
    BY <2>1, <2>3 DEF CheckInv, CheckTyped, OfRun
<1>4. Timely'
  <2>1. \A h \in Setters : \/ toSet'[h] = toSet[h]
                           \/ toSet'[h] # "Watching"
                           \/ (Fine /\ connected)'
    BY DEF CheckInv, CheckTyped
  <2> QED
    BY <2>1, TimelyKept, Zenon
<1>5. Warned'
  <2>1. \A h \in Setters : toSet[h] # NoPhase => toSet'[h] = toSet[h]
    BY DEF CheckInv, CheckTyped
  <2>2. toSet'[g] = p
    BY DEF CheckInv, CheckTyped
  <2>3. Fine /\ ~Fine' /\ phase = "Watching" => Overruled'
    BY <2>2, Zenon DEF Overruled, Fine
  <2>4. \/ phase' # "Watching" \/ Fine' \/ Overruled'
        \/ /\ phase = "Watching" /\ (Fine => Fine')
           /\ \A h \in Setters : toSet[h] # NoPhase => toSet'[h] = toSet[h]
    BY <2>1, <2>3, Zenon
  <2> QED
    BY <2>4, WarnedKept, Zenon
<1> QED
  BY <1>2, <1>3, <1>4, <1>5, Zenon DEF CheckInv

\* A phase is set that was worked out before.
LEMMA SetPhaseKeeps ==
    ASSUME CheckInv, Races, NEW g \in Setters, SetPhase(g)
    PROVE  CheckInv'
<1> USE DEF SetPhase, control, pause, flags, environment
<1>1. CheckTyped'
  BY DEF CheckInv, CheckTyped, Races
<1>2. toSet' = [toSet EXCEPT ![g] = NoPhase] /\ phase' = toSet[g] /\ toSet[g] # NoPhase
  OBVIOUS
<1>3. Attended'
  BY <1>2, Zenon DEF CheckInv, CheckTyped, Attended
<1>4. OfRun'
  <2>1. g # "caller" => run = "running"
    BY DEF CheckInv, Attended, OfRun
  <2>2. ~raced' => ~raced
    BY Zenon DEF Races
  <2>3. run # "running" => g # "caller" \/ raced
    BY DEF CheckInv, CheckTyped, OfRun
  <2>4. run = "new" => g # "caller"
    BY DEF CheckInv, CheckTyped, OfRun
  <2>5. phase' \notin {"Pending", "Failed"}
    BY <1>2 DEF CheckInv, CheckTyped
  <2> QED
    BY <2>1, <2>2, <2>3, <2>4, <2>5, Zenon DEF CheckInv, CheckTyped, OfRun
<1>5. Timely'
  <2>1. \A h \in Setters : toSet'[h] = toSet[h] \/ toSet'[h] # "Watching"
    BY <1>2, NoPhaseAssumption DEF CheckInv, CheckTyped, Phases
  <2> QED
    BY <1>1, <2>1, TimelyKept, Zenon
<1>6. Warned'
  <2>1. phase' = "Watching" /\ ~raced => Fine'
    BY <1>2, Zenon DEF CheckInv, Timely, Fine
  <2>2. ~raced' => ~raced
    BY Zenon DEF Races
  <2> QED
    BY <2>1, <2>2, Zenon DEF Warned
<1> QED
  BY <1>1, <1>3, <1>4, <1>5, <1>6, Zenon DEF CheckInv

\* What steadyPhase answers.
LEMMA SteadyFacts ==
    ASSUME CheckTyped
    PROVE  /\ Steady \in Phases \ {"Pending", "Failed"}
           /\ Steady = "Watching" => Fine /\ connected
           /\ paused => Steady = "Paused"
BY DEF Steady, Fine, Phases, CheckTyped

\* The same of the state after a step.
LEMMA SteadyFactsNext ==
    ASSUME CheckTyped'
    PROVE  /\ Steady' \in Phases \ {"Pending", "Failed"}
           /\ Steady' = "Watching" => (Fine /\ connected)'
           /\ paused' => Steady' = "Paused"
BY DEF Steady, Fine, Phases, CheckTyped

\* Somebody pauses the check or lets it go on.
LEMMA SetPausedKeeps ==
    ASSUME CheckInv, Races, SetPaused
    PROVE  CheckInv'
<1> DEFINE p == IF phase \in {"Watching", "Paused", "Degraded"} THEN Steady' ELSE NoPhase
<1>1. /\ toSet["caller"] = NoPhase /\ "caller" \in Setters
      /\ toSet' = [toSet EXCEPT !["caller"] = p]
      /\ paused' = ~paused
      /\ UNCHANGED <<run, live, failed, phase, awaiting, sourceFailed, saturated, connected>>
  BY DEF SetPaused, WillSet, control, flags, environment, Setters
<1>2. Steady' \in Phases \ {"Pending", "Failed"}
  BY <1>1 DEF Steady, Phases, CheckInv, CheckTyped
<1>3. CheckTyped'
  BY <1>1, <1>2 DEF CheckInv, CheckTyped, Races
<1>4. /\ p \in (Phases \ {"Pending", "Failed"}) \cup {NoPhase}
      /\ p # NoPhase => phase \notin {"Pending", "Failed"}
  BY <1>2
<1>5. p = "Watching" => (Fine /\ connected)'
  BY <1>3, SteadyFactsNext, NoPhaseAssumption DEF Phases
<1>6. phase = "Watching" => p # NoPhase
  BY <1>2, NoPhaseAssumption
<1> HIDE DEF p
<1> QED
  BY <1>1, <1>3, <1>4, <1>5, <1>6, WillKeeps, Zenon

\* Run starts the goroutines.
LEMMA RunKeeps ==
    ASSUME CheckInv, Races, Run
    PROVE  CheckInv'
<1> USE DEF Run, SetsNow, pause, flags, environment
<1>1. CheckTyped'
  BY DEF CheckInv, CheckTyped, Races, Phases
<1>2. Attended' /\ OfRun'
  BY DEF CheckInv, Attended, OfRun
<1>3. Timely'
  BY <1>1, TimelyKept, Zenon
<1>4. Warned'
  BY DEF Warned
<1> QED
  BY <1>1, <1>2, <1>3, <1>4, Zenon DEF CheckInv

\* Run returns, and its result is the phase.
LEMMA ReturnKeeps ==
    ASSUME CheckInv, Races, Return
    PROVE  CheckInv'
<1> USE DEF Return, SetsNow, pause, flags, environment
<1>1. CheckTyped'
  BY DEF CheckInv, CheckTyped, Races, Phases
<1>2. Attended'
  BY DEF CheckInv, Attended
<1>3. phase' # phase
  BY DEF CheckInv, OfRun
<1>4. toSet["caller"] # NoPhase => raced'
  BY <1>3, Zenon DEF Races, Setters
<1>5. OfRun'
  BY <1>4 DEF CheckInv, CheckTyped, OfRun
<1>6. Timely'
  BY <1>1, TimelyKept, Zenon
<1>7. Warned'
  BY DEF Warned
<1> QED
  BY <1>1, <1>2, <1>5, <1>6, <1>7, Zenon DEF CheckInv

\* The sweeper's goroutine, from bootstrap to sweep and back.
LEMMA SweeperKeeps ==
    ASSUME CheckInv, Races, NEW pass \in Passes,
           \/ AdoptScan \/ AdoptFails \/ (\E skipped \in BOOLEAN : AdoptEnds(skipped))
           \/ BootstrapWait \/ BootstrapStrict \/ Bootstrapped
           \/ SweepBegins(pass) \/ PassSucceeds(pass) \/ PassUnavailable(pass) \/ PassFails(pass)
    PROVE  CheckInv'
<1> USE DEF control, pause, flags, environment
<1>0. run = "running" /\ "sweeper" \in live \cap Setters /\ toSet["sweeper"] = NoPhase
      /\ "sweeper" # "caller" /\ phase \in Phases \ {"Pending", "Failed"}
  BY Zenon DEF CheckInv, CheckTyped, OfRun, AdoptScan, AdoptFails, AdoptEnds, BootstrapWait, BootstrapStrict,
     Bootstrapped, SweepBegins, PassSucceeds, PassUnavailable, PassFails, Sweeper, Running, Setters
<1>1. CASE AdoptScan \/ AdoptFails \/ PassUnavailable(pass)
  <2>1. /\ UNCHANGED <<run, live, failed, toSet, paused, awaiting, sourceFailed, saturated, connected>>
        /\ phase' \in {"Bootstrapping", "Degraded"}
    BY <1>1 DEF AdoptScan, AdoptFails, PassUnavailable, SetsNow
  <2>2. phase' \in Phases \ {"Pending", "Failed"} /\ phase' # "Watching"
    BY <2>1 DEF Phases
  <2>3. saturated' \in BOOLEAN
    BY <2>1 DEF CheckInv, CheckTyped
  <2> QED
    BY <1>0, <2>1, <2>2, <2>3, NowKeeps, Zenon
<1>2. ASSUME NEW skipped \in BOOLEAN, AdoptEnds(skipped) PROVE CheckInv'
  <2>1. /\ UNCHANGED <<run, live, failed, toSet, paused, awaiting, sourceFailed, connected>>
        /\ saturated' = skipped
        /\ phase' = IF skipped THEN "Degraded" ELSE phase
    BY <1>2 DEF AdoptEnds, SetsNow
  <2>2. phase' \in Phases \ {"Pending", "Failed"} /\ (phase' = "Watching" => phase = "Watching" /\ ~saturated')
    BY <1>0, <2>1 DEF Phases
  <2>3. saturated' \in BOOLEAN
    BY <2>1
  <2> QED
    BY <1>0, <2>1, <2>2, <2>3, NowKeeps, Zenon
<1>3. CASE BootstrapWait \/ SweepBegins(pass) \/ PassFails(pass)
  <2>1. UNCHANGED <<run, live, failed, phase, toSet, paused, awaiting, saturated, sourceFailed, connected>>
    BY <1>3 DEF BootstrapWait, SweepBegins, PassFails
  <2>2. connected' \in BOOLEAN
    BY <2>1, Zenon DEF CheckInv, CheckTyped
  <2> QED
    BY <2>1, <2>2, QuietKeeps, Zenon
<1>4. CASE BootstrapStrict
  <2>1. /\ toSet' = [toSet EXCEPT !["sweeper"] = "AwaitingSnapshot"]
        /\ awaiting' = TRUE
        /\ UNCHANGED <<run, live, failed, phase, paused, saturated, sourceFailed, connected>>
    BY <1>4 DEF BootstrapStrict, WillSet
  <2>2. "AwaitingSnapshot" \in Phases \ {"Pending", "Failed"}
    BY DEF Phases
  <2>3. CheckTyped'
    BY <2>1, <2>2, Zenon DEF CheckInv, CheckTyped, Races
  <2> QED
    BY <1>0, <2>1, <2>2, <2>3, WillKeeps, NoPhaseAssumption, Zenon
<1>5. CASE Bootstrapped \/ (PassSucceeds(pass) /\ phase = "Degraded")
  <2>1. /\ toSet' = [toSet EXCEPT !["sweeper"] = Steady]
        /\ UNCHANGED <<run, live, failed, phase, paused, awaiting, saturated, sourceFailed, connected>>
    BY <1>5, Zenon DEF Bootstrapped, PassSucceeds, WillSet
  <2>2. Steady \in Phases \ {"Pending", "Failed"} /\ (Steady = "Watching" => Fine /\ connected)
    BY SteadyFacts, Zenon DEF CheckInv
  <2>3. CheckTyped'
    BY <2>1, <2>2, Zenon DEF CheckInv, CheckTyped, Races
  <2>4. Fine' = Fine
    BY <2>1 DEF Fine
  <2>5. PICK p : p = Steady
    OBVIOUS
  <2>6. toSet' = [toSet EXCEPT !["sweeper"] = p] /\ p \in Phases \ {"Pending", "Failed"}
        /\ (p = "Watching" => (Fine /\ connected)')
    BY <2>1, <2>2, <2>4, <2>5
  <2> QED
    BY <1>0, <2>1, <2>3, <2>4, <2>6, WillKeeps, Zenon
<1>6. CASE PassSucceeds(pass) /\ phase # "Degraded"
  <2>1. UNCHANGED <<run, live, failed, phase, toSet, paused, awaiting, saturated, sourceFailed, connected>>
    BY <1>6 DEF PassSucceeds
  <2>2. connected' \in BOOLEAN
    BY <2>1 DEF CheckInv, CheckTyped
  <2> QED
    BY <2>1, <2>2, QuietKeeps, Zenon
<1> QED
  BY <1>1, <1>2, <1>3, <1>4, <1>5, <1>6

\* The source's goroutine, the applier's, and those that end.
LEMMA OthersKeep ==
    ASSUME CheckInv, Races,
           \/ Cancel \/ Close \/ (\E g \in Loops : Exit(g) \/ Panic(g))
           \/ SourceTurns \/ SourceFails \/ StoreTurns \/ SnapshotEnds
    PROVE  CheckInv'
<1> USE DEF control, pause, flags, environment
<1>1. CASE Cancel \/ Close \/ SourceTurns \/ StoreTurns
  <2>1. UNCHANGED <<run, live, failed, phase, toSet, paused, awaiting, saturated, sourceFailed>>
    BY <1>1, Zenon DEF Cancel, Close, SourceTurns, StoreTurns
  <2>2. connected' \in BOOLEAN
    BY <1>1, Zenon DEF Cancel, Close, SourceTurns, StoreTurns, CheckInv, CheckTyped
  <2> QED
    BY <2>1, <2>2, QuietKeeps, Zenon
<1>2. ASSUME NEW g \in Loops, Exit(g) \/ Panic(g) PROVE CheckInv'
  <2>1. /\ UNCHANGED <<run, phase, toSet, paused, awaiting, saturated, sourceFailed, connected>>
        /\ live' = live \ {g} /\ g \in live /\ (g \in Setters => toSet[g] = NoPhase)
        /\ failed' = failed \/ failed' = TRUE
    BY <1>2 DEF Exit, Panic
  <2>2. connected' \in BOOLEAN
    BY <2>1 DEF CheckInv, CheckTyped
  <2>3. live' \subseteq live /\ live # {} /\ \A h \in (live \ live') \cap Setters : toSet[h] = NoPhase
    BY <2>1, Zenon
  <2> QED
    BY <2>1, <2>2, <2>3, QuietKeeps, ZenonT(30)
<1>3. CASE SourceFails
  <2>0. "source" \in live \cap Setters /\ toSet["source"] = NoPhase /\ "source" # "caller"
    BY <1>3 DEF SourceFails, Running, Setters
  <2>1. /\ toSet' = [toSet EXCEPT !["source"] = "Degraded"]
        /\ sourceFailed' = TRUE /\ connected' = FALSE
        /\ UNCHANGED <<run, live, failed, phase, paused, saturated, awaiting>>
    BY <1>3 DEF SourceFails, WillSet
  <2>2. "Degraded" \in Phases \ {"Pending", "Failed"}
    BY DEF Phases
  <2>3. CheckTyped'
    BY <2>1, <2>2, Zenon DEF CheckInv, CheckTyped, Races
  <2> QED
    BY <2>0, <2>1, <2>2, <2>3, WillKeeps, NoPhaseAssumption, Zenon
<1>4. CASE SnapshotEnds
  <2>0. "ingest" \in live \cap Setters /\ toSet["ingest"] = NoPhase /\ "ingest" # "caller"
    BY <1>4 DEF SnapshotEnds, Running, Setters
  <2>1. /\ toSet' = [toSet EXCEPT !["ingest"] = Steady']
        /\ awaiting' = FALSE
        /\ UNCHANGED <<run, live, failed, phase, paused, saturated, sourceFailed, connected>>
    BY <1>4 DEF SnapshotEnds, WillSet
  <2>2. Steady' \in Phases \ {"Pending", "Failed"}
    BY <2>1, Zenon DEF Steady, Phases, CheckInv, CheckTyped
  <2>3. CheckTyped'
    BY <2>1, <2>2, Zenon DEF CheckInv, CheckTyped, Races
  <2>4. PICK p : p = Steady'
    OBVIOUS
  <2>5. toSet' = [toSet EXCEPT !["ingest"] = p] /\ p \in Phases \ {"Pending", "Failed"}
        /\ (p = "Watching" => (Fine /\ connected)')
    BY <2>1, <2>2, <2>3, <2>4, SteadyFactsNext
  <2>6. Fine => Fine'
    BY <2>1 DEF Fine
  <2> QED
    BY <2>0, <2>1, <2>3, <2>5, <2>6, WillKeeps, Zenon
<1> QED
  BY <1>1, <1>2, <1>3, <1>4

\* However bootstrap, sweeps, snapshots, pauses, failures and the end of Run fall
\* together: once nobody is about to set the phase and none was set that was out of
\* date, Watching is said only of a check that nothing is held against, and a
\* check whose Run has returned says Pending or Failed (steadyPhase, setPhase, Run).
THEOREM PhaseStaysHonest == CheckSpec => []PhaseIsHonest
<1>1. CheckInit => CheckInv
  BY NoPhaseAssumption, Zenon DEF CheckInit, CheckInv, CheckTyped, Attended, OfRun, Timely, Warned, Setters, Phases
<1>2. CheckInv /\ [CheckNext]_checkVars => CheckInv'
  <2>1. CASE UNCHANGED checkVars
    BY <2>1 DEF checkVars, program, control, pause, flags, environment, CheckInv, CheckTyped, Attended,
       OfRun, Timely, Warned, Fine, Overruled
  <2>2. ASSUME CheckInv, CheckNext PROVE CheckInv'
    <3>1. Races
      BY <2>2 DEF CheckNext, Races
    <3>2. CASE \E pass \in Passes :
                  \/ AdoptScan \/ AdoptFails \/ (\E skipped \in BOOLEAN : AdoptEnds(skipped))
                  \/ BootstrapWait \/ BootstrapStrict \/ Bootstrapped
                  \/ SweepBegins(pass) \/ PassSucceeds(pass) \/ PassUnavailable(pass) \/ PassFails(pass)
      BY <2>2, <3>1, <3>2, SweeperKeeps, Zenon
    <3>3. CASE \/ Cancel \/ Close \/ (\E g \in Loops : Exit(g) \/ Panic(g))
               \/ SourceTurns \/ SourceFails \/ StoreTurns \/ SnapshotEnds
      BY <2>2, <3>1, <3>3, OthersKeep, Zenon
    <3>4. CASE Run \/ Return \/ SetPaused \/ \E g \in Setters : SetPhase(g)
      BY <2>2, <3>1, <3>4, RunKeeps, ReturnKeeps, SetPausedKeeps, SetPhaseKeeps, Zenon
    <3>5. "sweep" \in Passes
      BY DEF Passes
    <3> QED
      BY <2>2, <3>2, <3>3, <3>4, <3>5, Zenon DEF CheckNext, Steps
  <2> QED
    BY <2>1, <2>2, SMTT(20)
<1>3. CheckInv => PhaseIsHonest
  BY NoPhaseAssumption DEF CheckInv, Warned, Overruled, OfRun, PhaseIsHonest, Settled, Fine
<1> QED
  BY <1>1, <1>2, <1>3, PTL DEF CheckSpec
=============================================================================
