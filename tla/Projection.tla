----------------------------- MODULE Projection -----------------------------
(***************************************************************************)
(* pkg/projection: how one event changes the value expected of a key, and  *)
(* the slow Reference fold the package states its meaning with.            *)
(*                                                                         *)
(* A producer emits the events of one key in order and the reference folds *)
(* them in that order. The oracle folds what is delivered, and delivery    *)
(* may hold one event back while later ones pass it. The four projections  *)
(* are keysetOwnership, scalar, counter and counter with incrOnly. An      *)
(* int64 is a two's complement integer of IntBits bits.                    *)
(***************************************************************************)
EXTENDS Integers, Sequences, FiniteSets

CONSTANTS
    Members,        \* set members
    FieldLists,     \* the delimited values of a set event, split into fields
    Empty,          \* the empty field between two delimiters
    Scalars,        \* the values of a scalar
    MaxMembers,     \* keysetOwnership.maxMembers
    IntBits,        \* the width of a counter
    Deltas,         \* what increments add
    NaN,            \* a value ParseInt refuses
    NoValue,         \* a Value of kind ValueAbsent
    Nothing         \* no event is held back

ASSUME ProjectionAssumption ==
    /\ FieldLists \subseteq Seq(Members \cup {Empty})
    /\ MaxMembers \in Nat \ {0} /\ IntBits \in Nat \ {0}

VARIABLES
    proj,       \* which projection the check uses
    val,        \* entry.value of the key in the oracle
    flagged,    \* entry.truncated
    ref,        \* the reference fold of every event emitted
    held,       \* an event still on its way while later ones arrived
    bounded,    \* history: a bound shaped val or ref since they were last rebuilt
    conflict    \* history: an event overtook one it does not commute with

foldVars == <<proj, val, flagged, ref, held, bounded, conflict>>

MinInt == -(2 ^ (IntBits - 1))
MaxInt == 2 ^ (IntBits - 1) - 1

\* Two's complement addition, as Go defines it for int64.
Wrapped(n) == ((n - MinInt) % (2 ^ IntBits)) + MinInt

\* The events a producer may emit for the key, the ones its projection refuses
\* and the ones that touch no key included.
KeyEvents ==
    LET always == {[op |-> "Heartbeat"], [op |-> "Delete"]}
    IN  CASE proj = "keyset" -> always
                \cup {[op |-> o, member |-> m] : o \in {"Add", "Remove"}, m \in Members}
                \cup {[op |-> "Set", value |-> f] : f \in FieldLists}
          [] proj = "scalar" -> always \cup {[op |-> "Set", value |-> s] : s \in Scalars} \cup {[op |-> "Incr", delta |-> 1]}
          [] OTHER -> always
                \cup {[op |-> "Incr", delta |-> d] : d \in Deltas}
                \cup {[op |-> "Set", value |-> n] : n \in {0, MaxInt, NaN}}

-----------------------------------------------------------------------------
(* Apply: the mutation an event makes of the previous value.               *)

Unchanged == [action |-> "None"]
Refused == [action |-> "Error"]
Upsert(v) == [action |-> "Upsert", value |-> v, truncated |-> FALSE, saturated |-> FALSE]
Deletion == [action |-> "Delete", value |-> NoValue, truncated |-> FALSE, saturated |-> FALSE]

MembersOf(v) == IF v = NoValue THEN {} ELSE v
CountOf(v) == IF v = NoValue THEN 0 ELSE v

\* OpDelete is the same in all three.
DeleteOf(prev) == IF prev = NoValue THEN Unchanged ELSE Deletion

\* keysetOwnership.add
AddMember(prev, m) ==
    LET old == MembersOf(prev)
    IN  IF m \notin old /\ Cardinality(old) >= MaxMembers
        THEN [Upsert(prev) EXCEPT !.truncated = TRUE]
        ELSE Upsert(old \cup {m})

\* keysetOwnership.remove
RemoveMember(prev, m) ==
    IF m \notin MembersOf(prev) THEN Unchanged
    ELSE IF prev = {m} THEN Deletion
    ELSE Upsert(prev \ {m})

\* keysetOwnership.replace: fields are taken in order until the cap stops the
\* next non-empty one, a repeated one included.
ReplaceMembers(fields) ==
    LET full == SelectSeq(fields, LAMBDA f : f # Empty)
        upTo(i) == {full[j] : j \in 1..i}
        stops == {i \in 1..Len(full) : Cardinality(upTo(i - 1)) >= MaxMembers}
        last == IF stops = {} THEN Len(full) ELSE (CHOOSE i \in stops : \A j \in stops : i <= j) - 1
    IN  IF full = <<>> THEN Deletion
        ELSE [Upsert(upTo(last)) EXCEPT !.truncated = stops # {}]

\* Mutant: a set event adds to the members instead of replacing them.
ApplyKeysetMerges(prev, e) ==
    CASE e.op = "Heartbeat" -> Unchanged
      [] e.op = "Add" -> AddMember(prev, e.member)
      [] e.op = "Remove" -> RemoveMember(prev, e.member)
      [] e.op = "Delete" -> DeleteOf(prev)
      [] e.op = "Set" -> Upsert(MembersOf(prev) \cup MembersOf(ReplaceMembers(e.value).value))

\* keysetOwnership.Apply
ApplyKeyset(prev, e) ==
    CASE e.op = "Heartbeat" -> Unchanged
      [] e.op = "Add" -> AddMember(prev, e.member)
      [] e.op = "Remove" -> RemoveMember(prev, e.member)
      [] e.op = "Delete" -> DeleteOf(prev)
      [] e.op = "Set" -> ReplaceMembers(e.value)

\* scalar.Apply
ApplyScalar(prev, e) ==
    CASE e.op = "Heartbeat" -> Unchanged
      [] e.op = "Set" -> Upsert(e.value)
      [] e.op = "Delete" -> DeleteOf(prev)
      [] OTHER -> Refused

\* addSaturating: the sum, and whether it was clamped.
AddSaturating(n, delta) ==
    LET sum == Wrapped(n + delta)
    IN  IF delta > 0 /\ sum < n THEN [sum |-> MaxInt, clamped |-> TRUE]
        ELSE IF delta < 0 /\ sum > n THEN [sum |-> MinInt, clamped |-> TRUE]
        ELSE [sum |-> sum, clamped |-> FALSE]

\* counter.Apply
ApplyCounter(prev, e) ==
    CASE e.op = "Heartbeat" -> Unchanged
      [] e.op = "Incr" ->
            LET r == AddSaturating(CountOf(prev), e.delta)
            IN  [Upsert(r.sum) EXCEPT !.saturated = r.clamped]
      [] e.op = "Set" -> IF proj = "incr" \/ e.value = NaN THEN Refused ELSE Upsert(e.value)
      [] e.op = "Delete" -> DeleteOf(prev)

\* Projection.Apply
ApplyEvent(prev, e) ==
    CASE proj = "keyset" -> ApplyKeyset(prev, e)
      [] proj = "scalar" -> ApplyScalar(prev, e)
      [] OTHER -> ApplyCounter(prev, e)

\* Commutative
Commutative == proj = "incr"

-----------------------------------------------------------------------------
(* Reference: what the store should hold, by the plainest code.            *)

\* applySet; the last loop of Fold drops an empty set.
ReferenceSet(state, e) ==
    LET current ==
            CASE e.op = "Add" -> MembersOf(state) \cup {e.member}
              [] e.op = "Remove" -> MembersOf(state) \ {e.member}
              [] e.op = "Delete" -> {}
              [] e.op = "Set" -> {e.value[i] : i \in 1..Len(e.value)} \ {Empty}
    IN  IF current = {} THEN NoValue ELSE current

\* applyScalar
ReferenceScalar(state, e) ==
    CASE e.op = "Set" -> e.value [] e.op = "Delete" -> NoValue [] OTHER -> state

\* applyCounter
ReferenceCounter(state, e) ==
    CASE e.op = "Incr" ->
            LET sum == Wrapped(CountOf(state) + e.delta)
            IN  IF e.delta > 0 /\ sum < CountOf(state) THEN MaxInt
                ELSE IF e.delta < 0 /\ sum > CountOf(state) THEN MinInt
                ELSE sum
      [] e.op = "Set" -> IF proj = "incr" \/ e.value = NaN THEN state ELSE e.value
      [] e.op = "Delete" -> NoValue

\* Fold and apply
Reference(state, e) ==
    IF e.op = "Heartbeat" THEN state
    ELSE CASE proj = "keyset" -> ReferenceSet(state, e)
           [] proj = "scalar" -> ReferenceScalar(state, e)
           [] OTHER -> ReferenceCounter(state, e)

-----------------------------------------------------------------------------
(* Delivery and the fold into the oracle.                                  *)

FoldInit ==
    /\ proj \in {"keyset", "scalar", "counter", "incr"}
    /\ val = NoValue /\ ref = NoValue
    /\ held = Nothing
    /\ flagged = FALSE /\ bounded = FALSE /\ conflict = FALSE

\* Check.fold and Oracle.Apply: a refused event is dropped and counted, one that
\* changes nothing leaves the entry alone.
Folded(e) ==
    LET m == ApplyEvent(val, e)
    IN  /\ val' = IF m.action \in {"None", "Error"} THEN val ELSE m.value
        /\ flagged' = IF m.action \in {"None", "Error"} THEN flagged ELSE m.truncated

HitsBound(prev, e) ==
    LET m == ApplyEvent(prev, e)
    IN  m.action = "Upsert" /\ (m.truncated \/ m.saturated)

\* A whole new value in order: nothing that happened before shapes it.
Rebuilds(e) == held = Nothing /\ e.op \in {"Set", "Delete"} /\ ApplyEvent(val, e).action # "Error"

\* Two events of one key that may pass each other without harm.
Independent(e, f) ==
    \/ e = f
    \/ ApplyEvent(val, e).action = "Error" \/ ApplyEvent(val, f).action = "Error"
    \/ "Heartbeat" \in {e.op, f.op}
    \/ e.op = "Incr" /\ f.op = "Incr"
    \/ e.op \in {"Add", "Remove"} /\ f.op \in {"Add", "Remove"} /\ (e.op = f.op \/ e.member # f.member)

\* An event is emitted and delivered, ahead of the one held back if there is one.
Deliver(e) ==
    /\ Folded(e)
    /\ ref' = Reference(ref, e)
    /\ bounded' = (HitsBound(val, e) \/ HitsBound(ref, e) \/ (bounded /\ ~Rebuilds(e)))
    /\ conflict' = IF held = Nothing THEN conflict /\ ~Rebuilds(e) ELSE conflict \/ ~Independent(held, e)
    /\ UNCHANGED <<proj, held>>

\* An event is emitted and held back on its way to the oracle.
HoldBack(e) ==
    /\ held = Nothing
    /\ held' = e
    /\ ref' = Reference(ref, e)
    /\ bounded' = (bounded \/ HitsBound(ref, e))
    /\ UNCHANGED <<proj, val, flagged, conflict>>

DeliverHeld ==
    /\ held # Nothing
    /\ Folded(held)
    /\ held' = Nothing
    /\ bounded' = (bounded \/ HitsBound(val, held))
    /\ UNCHANGED <<proj, ref, conflict>>

FoldNext ==
    \/ \E e \in KeyEvents : Deliver(e) \/ HoldBack(e)
    \/ DeliverHeld

FoldSpec == FoldInit /\ [][FoldNext]_foldVars

-----------------------------------------------------------------------------
(* Properties                                                              *)

\* However events of one key are reordered on the way, once all have arrived
\* the optimised folds hold what the plain Reference fold holds, provided that
\* no event overtook one it does not commute with and that neither the member
\* cap nor the int64 range was hit since the value was last rebuilt.
FoldsConverge == held = Nothing /\ ~conflict /\ ~bounded => val = ref

\* In order, the member cap only ever makes keysetOwnership expect too little:
\* every member it expects is one the store should hold, through any later adds,
\* removes and replacements.
CapLosesOnly == proj = "keyset" /\ held = Nothing /\ ~conflict => MembersOf(val) \subseteq MembersOf(ref)

\* I2 of docs/CORRECTNESS.md: for a projection that says it is commutative, any
\* order of the same events gives the same state. An incrOnly counter refuses
\* OpSet for this reason and still accepts OpDelete.
\* Does not hold: README, section 6.
PermutationsAgree == Commutative /\ held = Nothing /\ ~bounded => val = ref

\* entry.go: an approximate expectation is marked Truncated. The flag is the
\* last mutation's alone.
\* Does not hold: README, section 6.
ApproximateIsMarked == proj = "keyset" /\ held = Nothing /\ ~conflict /\ val # ref => flagged


\* The folds of the projections agree with the reference fold, and the cap on
\* members loses members only.
FoldsAreSound == FoldsConverge /\ CapLosesOnly
=============================================================================
