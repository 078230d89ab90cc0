------------------------------- MODULE Differ -------------------------------
(***************************************************************************)
(* pkg/differ with Value.Equal of pkg/event and the lazy expiry of         *)
(* Oracle.Get: whether what the oracle expects of one key and what the     *)
(* store holds disagree, while both let the key expire by their own clock. *)
(* The oracle's TTL runs from the receipt of the event, the store's from   *)
(* the moment the materializer wrote it, up to WriteLag later.             *)
(*                                                                         *)
(* A confirmed finding is one of two looks at least W apart with no event  *)
(* between them (module Sweeper has the protocol). Times are ages.         *)
(***************************************************************************)
EXTENDS Integers, FiniteSets

CONSTANTS
    SetValues,      \* the sets events may write
    W,              \* the settlement window
    WriteLag,       \* the materializer writes within this time
    TTLs,           \* the expiries events carry; 0 is none
    AssumedTTL,     \* Options.AssumedTTL
    ListLimit,      \* Options.MaxMembersReported
    MaxFindings,    \* Options.MaxFindings
    MaxEventsSeen,  \* bound: events of the key
    MaxCompared,    \* bound: keys one report covers
    Gone,           \* a Value that is absent
    Hash,           \* a type the projection's shape cannot read
    NoFinding

ASSUME DifferAssumption ==
    /\ W \in Nat \ {0} /\ WriteLag \in Nat /\ WriteLag < W
    /\ TTLs \subseteq Nat /\ AssumedTTL \in Nat
    /\ ListLimit \in Nat \ {0} /\ MaxFindings \in Nat \ {0}

VARIABLES
    policy,     \* Options.ExpiryPolicy
    entry,      \* the oracle's entry: value, ttl, age and number of events
    holds,      \* the store's value and the time its expiry leaves it
    unwritten,  \* the materializer still has to write the last event
    drifted,    \* history: the store departed from the last event
    first,      \* the finding waiting for its second look, and its age
    confirmedAs,\* the category confirmed for the current event
    rep         \* a Report: the counters, and the history of what was added

keyVars == <<policy, entry, holds, unwritten, drifted, first, confirmedAs>>
differVars == <<keyVars, rep>>

MaxDiffAge == W + AssumedTTL + 3

Sum(n, m) == IF n + m > MaxDiffAge THEN MaxDiffAge ELSE n + m

\* NewReport
EmptyReport == [total |-> 0, suspect |-> 0, listed |-> 0, truncated |-> FALSE, trusted |-> 0, n |-> 0]

DifferInit ==
    /\ policy \in {"strict", "ignore", "model"}
    /\ entry = [value |-> Gone, ttl |-> 0, age |-> 0, n |-> 0]
    /\ holds = [value |-> Gone, left |-> 0]
    /\ unwritten = FALSE /\ drifted = FALSE
    /\ first = NoFinding /\ confirmedAs = NoFinding
    /\ rep = EmptyReport

-----------------------------------------------------------------------------
(* The comparison.                                                         *)

\* expired
TTLExpired == entry.ttl > 0 /\ entry.age > entry.ttl

\* Oracle.Get: what is expected now.
Expected == IF TTLExpired THEN Gone ELSE entry.value

\* Value.IsAbsent
IsAbsent(v) == v \in {Gone, {}}

\* Value.Equal
SameValue(v, w) == IF IsAbsent(v) \/ IsAbsent(w) THEN IsAbsent(v) /\ IsAbsent(w) ELSE v = w

\* suppressedByExpiry
SuppressedByExpiry == policy = "ignore" /\ AssumedTTL > 0 /\ entry.age > AssumedTTL

\* diffMembers: how many are named, and how many there are.
DiffMembers(a, b) ==
    LET n == Cardinality(a \ b)
    IN  [listed |-> IF n < ListLimit THEN n ELSE ListLimit, total |-> n]

MembersIn(v) == IF v \in {Gone, Hash} THEN {} ELSE v

\* newFinding
NewFinding(cat, v, tv) ==
    [cat |-> cat,
     missing |-> DiffMembers(MembersIn(v), MembersIn(tv)),
     extra |-> DiffMembers(MembersIn(tv), MembersIn(v))]

\* compareRead: CompareUnreadable for a type error, else Compare.
Compare(v, tv, trust) ==
    CASE tv = Hash -> NewFinding("type_mismatch", v, tv)
      [] tv # Hash /\ IsAbsent(v) /\ IsAbsent(tv) -> NoFinding
      [] tv # Hash /\ IsAbsent(v) /\ ~IsAbsent(tv) ->
            IF trust = "adopted" THEN NoFinding ELSE NewFinding("extra_in_target", v, tv)
      [] tv # Hash /\ ~IsAbsent(v) /\ IsAbsent(tv) ->
            IF SuppressedByExpiry THEN NoFinding ELSE NewFinding("missing_in_target", v, tv)
      [] OTHER -> IF SameValue(v, tv) THEN NoFinding ELSE NewFinding("member_mismatch", v, tv)

Found == Compare(Expected, holds.value, "complete")

-----------------------------------------------------------------------------
(* The key's life.                                                         *)

\* Oracle.Apply of an upsert with its TTL, or of a delete.
KeyEvent(v, ttl) ==
    /\ entry.n < MaxEventsSeen /\ rep = EmptyReport
    /\ entry' = [value |-> v, ttl |-> IF v = Gone THEN 0 ELSE ttl, age |-> 0, n |-> entry.n + 1]
    /\ unwritten' = TRUE /\ drifted' = FALSE
    /\ first' = NoFinding /\ confirmedAs' = NoFinding
    /\ UNCHANGED <<policy, holds, rep>>

\* The materializer writes the last event, its expiry included.
Write ==
    /\ unwritten
    /\ holds' = [value |-> entry.value, left |-> entry.ttl]
    /\ unwritten' = FALSE
    /\ UNCHANGED <<policy, entry, drifted, first, confirmedAs, rep>>

\* The write never reaches the store.
LoseWrite ==
    /\ unwritten
    /\ unwritten' = FALSE /\ drifted' = TRUE
    /\ UNCHANGED <<policy, entry, holds, first, confirmedAs, rep>>

\* Something else removes the key, or leaves another type under it.
Tamper(v) ==
    /\ entry.n > 0
    /\ holds' = [value |-> v, left |-> 0]
    /\ drifted' = TRUE
    /\ UNCHANGED <<policy, entry, unwritten, first, confirmedAs, rep>>

\* One unit of time; the store drops the key when its expiry has run out.
Age ==
    /\ entry.n > 0
    /\ unwritten => entry.age < WriteLag
    /\ entry' = [entry EXCEPT !.age = Sum(@, 1)]
    /\ holds' = CASE holds.left = 1 -> [value |-> Gone, left |-> 0]
                  [] holds.left > 1 -> [holds EXCEPT !.left = @ - 1]
                  [] OTHER -> holds
    /\ first' = IF first = NoFinding THEN first ELSE [first EXCEPT !.age = Sum(@, 1)]
    /\ UNCHANGED <<policy, unwritten, drifted, confirmedAs, rep>>

\* A sweep or confirm pass looks at the settled key.
LookAt ==
    /\ entry.n > 0 /\ entry.age > W
    /\ IF first = NoFinding
       THEN /\ first' = IF Found = NoFinding THEN NoFinding ELSE [age |-> 0]
            /\ UNCHANGED confirmedAs
       ELSE /\ first.age >= W
            /\ first' = NoFinding
            /\ confirmedAs' = IF Found = NoFinding THEN confirmedAs ELSE Found.cat
    /\ UNCHANGED <<policy, entry, holds, unwritten, drifted, rep>>

-----------------------------------------------------------------------------
(* The report of one sweep.                                                *)

\* Mutant: the cap is looked at first.
AddedCapped(r, trust) ==
    IF r.listed >= MaxFindings THEN [r EXCEPT !.truncated = TRUE]
    ELSE [r EXCEPT !.total = @ + 1, !.suspect = @ + (IF trust = "suspect" THEN 1 ELSE 0), !.listed = @ + 1]

\* Report.Add
Added(r, trust) ==
    LET counted == [r EXCEPT !.total = @ + 1, !.suspect = @ + (IF trust = "suspect" THEN 1 ELSE 0)]
    IN  IF r.listed >= MaxFindings THEN [counted EXCEPT !.truncated = TRUE]
        ELSE [counted EXCEPT !.listed = @ + 1]

\* A key is compared and its finding, if there is one, added.
AddToReport(v, tv, trust) ==
    /\ entry.n = 0 /\ rep.n < MaxCompared
    /\ LET r == [rep EXCEPT !.n = @ + 1]
       IN  rep' = IF Compare(v, tv, trust) = NoFinding THEN r
                  ELSE [Added(r, trust) EXCEPT !.trusted = @ + (IF trust = "suspect" THEN 0 ELSE 1)]
    /\ UNCHANGED keyVars

\* Total and Alertable
Alertable == rep.total - rep.suspect

DifferNext ==
    \/ \E v \in SetValues \cup {Gone} : \E t \in TTLs : KeyEvent(v, t)
    \/ Write
    \/ LoseWrite
    \/ \E v \in {Hash, Gone} : Tamper(v)
    \/ Age
    \/ LookAt
    \/ \E v, tv \in SetValues \cup {Gone, {}, Hash}, t \in {"complete", "suspect", "adopted"} :
            v # Hash /\ AddToReport(v, tv, t)

DifferSpec == DifferInit /\ [][DifferNext]_differVars

-----------------------------------------------------------------------------
(* Properties                                                              *)

\* A key the materializer treats correctly is never confirmed as drift under any
\* expiry policy, although the oracle and the store let it expire at different
\* moments: the two looks are further apart than the write lag.
ExpiryStaysQuiet == confirmedAs # NoFinding => drifted

\* I6: a key that is written, expected and unexpired, and not excused by the
\* Ignore policy, is reported exactly when the store does not hold the value.
AbsenceIsFound ==
    entry.n > 0 /\ ~TTLExpired /\ ~(policy = "ignore" /\ entry.age > AssumedTTL)
        => (Found = NoFinding <=> SameValue(entry.value, holds.value))

\* The member counts of a finding account for the whole difference, listed or
\* not: what the store holds is what was expected, less the missing, plus the extra.
MembersAddUp ==
    Found # NoFinding => Cardinality(MembersIn(holds.value)) =
        Cardinality(MembersIn(Expected)) - Found.missing.total + Found.extra.total

\* The alertable count of a report is the number of trusted keys that disagreed,
\* past the finding cap too.
MagnitudeSurvives == Alertable = rep.trusted

\* differ.go: "Strict reports every absence". Oracle.Get expires an entry under
\* every policy.
\* Does not hold: README, section 6.
StrictReportsAbsence ==
    policy = "strict" /\ ~IsAbsent(entry.value) /\ ~unwritten /\ IsAbsent(holds.value) => Found # NoFinding


\* A verdict neither blames an expiry nor hides an absence, and what it counts and
\* lists of the members is the whole difference.
VerdictsAreSound ==
    ExpiryStaysQuiet /\ AbsenceIsFound /\ MembersAddUp /\ MagnitudeSurvives
=============================================================================
