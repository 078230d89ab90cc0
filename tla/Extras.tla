------------------------------- MODULE Extras -------------------------------
(***************************************************************************)
(* pkg/sweeper/extras.go: keys the store holds and the oracle does not.    *)
(* ScanExtrasOnce decides the set an earlier call has parked, if its       *)
(* window is over, and then scans the keyspace for the next set. Between   *)
(* its reads the store is written, events are applied and keys evicted.    *)
(*                                                                         *)
(* Time is kept as ages, up to the bound they are compared with.           *)
(***************************************************************************)
EXTENDS Integers, FiniteSets

CONSTANTS
    StreamKeys,         \* keys the stream writes
    ForeignKeys,        \* keys somebody else writes into the store
    ExtrasWindow,       \* the settlement window
    IngestLag,          \* an event reaches the oracle this long after the store
    MaxScan,            \* a scan takes no longer than this
    MaxExtrasTracked,   \* Config.MaxExtrasTracked
    NoPass

ASSUME ExtrasAssumption ==
    /\ StreamKeys \cap ForeignKeys = {}
    /\ {ExtrasWindow, MaxExtrasTracked} \subseteq Nat \ {0}
    /\ IngestLag \in Nat /\ MaxScan \in Nat
    /\ IngestLag + MaxScan < ExtrasWindow

AllKeys == StreamKeys \cup ForeignKeys

VARIABLES
    held,       \* keys the store holds
    tracked,    \* keys the oracle has an entry for
    behind,     \* time since the store took the first event of a key, or NoPass
    forgotten,  \* keys the oracle has evicted
    parked,     \* Sweeper.extras: the parked set with the age of its startedAt
    scan,       \* where ScanExtrasOnce is
    reported    \* the keys of the last report

outside == <<held, tracked, behind, forgotten>>
extrasVars == <<outside, parked, scan, reported>>

NoScan == [at |-> "idle"]

ExtrasInit ==
    /\ held = {} /\ tracked = {} /\ forgotten = {}
    /\ behind = [k \in StreamKeys |-> NoPass]
    /\ parked = NoPass /\ scan = NoScan
    /\ reported = {}

-----------------------------------------------------------------------------
(* The store and the oracle.                                               *)

\* The store takes the first event of a key, before driftwatch has applied it.
StoreLeads(k) ==
    /\ k \notin held \cup tracked \cup forgotten /\ behind[k] = NoPass
    /\ held' = held \cup {k}
    /\ behind' = [behind EXCEPT ![k] = 0]
    /\ UNCHANGED <<tracked, forgotten, parked, scan, reported>>

\* The event is applied; a later one may delete the key again (a tombstone).
EventApplied(k) ==
    /\ behind[k] # NoPass
    /\ behind' = [behind EXCEPT ![k] = NoPass]
    /\ tracked' = tracked \cup {k}
    /\ UNCHANGED <<held, forgotten, parked, scan, reported>>

KeyEvicted(k) ==
    /\ k \in tracked
    /\ tracked' = tracked \ {k} /\ forgotten' = forgotten \cup {k}
    /\ UNCHANGED <<held, behind, parked, scan, reported>>

\* Somebody else adds or removes a key.
ForeignChange(k) ==
    /\ held' = (held \cup {k}) \ (held \cap {k})
    /\ UNCHANGED <<tracked, behind, forgotten, parked, scan, reported>>

AgedBy1(n, top) == IF n < top THEN n + 1 ELSE n

\* Time passes; events keep to their lag and a scan to its duration.
TimePasses ==
    /\ \A k \in StreamKeys : behind[k] # NoPass => behind[k] < IngestLag
    /\ scan # NoScan => scan.age < MaxScan
    /\ behind' = [k \in StreamKeys |-> IF behind[k] = NoPass THEN NoPass ELSE behind[k] + 1]
    /\ parked' = IF parked = NoPass THEN NoPass ELSE [parked EXCEPT !.age = AgedBy1(@, ExtrasWindow)]
    /\ scan' = IF scan = NoScan THEN NoScan ELSE [scan EXCEPT !.age = @ + 1]
    /\ UNCHANGED <<held, tracked, forgotten, reported>>

-----------------------------------------------------------------------------
(* ScanExtrasOnce.                                                         *)

\* takePendingExtras: there is a parked set, and its window is over.
Due == parked # NoPass /\ parked.age >= ExtrasWindow

\* The call begins: now is captured, and a set that is due is taken.
ScanBegins ==
    /\ scan = NoScan
    /\ parked' = IF Due THEN NoPass ELSE parked
    /\ scan' = [at |-> "second", age |-> 0, todo |-> IF Due THEN parked.keys ELSE {}, report |-> {}]
    /\ UNCHANGED <<outside, reported>>

\* Mutant: the answer of the oracle is taken the wrong way round.
SurvivesTracked(k) == k \in held \cap tracked

\* extraSurvives: still in the store, still without an expectation.
ExtraSurvives(k) == k \in held \ tracked

\* ReadMany and extraSurvives for one key of the parked set.
SecondPass(k) ==
    /\ scan.at = "second" /\ k \in scan.todo
    /\ scan' = [scan EXCEPT !.todo = @ \ {k},
                            !.report = IF ExtraSurvives(k) THEN @ \cup {k} ELSE @]
    /\ UNCHANGED <<outside, parked, reported>>

\* The scan of the keyspace begins.
FirstPass ==
    /\ scan.at = "second" /\ scan.todo = {}
    /\ scan' = [at |-> "first", age |-> scan.age, todo |-> AllKeys, report |-> scan.report,
              keys |-> {}, truncated |-> FALSE]
    /\ UNCHANGED <<outside, parked, reported>>

\* The cursor passes the slot of a key; a full set ends the scan.
Visit(k) ==
    /\ scan.at = "first" /\ k \in scan.todo
    /\ LET extra == k \in held \ tracked
           full  == Cardinality(scan.keys) >= MaxExtrasTracked
       IN  scan' = [scan EXCEPT !.todo = IF extra /\ full THEN {} ELSE @ \ {k},
                                !.keys = IF extra /\ ~full THEN @ \cup {k} ELSE @,
                                !.truncated = extra /\ full]
    /\ UNCHANGED <<outside, parked, reported>>

\* setPendingExtras: the set is parked, with the time the call began, in place
\* of whatever was parked; the report is returned.
PassEnds ==
    /\ scan.at = "first" /\ scan.todo = {}
    /\ parked' = [keys |-> scan.keys, age |-> scan.age, truncated |-> scan.truncated]
    /\ reported' = scan.report
    /\ scan' = NoScan
    /\ UNCHANGED outside

\* A read fails: nothing is parked, and what was taken or found is dropped.
ScanFails ==
    /\ scan # NoScan
    /\ scan' = NoScan
    /\ UNCHANGED <<outside, parked, reported>>

\* The sweeper's goroutine gets on with a scan.
ScanSteps ==
    \/ \E k \in AllKeys : SecondPass(k) \/ Visit(k)
    \/ FirstPass
    \/ PassEnds

\* ExtraScanInterval is longer than the window (the comment on ScanExtrasOnce).
ExtrasTick == parked # NoPass => parked.age >= ExtrasWindow

ExtrasNext ==
    \/ \E k \in StreamKeys : StoreLeads(k) \/ EventApplied(k) \/ KeyEvicted(k)
    \/ \E k \in ForeignKeys : ForeignChange(k)
    \/ TimePasses
    \/ ScanBegins
    \/ ScanSteps
    \/ ScanFails

\* The ticker fires for as long as the process runs, and time does not stop.
ExtrasFairness ==
    /\ SF_extrasVars(TimePasses)
    /\ SF_extrasVars(ScanBegins /\ ExtrasTick)
    /\ WF_extrasVars(ScanSteps)
    /\ \A k \in StreamKeys : WF_extrasVars(EventApplied(k))

ExtrasSpec == ExtrasInit /\ [][ExtrasNext]_extrasVars /\ ExtrasFairness

-----------------------------------------------------------------------------
\* A key that is reported as an extra was never written by the stream, unless
\* the oracle had evicted it: what only appeared while the scan ran, or was
\* ahead of driftwatch's own ingest, resolves itself before the second pass
\* (ScanExtrasOnce; it takes the window to outlast the ingest lag and a scan).
ReportedIsForeign == [][reported' \subseteq reported \cup ForeignKeys \cup forgotten']_extrasVars

\* A foreign key that stays in the store is reported, or every set is full, once
\* scans come no closer than a window and none fails: each scan replaces what is
\* parked, and takes a set before it has read it again (extras.go:67-78).
ExtraIsReported ==
    \A k \in ForeignKeys :
        (/\ <>[](k \in held)
         /\ <>[][~ScanFails /\ (ScanBegins => ExtrasTick)]_extrasVars)
        => \/ <>(k \in reported)
           \/ []<>(parked # NoPass /\ parked.truncated)

\* The scan reports foreign keys only, and every one that stays.
ExtrasAreFound == ReportedIsForeign /\ ExtraIsReported
=============================================================================
