------------------------------ MODULE Episodes ------------------------------
(***************************************************************************)
(* The drift metrics of a check (pkg/check/check.go, recordSweepMetrics,   *)
(* publishDivergence and publishEpisodes).  The sweeper owns a set of      *)
(* confirmed findings that changes between two publications; the gauges    *)
(* and the two episode counters are derived from the set when a sweep      *)
(* reports.  The sweeper itself is the module Sweeper: here its set        *)
(* changes in every way it can.                                            *)
(***************************************************************************)
EXTENDS Integers, FiniteSets, FiniteSetsExt

CONSTANTS
    DriftKeys,   \* a set of integers, which stands for the order of the keys
    Categories,
    MostEpisodes \* bound: confirmations and resolutions

VARIABLES
    confirmedKeys,   \* Sweeper.confirmed: the category of every confirmed key
    resolved,    \* the sweeper's driftResolved counter
    published,   \* Check.confirmedCats, the set at the last publication
    lastResolved,
    gauge,       \* driftwatch_divergent_keys by category
    episodes, repairs,   \* the two counters by category
    confirmations,       \* bound
    opened               \* history: how often a key was confirmed that was not

episodeVars ==
    <<confirmedKeys, resolved, published, lastResolved, gauge, episodes, repairs, confirmations,
      opened>>

NoneYet == [c \in Categories |-> 0]

EpisodeInit ==
    /\ confirmedKeys = <<>> /\ published = <<>>
    /\ resolved = 0 /\ lastResolved = 0 /\ confirmations = 0 /\ opened = 0
    /\ gauge = NoneYet /\ episodes = NoneYet /\ repairs = NoneYet

CountsUnchanged == UNCHANGED <<published, lastResolved, gauge, episodes, repairs>>

Removed(k) == [j \in DOMAIN confirmedKeys \ {k} |-> confirmedKeys[j]]

\* confirm and refresh: a new finding, or a new finding for an open episode.
ConfirmKey(k, c) ==
    /\ confirmations < MostEpisodes
    /\ confirmations' = confirmations + 1
    /\ opened' = IF k \in DOMAIN confirmedKeys THEN opened ELSE opened + 1
    /\ confirmedKeys' = [j \in DOMAIN confirmedKeys \union {k} |-> IF j = k THEN c ELSE confirmedKeys[j]]
    /\ UNCHANGED resolved /\ CountsUnchanged

\* resolve: the key agrees again.
ResolveKey(k) ==
    /\ confirmedKeys' = Removed(k)
    /\ resolved' = resolved + 1
    /\ UNCHANGED <<confirmations, opened>> /\ CountsUnchanged

\* Episodes: the expectation was superseded, or the key evicted.
Withdraw(k) ==
    /\ confirmedKeys' = Removed(k)
    /\ UNCHANGED <<resolved, confirmations, opened>> /\ CountsUnchanged

Of(f, c) == {k \in DOMAIN f : f[k] = c}

\* publishDivergence: every category, from scratch.
Divergence == [c \in Categories |-> Cardinality(Of(confirmedKeys, c))]

Departed == DOMAIN published \ DOMAIN confirmedKeys

\* The departed keys that are counted: in order, as far as the sweeper resolved.
Repaired ==
    LET budget == resolved - lastResolved
    IN  {k \in Departed : Cardinality({j \in Departed : j < k}) < budget}

\* A mutant of Appeared: keys are compared with their category.
AppearedAnew(c) == {k \in Of(confirmedKeys, c) : k \notin Of(published, c)}

Appeared(c) == {k \in Of(confirmedKeys, c) : k \notin DOMAIN published}

\* A sweep reports: publishDivergence, then publishEpisodes.
Publication ==
    /\ gauge' = Divergence
    /\ episodes' = [c \in Categories |-> episodes[c] + Cardinality(Appeared(c))]
    /\ repairs' = [c \in Categories |->
                     repairs[c] + Cardinality(Repaired \intersect Of(published, c))]
    /\ published' = confirmedKeys
    /\ lastResolved' = resolved
    /\ UNCHANGED <<confirmedKeys, resolved, confirmations, opened>>

EpisodeNext ==
    \/ \E k \in DriftKeys, c \in Categories : ConfirmKey(k, c)
    \/ \E k \in DOMAIN confirmedKeys : ResolveKey(k) \/ Withdraw(k)
    \/ Publication

EpisodeSpec == EpisodeInit /\ [][EpisodeNext]_episodeVars

-----------------------------------------------------------------------------
Total(f) == MapThenSumSet(LAMBDA c : f[c], Categories)

(* "Counting those as repairs would make the resolution rate a comfortable *)
(* fiction": never more repairs are counted than the sweeper resolved      *)
(* drifts, whatever was withdrawn or re-confirmed between publications.    *)
RepairsAreEarned == Total(repairs) <= lastResolved

(* Each open episode has been counted once and is not counted as repaired: *)
(* episodes less repairs is at least what is open, and no more than one    *)
(* episode is counted for each time a key came to be confirmed.            *)
EpisodesBalance ==
    /\ Total(episodes) - Total(repairs) >= Cardinality(DOMAIN published)
    /\ Total(episodes) <= opened

(* A category whose findings are gone does not keep its value: the gauges  *)
(* add up to the set that was published.                                   *)
GaugesAddUp == \A c \in Categories : gauge[c] = Cardinality(Of(published, c))

\* The counters of repairs and of episodes and the gauges agree with each other and
\* with the findings they are computed from.
LedgersBalance == RepairsAreEarned /\ EpisodesBalance /\ GaugesAddUp
=============================================================================
