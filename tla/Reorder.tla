------------------------------ MODULE Reorder -------------------------------
(***************************************************************************)
(* pkg/check/reorder.go: the buffer that restores sequence order in front  *)
(* of the sequence tracker. An event that arrives ahead of its predecessor *)
(* waits for the predecessor, for the window, or for the buffer to fill.   *)
(*                                                                         *)
(* The operators take the state p of one publisher (publishers do not      *)
(* interact in the buffer) and return its next state with the events that  *)
(* are handed on. An event is its epoch and sequence number. Time is kept  *)
(* as ages that stop growing at the window, which is all the code compares *)
(* them with. ReorderBuffer checks them alone, Ingest with the tracker.    *)
(***************************************************************************)
EXTENDS Integers, FiniteSets, Sequences, FiniteSetsExt

CONSTANTS
    TopSeq,     \* top of the sequence space (a uint64 in the code)
    Window,     \* reorderBuffer.window, in ticks; a zero window turns it off
    MaxHeld     \* reorderBuffer.maxHeld

ASSUME ReorderAssumption ==
    /\ TopSeq \in Nat
    /\ Window \in Nat \ {0} /\ MaxHeld \in Nat \ {0}

Numbers == 0 .. TopSeq

Event(e, s) == <<e, s>>

\* The first publisherOrder of a publisher. age is now - oldestAt.
NewOrder == [started |-> FALSE, epoch |-> 0, next |-> 0, held |-> {}, age |-> 0]

\* x + 1 in uint64 arithmetic.
After(x) == (x + 1) % (TopSeq + 1)

\* sort.Slice on the keys: each number at the place its rank gives it.
Ascending(seqs) ==
    [i \in 1 .. Cardinality(seqs) |->
        CHOOSE s \in seqs : Cardinality({t \in seqs : t < s}) = i - 1]

\* The events of pb's epoch with these numbers, in sequence order.
Events(p, seqs) == [i \in 1 .. Cardinality(seqs) |-> Event(p.epoch, Ascending(seqs)[i])]

\* What drain leaves: nothing held, and next just past the highest number.
Drained(p) ==
    IF p.held = {} THEN p
    ELSE LET last == Max(p.held)
         IN  [p EXCEPT !.held = {},
                       !.next = IF last >= p.next THEN After(last) ELSE p.next]

\* The numbers that follow next without a break (releaseConsecutive).
Consecutive(p, next) ==
    {s \in p.held : next <= s /\ \A t \in next .. s : t \in p.held}

\* What a call leaves behind and hands on.
Result(p, out) == [order |-> p, out |-> out]

First(p, e, s) ==
    Result([p EXCEPT !.started = TRUE, !.epoch = e, !.next = After(s)], <<Event(e, s)>>)

\* Mutant: a new epoch discards what was held for the old one.
OtherEpochDiscards(p, e, s) ==
    Result([Drained(p) EXCEPT !.epoch = e, !.next = After(s)], <<Event(e, s)>>)

OtherEpoch(p, e, s) ==
    Result([Drained(p) EXCEPT !.epoch = e, !.next = After(s)],
           Append(Events(p, p.held), Event(e, s)))

Late(p, e, s) == Result(p, <<Event(e, s)>>)

\* Mutant: what follows the event without a break stays held.
SuccessorAlone(p, e, s) == Result([p EXCEPT !.next = After(s)], <<Event(e, s)>>)

\* Seq == next: the event and everything that follows it without a break.
Successor(p, e, s) ==
    LET run  == Consecutive(p, After(s))
        next == IF run = {} THEN After(s) ELSE After(Max(run))
    IN  Result([p EXCEPT !.next = next, !.held = @ \ run],
               <<Event(e, s)>> \o Events(p, run))

Parked(p, s) == [p EXCEPT !.held = @ \cup {s}, !.age = IF p.held = {} THEN 0 ELSE @]

\* Mutant: nothing waits.
HoldNever(p, e, s) == Result([p EXCEPT !.next = After(s)], <<Event(e, s)>>)

\* hold: park it, unless that fills the buffer. oldestAt is set only when the
\* buffer was empty.
Hold(p, e, s) ==
    IF Cardinality(Parked(p, s).held) < MaxHeld
    THEN Result(Parked(p, s), <<>>)
    ELSE Result(Drained(Parked(p, s)), Events(p, Parked(p, s).held))

\* offer
Ordered(p, e, s) ==
    CASE ~p.started  -> First(p, e, s)
      [] p.started /\ e # p.epoch -> OtherEpoch(p, e, s)
      [] p.started /\ e = p.epoch /\ s < p.next -> Late(p, e, s)
      [] p.started /\ e = p.epoch /\ s = p.next -> Successor(p, e, s)
      [] p.started /\ e = p.epoch /\ s > p.next -> Hold(p, e, s)

\* Mutant: the window is never seen to have run out.
ExpiredNever(p) == FALSE

\* The test of expire, from the applier's flush ticker.
Expired(p) == p.held # {} /\ p.age >= Window

Flushed(p) == Result(Drained(p), Events(p, p.held))

\* Time passes while something is held.
Older(p) == IF p.held # {} /\ p.age < Window THEN [p EXCEPT !.age = @ + 1] ELSE p
=============================================================================
