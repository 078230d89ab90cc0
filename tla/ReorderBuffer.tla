---------------------------- MODULE ReorderBuffer ----------------------------
(***************************************************************************)
(* The reorder buffer of one publisher (publishers do not interact in it), *)
(* in front of a transport that may deliver any event at any time, again,  *)
(* late or never, from any incarnation of the publisher.                   *)
(***************************************************************************)
EXTENDS Reorder

CONSTANT Incarnations   \* the epochs the publisher declares

ASSUME IncarnationsAssumption == Incarnations \subseteq Nat

VARIABLES
    pb,         \* the publisherOrder
    offered,    \* the events the last call was given (one, or none)
    released    \* the events it returned, in order

reorderVars == <<pb, offered, released>>

ReorderInit ==
    /\ pb = NewOrder
    /\ offered = {}
    /\ released = <<>>

Becomes(result) == pb' = result.order /\ released' = result.out

Offer(e, s) == Becomes(Ordered(pb, e, s)) /\ offered' = {Event(e, s)}

Expire == Expired(pb) /\ Becomes(Flushed(pb)) /\ offered' = {}

Ages == pb # Older(pb) /\ pb' = Older(pb) /\ offered' = {} /\ released' = <<>>

ReorderNext ==
    \/ \E e \in Incarnations, s \in Numbers : Offer(e, s)
    \/ Expire
    \/ Ages

\* The clock advances and the applier's ticker keeps firing (ingest's loop
\* selects on it); nothing obliges the transport to deliver anything.
ReorderFairness == WF_reorderVars(Ages) /\ WF_reorderVars(Expire)

ReorderSpec == ReorderInit /\ [][ReorderNext]_reorderVars /\ ReorderFairness

-----------------------------------------------------------------------------
\* Fields keep their types, and the buffer stays below its bound: the call that
\* fills it empties it, whatever mix of duplicates and jumps led there.
HeldBounded ==
    /\ pb \in [started : BOOLEAN, epoch : Incarnations \cup {0}, next : Numbers,
               held : SUBSET Numbers, age : 0 .. Window]
    /\ Cardinality(pb.held) < MaxHeld

\* Nothing held is deliverable: the number next names is not in the buffer, and
\* neither is one below it. Otherwise an event whose predecessor has arrived
\* would sit out the window.
HeldIsAhead == \A s \in pb.held : s > pb.next

\* The events waiting in the buffer.
Waiting == {Event(pb.epoch, s) : s \in pb.held}

\* No event is lost in the buffer, and none is invented: what was waiting or is
\* offered is returned or waits. (A loss here would be a gap the transport never
\* had, an invention a duplicate that is applied.)
NothingLost == [][Waiting \cup offered' = Waiting' \cup Range(released')]_reorderVars

\* What one call hands on is ascending, and leaves nothing behind that belongs
\* before it: the buffer itself never inverts two events of one epoch.
NeverInverts ==
    [][LET out == released'
           old == {i \in DOMAIN out : out[i][1] = pb.epoch}
       IN  \A i \in old :
               /\ \A j \in old : i < j => out[i][2] < out[j][2]
               /\ pb'.epoch = pb.epoch => \A h \in pb'.held : out[i][2] < h]_reorderVars

\* A lost predecessor stalls nobody: whatever is held is handed on in the end.
HeldIsReleased == \A s \in Numbers : (s \in pb.held) ~> (s \notin pb.held)

\* The buffer holds less than its bound, and only what is not deliverable yet.
BufferInBounds == HeldBounded /\ HeldIsAhead

\* The buffer loses, invents and inverts nothing.
BufferIsFaithful == NothingLost /\ NeverInverts
=============================================================================
