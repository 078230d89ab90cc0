------------------------------ MODULE MCIngest ------------------------------
\* Ingest for model checking: what the publishers send.
EXTENDS Ingest, TLC

Set(k, epochs) == [op |-> "set", key |-> k, epochs |-> epochs]
Garbled(k) == [op |-> "garbled", key |-> k, epochs |-> {1}]
End == [op |-> "snapshotEnd", key |-> "a", epochs |-> {1}]

\* Publisher 1 writes a and b, ends a snapshot and may restart; publisher 2
\* writes c, and its second message cannot be decoded.
TwoStreams ==
    1 :> (0 :> Set("a", {1, 2}) @@ 1 :> Set("b", {1}) @@ 2 :> Set("a", {1, 2}) @@ 3 :> End) @@
    2 :> (0 :> Set("c", {1}) @@ 1 :> Garbled("c"))

TwoOwners == 1 :> {"a", "b"} @@ 2 :> {"c"}
=============================================================================
