---------------------------- MODULE MCZmqSource -----------------------------
(***************************************************************************)
(* Two publishers, the smallest buffers, and a deadline of one unit.       *)
(***************************************************************************)
EXTENDS ZmqSource
=============================================================================
