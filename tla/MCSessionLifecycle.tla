------------------------- MODULE MCSessionLifecycle -------------------------
(***************************************************************************)
(* An instance of SessionLifecycle for TLC: chats created by the first of  *)
(* two nodes, which both end and reap them.                                *)
(***************************************************************************)
EXTENDS SessionLifecycle

CONSTANTS n1, n2, s1, s2, none

AllOnFirst == [s \in Sessions |-> n1]
=============================================================================
