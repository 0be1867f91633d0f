-------------------------- MODULE MCScheduledRuns --------------------------
(***************************************************************************)
(* Instances of ScheduledRuns for TLC: two runs of one node, and three     *)
(* runs on two nodes for the lock they share.  Chats are left to           *)
(* MCSessionLifecycle: runs and chats meet nowhere but in the processes.   *)
(***************************************************************************)
EXTENDS ScheduledRuns

CONSTANTS n1, n2, r1, r2, r3, none

OneNode == [s \in Sessions |-> n1]

\* The second run is on the other node.
Placement == [s \in Sessions |-> IF s = r2 THEN n2 ELSE n1]
=============================================================================
