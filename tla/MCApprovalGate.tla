--------------------------- MODULE MCApprovalGate ---------------------------
(***************************************************************************)
(* Instances of ApprovalGate for TLC.  Two gated calls in progress at the  *)
(* same time are enough for every race between handlers, administrators,   *)
(* monitor and clocks: the actions touch one call each, except for the     *)
(* monitor's sweep, which takes several.  A call that needs no approval    *)
(* touches nothing of these.                                               *)
(***************************************************************************)
EXTENDS ApprovalGate

CONSTANTS c1, c2

GatedPair == {c1, c2}
=============================================================================
