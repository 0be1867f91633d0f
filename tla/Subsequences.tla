---------------------------- MODULE Subsequences ----------------------------
(***************************************************************************)
(* Selections of a sequence, by a set that says what is selected: the      *)
(* selections of the models, in a form that proofs can follow step by step *)
(* (an operator that is given a predicate cannot be expanded by them).     *)
(***************************************************************************)
EXTENDS Naturals, Sequences

\* Kept(s, S)[i]: the members of S among the first i of s, in their order.
Kept(s, S) ==
    LET kept[i \in 0 .. Len(s)] ==
            IF i = 0 THEN << >>
            ELSE IF s[i] \in S THEN Append(kept[i - 1], s[i])
            ELSE kept[i - 1]
    IN  kept

\* The members of S in s, in their order.
Keep(s, S) == Kept(s, S)[Len(s)]
=============================================================================
