---------------------------- MODULE MCMediaRouter ----------------------------
(***************************************************************************)
(* MediaRouter for TLC: two users, three producers, two of them audio,     *)
(* made by either.                                                         *)
(***************************************************************************)
EXTENDS MediaRouter, TLC

CONSTANTS a1, a2, v1

Kinds == [p \in Producers |-> IF p = v1 THEN "video" ELSE "audio"]

Symmetry == Permutations(Users) \cup Permutations({a1, a2})
=============================================================================
