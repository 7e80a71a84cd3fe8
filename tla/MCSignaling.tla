----------------------------- MODULE MCSignaling -----------------------------
(***************************************************************************)
(* Signaling for TLC: everyone is in the same room, which is where users   *)
(* meet.                                                                   *)
(***************************************************************************)
EXTENDS Signaling, TLC

CONSTANT TheRoom

AllMessages == Messages
OneRoomId == {TheRoom}
SameRoom == [u \in Users |-> TheRoom]

Symmetry == Permutations(Users) \cup Permutations(Rooms)
=============================================================================
