-------------------------- MODULE MCRequestChannel --------------------------
(***************************************************************************)
(* RequestChannel for TLC.  Calls, connections, streams and worker ids are *)
(* interchangeable, so the safety run uses symmetry; the run that checks   *)
(* liveness and refinement does not.                                       *)
(***************************************************************************)
EXTENDS RequestChannel, TLC

Symmetry == Permutations(Calls) \cup Permutations(Conns)
                \cup Permutations(Streams) \cup Permutations(Workers)
=============================================================================
