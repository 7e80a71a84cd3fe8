---------------------------- MODULE MCRetryQueue ----------------------------
(***************************************************************************)
(* RetryQueue for TLC: a service that answers and one that need not.       *)
(***************************************************************************)
EXTENDS RetryQueue
=============================================================================
