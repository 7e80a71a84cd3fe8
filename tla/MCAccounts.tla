----------------------------- MODULE MCAccounts -----------------------------
(***************************************************************************)
(* Accounts for TLC: two spellings of one address, one of a second, and    *)
(* one that is no address.                                                 *)
(***************************************************************************)
EXTENDS Accounts, TLC

CONSTANTS ann, Ann, bob, nobody

NormalForm == [s \in Spellings |-> CASE s \in {ann, Ann} -> ann
                                     [] s = bob -> bob
                                     [] OTHER -> NoEmail]

Symmetry == Permutations(Requests) \cup Permutations(Codes) \cup Permutations(Passwords)
=============================================================================
