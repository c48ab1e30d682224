------------------------------ MODULE MCAccounts ------------------------------
(***************************************************************************)
(* A small instance of Accounts for TLC.                                   *)
(***************************************************************************)
EXTENDS Accounts, TLC

Symmetry == Permutations(Reqs) \cup Permutations(Emails) \cup Permutations(Tickets)
=============================================================================
