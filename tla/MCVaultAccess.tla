---------------------------- MODULE MCVaultAccess -----------------------------
(***************************************************************************)
(* Small instances of VaultAccess for TLC.                                 *)
(***************************************************************************)
EXTENDS Biometrics, TLC

Symmetry == Permutations(Reqs)
=============================================================================
