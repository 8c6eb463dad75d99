---------------------------- MODULE MCVaultStore ----------------------------
(***************************************************************************)
(* VaultStore for TLC.  The processes are interchangeable, so the safety   *)
(* runs use their permutations as symmetry.                                *)
(***************************************************************************)
EXTENDS VaultStoreInv, TLC

ProcSymmetry == Permutations(Procs)
=============================================================================
