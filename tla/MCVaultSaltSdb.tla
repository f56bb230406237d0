--------------------------- MODULE MCVaultSaltSdb ---------------------------
(* Model values and symmetry for the runs of VaultSaltSdb.                   *)
EXTENDS VaultSaltSdb, TLC

Symmetry == Permutations(Contexts)
=============================================================================
