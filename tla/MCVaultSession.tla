--------------------------- MODULE MCVaultSession ---------------------------
(* VaultSession on a small instance: symmetric invocations.                *)
EXTENDS VaultSession, TLC

Symmetry == Permutations(Req)
=============================================================================
