---------------------------- MODULE MCUnlockGate ----------------------------
(* UnlockGate on a small instance: symmetric callers.                      *)
EXTENDS UnlockGate, TLC

Symmetry == Permutations(Callers)
=============================================================================
