-------------------------- MODULE MCVaultContents --------------------------
(***************************************************************************)
(* Instances of VaultContents for TLC.                                     *)
(***************************************************************************)
EXTENDS VaultContents, Passwords, TLC

\* Item keys are interchangeable, and so are UUIDs.
Interchangeable == Permutations(Keys) \cup Permutations(EntryIds)
=============================================================================
