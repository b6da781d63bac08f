--------------------------- MODULE MCFileWriters ---------------------------
(***************************************************************************)
(* Instances of FileWriters for TLC.                                       *)
(***************************************************************************)
EXTENDS FileWriters, TLC

CONSTANTS p1, p2, d

Twins == Permutations(Creators)

\* The export goes to the file of the other vault, over it if it is there.
OwnStem == p2 :> p2

\* "p1.bak" beside "p1.qvault": the temporary file is that of the vault.
VaultStem == d :> p1
=============================================================================
