----------------------------- MODULE MCClipboard -----------------------------
(* Clipboard on a small instance: symmetric copies.                        *)
EXTENDS Clipboard, TLC

Symmetry == Permutations(Copies)
=============================================================================
