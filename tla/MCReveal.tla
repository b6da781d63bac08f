------------------------------ MODULE MCReveal ------------------------------
(***************************************************************************)
(* Instances of Reveal for TLC.                                            *)
(***************************************************************************)
EXTENDS Reveal, TLC

=============================================================================
