----------------------------- MODULE MCFrontend -----------------------------
(***************************************************************************)
(* An instance of Frontend for TLC.                                        *)
(***************************************************************************)
EXTENDS Frontend
=============================================================================
