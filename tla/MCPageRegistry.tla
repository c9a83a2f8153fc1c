--------------------------- MODULE MCPageRegistry ---------------------------
(* The instance of PageRegistry for TLC.                                   *)
EXTENDS PageRegistry
=============================================================================
