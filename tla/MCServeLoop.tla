---------------------------- MODULE MCServeLoop -----------------------------
(***************************************************************************)
(* Instances of ServeLoop for TLC.                                         *)
(***************************************************************************)
EXTENDS ServeLoop, TLC

Symmetry == Permutations(Clients)

=============================================================================
