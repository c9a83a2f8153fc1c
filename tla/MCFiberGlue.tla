---------------------------- MODULE MCFiberGlue -----------------------------
(***************************************************************************)
(* Instances of FiberGlue for TLC.                                         *)
(***************************************************************************)
EXTENDS FiberGlueInv, TLC

\* Jobs are alike, and so are fiber stacks; sound for the safety runs.
Symmetry == Permutations(Jobs) \cup Permutations(Fibers)
=============================================================================
