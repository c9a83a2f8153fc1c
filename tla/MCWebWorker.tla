---------------------------- MODULE MCWebWorker ----------------------------
(* Instances of WebWorker for TLC.                                         *)
EXTENDS WebWorker, TLC
=============================================================================
