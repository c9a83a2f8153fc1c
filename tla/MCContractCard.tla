--------------------------- MODULE MCContractCard ---------------------------
(* Instances of ContractCard for TLC.                                      *)
EXTENDS ContractCard, TLC
=============================================================================
