------------------------------ MODULE MCToolGate ------------------------------
(* Instances of ToolGate for TLC.                                            *)
EXTENDS ToolGate, TLC

Symmetry == Permutations(Ids)
===============================================================================
