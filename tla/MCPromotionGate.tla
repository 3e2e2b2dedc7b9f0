--------------------------- MODULE MCPromotionGate ---------------------------
(* Instances of PromotionGate for TLC: two proposals with a file in common.  *)
EXTENDS PromotionGate, TLC

CONSTANTS p1, p2, f1, f2, f3

Shared == (p1 :> {f1, f2}) @@ (p2 :> {f2, f3})
===============================================================================
