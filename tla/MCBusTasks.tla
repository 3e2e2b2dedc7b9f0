------------------------------ MODULE MCBusTasks ------------------------------
(* Instances of BusTasks for TLC.  No action reads or writes two tasks, so   *)
(* one task and two overlapping requests show every race about a task.       *)
EXTENDS BusTasks, TLC

Symmetry == Permutations(Clients)
===============================================================================
