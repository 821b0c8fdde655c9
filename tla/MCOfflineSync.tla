----------------------------- MODULE MCOfflineSync -----------------------------
(***************************************************************************)
(* OfflineSync for TLC: an answer, the presentation that depends on it and *)
(* is built again after a reload, and an event of its own.                 *)
(***************************************************************************)
EXTENDS OfflineSync, TLC

CONSTANTS answer, shown, hint

MCDependsOn == [e \in Events |-> IF e = shown THEN {answer} ELSE {}]

Healthy == [e \in Events |-> "none"]

Symmetry == Permutations(Calls)
================================================================================
