----------------------------- MODULE MCTaskDefs -----------------------------
(* Small instances of TaskDefs for TLC. *)
EXTENDS TaskDefs, TLC

CONSTANTS h1, h2

Handlers2 == {h1, h2}
Symmetry2 == Permutations(Handlers2)
Defs3 == 1..3
Names3 == 1..3
Names4 == 1..4
=============================================================================
