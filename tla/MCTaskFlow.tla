----------------------------- MODULE MCTaskFlow -----------------------------
(* Small instances of TaskFlow for TLC. *)
EXTENDS TaskFlow, TLC

CONSTANTS h1, h2

Handlers2 == {h1, h2}
Symmetry2 == Permutations(Handlers2)

Tasks3 == 1..3
Outcomes3 == 1..3
Outcomes4 == 1..4
Outcomes6 == 1..6

None == {}

\* 1 and 2 before 3.
Join == {<<3, 1, "default">>, <<3, 2, "default">>}

\* 2 waits for 1 to choose "ok"; 1 sends its route to 3 if it is "no".
Fork == {<<2, 1, "ok">>}
ToThree == {<<1, 3, "no">>}
=============================================================================
