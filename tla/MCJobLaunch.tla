----------------------------- MODULE MCJobLaunch -----------------------------
(* Small instances of JobLaunch for TLC. *)
EXTENDS JobLaunch, TLC

CONSTANTS h1, h2

Handlers2 == {h1, h2}
Symmetry2 == Permutations(Handlers2)

Jobs1 == 1..1
Jobs2 == 1..2
=============================================================================
