------------------------------ MODULE MCAgents ------------------------------
(* Small instances of Agents for TLC. *)
EXTENDS Agents, TLC

CONSTANTS a1, a2, h1, h2

Agents2 == {a1, a2}
Handlers2 == {h1, h2}
Tasks2 == 1..2
Outcomes3 == 1..3
BothSingle == <<"single", "single">>
SingleSpecific == <<"single", "specific">>
OnA1 == <<NoAgent, a1>>
HandlersOnly == Permutations(Handlers2)
NoTargets == <<NoAgent, NoAgent>>
=============================================================================
