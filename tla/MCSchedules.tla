---------------------------- MODULE MCSchedules ----------------------------
(* Small instances of Schedules for TLC. *)
EXTENDS Schedules

CONSTANTS h1, h2

Handlers2 == {h1, h2}
Schedules2 == 1..2
=============================================================================
