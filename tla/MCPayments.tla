----------------------------- MODULE MCPayments -----------------------------
(* Small instances of Payments for TLC. *)
EXTENDS Payments, TLC

CONSTANTS p1, p2

Payers2 == {p1, p2}
Symmetry2 == Permutations(Payers2)
Invoices2 == 1..2
\* The first can be paid in parts twice before the rest is due.
Bills31 == <<3, 1>>
=============================================================================
