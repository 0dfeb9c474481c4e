--------------------------- MODULE MCScriptEditing ---------------------------
(* Small instances of ScriptEditing for TLC. *)
EXTENDS ScriptEditing

CONSTANTS t1, t2, u1, u2

EachHisOwn == [t \in Tab |-> IF t = t1 THEN u1 ELSE u2]
=============================================================================
