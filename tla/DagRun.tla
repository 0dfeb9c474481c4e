------------------------------- MODULE DagRun -------------------------------
(***************************************************************************)
(* What the tasks of a job promise their author: every task runs once, and *)
(* not before all the tasks it waits for have ended with a route it        *)
(* accepts.  No database, no messages, no job status: TaskFlow implements  *)
(* this with documents that several handlers read and write.               *)
(***************************************************************************)
CONSTANTS
    Task,
    Waits      \* <<t, u>>: t waits for u

VARIABLES
    phase,     \* "waiting", "running" or "ended"
    passed     \* <<u, t>>: u has ended in a way that lets t go on

vars == <<phase, passed>>

Ready(t) == \A u \in Task : <<t, u>> \in Waits => <<u, t>> \in passed

Init == phase = [t \in Task |-> "waiting"] /\ passed = {}

Launch(t) ==
    /\ phase[t] = "waiting"
    /\ Ready(t)
    /\ phase' = [phase EXCEPT ![t] = "running"]
    /\ UNCHANGED passed

\* The route u ends with decides which of its downstream tasks may go on.
End(u) ==
    /\ phase[u] = "running"
    /\ phase' = [phase EXCEPT ![u] = "ended"]
    /\ \E S \in SUBSET {t \in Task : <<t, u>> \in Waits} :
        passed' = passed \cup ({u} \X S)

Next == \E t \in Task : Launch(t) \/ End(t)

Spec == Init /\ [][Next]_vars

\* Ready tasks are launched, and running ones end.
FairSpec == Spec /\ \A t \in Task : WF_vars(Launch(t)) /\ WF_vars(End(t))
=============================================================================
