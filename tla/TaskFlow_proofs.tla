--------------------------- MODULE TaskFlow_proofs ---------------------------
(***************************************************************************)
(* Theorems about TaskFlow, for any tasks and routes, any outcomes, any    *)
(* number of call chains at a time and any kinds of request.               *)
(*                                                                         *)
(* The invariant has four parts.  TypeInv: the types, and what the locals  *)
(* satisfy at each point of the code (`Fits').  ServeInv: which requests a *)
(* point serves.  JoinInv: up_dep is what has not been matched, and what   *)
(* a chain is about to publish awaits nobody.  ReportInv: at most one      *)
(* report on an outcome is handled at a time, and how far the agent and    *)
(* the outcome's status then are.  OnceInv, PlainInv and HeardInv, further *)
(* on, are for jobs with fewer kinds of request.                           *)
(*                                                                         *)
(* Every action has a `Turn' lemma, that says what the step does to the    *)
(* locals of its chain; the invariants' own lemmas rest on it.             *)
(***************************************************************************)
EXTENDS TaskFlow, FiniteSetTheorems, SequenceTheorems, TLAPS

ReportSteps == {"put", "cancelled", "down", "downing", "skipread", "skipwrite", "launching",
                "after", "republish", "finish"}
Backs == {"idle", "published", "send", "started", "waitlist"}
Thens == {"idle", "starting", "waiting", "launching", "finish", "restarting"}

\* What the locals f satisfy at a point, given the outcomes that exist.
Fits(at, f, docs) ==
    /\ f.op = "report" => f.of \in docs
    /\ at \in ReportSteps \/ f.then \in ReportSteps => f.op = "report"
    /\ f.back \in Backs /\ f.then \in Thens
    /\ f.todoOut \subseteq docs
    /\ at = "write" => f.job \in JobStatus
    /\ at = "skipwrite" => f.skip # <<>>
    /\ at \in {"route", "save", "take", "reset"} => f.task \in Task

DocumentsOK ==
    /\ taskStatus \in [Task -> TaskStatus]
    /\ upDep \in [Task -> SUBSET Task]
    /\ jobStatus \in JobStatus
    /\ outcome \in [Outcome -> [task : Task \cup {NoTask}, status : TaskStatus, route : Route]]
    /\ agent \in [Outcome -> {"none", "queued", "running", "done"}]
    /\ started \in BOOLEAN
    /\ matched \subseteq Task \X Task

FramesOK ==
    /\ pc \in [Handler -> Steps]
    /\ frame \in [Handler -> Frame]
    /\ \A h \in Handler : Fits(pc[h], frame[h], Existing)

TypeInv == DocumentsOK /\ FramesOK

-----------------------------------------------------------------------------
\* Which requests a point of the code serves.
Serves(at, f) ==
    /\ at \in {"begin", "snapshot", "starting", "started"} \/ f.then = "starting" \/ f.back = "started"
         => f.op \in {"start", "restart"}
    /\ at \in {"reread", "waitlist", "waiting", "take"} \/ f.then = "waiting" \/ f.back = "waitlist"
         => f.op \in {"report", "waiting"}
    /\ at \in {"restartlist", "restarting", "reset"} \/ f.then = "restarting"
         => f.op \in {"restart", "restartoutcome"}
    /\ at \in {"canceltasks", "interrupttasks", "stoptasks", "stopping"} => f.op \in {"cancel", "interrupt"}
    /\ at = "idle" <=> f.op = "none"

ServeInv == \A h \in Handler : Serves(pc[h], frame[h])

-----------------------------------------------------------------------------
\* A task that may be published: it awaits nobody, or is the target of a route.
Free(t) == t \in RouteTargets \/ upDep[t] = {}

\* The tasks a chain is going to publish are free.
Ready(f) ==
    /\ f.task # NoTask => Free(f.task)
    /\ \A t \in f.launch \cup f.launchTo : Free(t)
    /\ f.op \in {"start", "restart"} => \A t \in f.todo : Free(t)

JoinInv ==
    /\ \A t \in Task : upDep[t] = {u \in Upstream(t) : <<u, t>> \notin matched}
    /\ \A o \in Existing : Free(outcome[o].task)
    /\ \A h \in Handler : Ready(frame[h])

-----------------------------------------------------------------------------
Reports(h) == frame[h].op = "report"
Sending(h) == pc[h] \in {"recheck", "cancelnew", "send"} \/ frame[h].back = "send"
Over == {INTERRUPTED, SUCCEEDED, CANCELLED, FAILED}

\* The outcome a chain has just created has not been sent, and the one it reports on
\* has the agent and the status that go with the report.
Sound(h) ==
    /\ frame[h].out # NoOutcome => frame[h].out \in Existing
    /\ Sending(h) => frame[h].out \in Existing /\ agent[frame[h].out] = "none"
    /\ Reports(h) =>
        /\ agent[frame[h].of] \in {"running", "done"}
        /\ frame[h].new \notin {RUNNING, NULL} => agent[frame[h].of] = "done"
        /\ pc[h] = "put" => outcome[frame[h].of].status \notin Over
        /\ pc[h] # "put" /\ frame[h].new \notin {SUCCEEDED, NULL}
             => outcome[frame[h].of].status # SUCCEEDED
        /\ pc[h] = "cancelled" => frame[h].new = INTERRUPTED

ReportInv ==
    /\ \A g, h \in Handler : Reports(g) /\ Reports(h) /\ frame[g].of = frame[h].of => g = h
    /\ \A g, h \in Handler : frame[g].out = frame[h].out /\ frame[h].out # NoOutcome => g = h
    /\ \A h \in Handler : Sound(h)
    /\ \A o \in Outcome \ Existing : agent[o] = "none" /\ outcome[o].status = NULL
    /\ \A o \in Existing : outcome[o].status \in Over => agent[o] = "done"

USE ConstantsAssumption

-----------------------------------------------------------------------------
LEMMA EmptyFrameFits ==
    /\ EmptyFrame \in Frame
    /\ \A docs : \A at \in Steps : at \notin ReportSteps \cup {"write", "skipwrite", "route", "save", "take", "reset"}
          => Fits(at, EmptyFrame, docs)
<1>1. <<>> \in Seq(Task)
  OBVIOUS
<1>2. EmptyFrame \in Frame
  BY <1>1 DEF EmptyFrame, Frame, TaskStatus, Steps, Route
<1>3. ASSUME NEW docs, NEW at \in Steps, at \notin ReportSteps \cup {"write", "skipwrite", "route", "save", "take", "reset"}
      PROVE Fits(at, EmptyFrame, docs)
  BY <1>3 DEF EmptyFrame, Fits, ReportSteps, Backs, Thens
<1>. QED BY <1>2, <1>3

LEMMA FrameFields ==
    ASSUME NEW f \in Frame
    PROVE  /\ f.op \in {"none", "start", "report", "waiting", "restart", "cancel", "interrupt", "restartoutcome"}
           /\ f.of \in Outcome \cup {NoOutcome} /\ f.new \in TaskStatus /\ f.route \in Route
           /\ f.job \in JobStatus \cup {NULL} /\ f.kept \in JobStatus \cup {NULL}
           /\ f.present \subseteq TaskStatus /\ f.covered \subseteq Task
           /\ f.back \in Steps /\ f.then \in Steps /\ f.task \in Task \cup {NoTask} /\ f.local \in TaskStatus
           /\ f.out \in Outcome \cup {NoOutcome} /\ f.any \in BOOLEAN
           /\ f.todo \subseteq Task /\ f.todoOut \subseteq Outcome /\ f.down \subseteq Task
           /\ f.launchTo \subseteq Task /\ f.launch \subseteq Task /\ f.skip \in Seq(Task)
BY DEF Frame

\* A chain goes on: its locals fit the next point, and the others' theirs.
LEMMA GoFits ==
    ASSUME TypeInv, NEW h \in Handler, NEW next \in Steps, NEW f \in Frame, Go(h, next, f),
           Existing \subseteq Existing', next # "idle" => Fits(next, f, Existing')
    PROVE  FramesOK'
<1>. DEFINE g == IF next = "idle" THEN EmptyFrame ELSE f
<1>1. pc' = [pc EXCEPT ![h] = next] /\ frame' = [frame EXCEPT ![h] = g] /\ g \in Frame
  BY EmptyFrameFits DEF Go
<1>2. pc' \in [Handler -> Steps] /\ frame' \in [Handler -> Frame]
  BY <1>1 DEF TypeInv, FramesOK
<1>3. Fits(next, g, Existing')
  BY EmptyFrameFits DEF ReportSteps
<1>4. ASSUME NEW q \in Handler PROVE Fits(pc'[q], frame'[q], Existing')
  <2>1. Fits(pc[q], frame[q], Existing)
    BY DEF TypeInv, FramesOK
  <2>2. CASE q = h
    BY <1>1, <1>3, <2>2 DEF TypeInv, FramesOK
  <2>3. CASE q # h
    <3>1. pc'[q] = pc[q] /\ frame'[q] = frame[q]
      BY <1>1, <2>3 DEF TypeInv, FramesOK
    <3>. QED BY <2>1, <3>1 DEF Fits
  <2>. QED BY <2>2, <2>3
<1>. QED BY <1>2, <1>4 DEF FramesOK

\* A chain goes on from where it stands, and its locals fit where it goes.
Moves(h) == \E next \in Steps, f \in Frame :
    Go(h, next, f) /\ (next # "idle" => Fits(next, f, Existing'))

LEMMA MovesFit ==
    ASSUME TypeInv, NEW h \in Handler, Moves(h), Existing \subseteq Existing'
    PROVE  FramesOK'
BY GoFits DEF Moves

\* What is known of a chain.
LEMMA ChainFits ==
    ASSUME TypeInv, NEW h \in Handler
    PROVE  pc[h] \in Steps /\ frame[h] \in Frame /\ Fits(pc[h], frame[h], Existing)
BY DEF TypeInv, FramesOK

\* Steps that write no document.
LEMMA SameDocuments ==
    ASSUME TypeInv, UNCHANGED docVars
    PROVE  /\ Existing' = Existing /\ Existing \subseteq Existing'
           /\ agent' = agent /\ started' = started /\ matched' = matched => DocumentsOK'
BY DEF TypeInv, DocumentsOK, docVars, Existing

LEMMA SameOutcomes == ASSUME outcome' = outcome PROVE Existing' = Existing /\ Existing \subseteq Existing'
BY DEF Existing

-----------------------------------------------------------------------------
(***************************************************************************)
(* UpdateJobStatus keeps the types                                         *)
(***************************************************************************)
\* The job status computed is one a job can have, or the one given.
LEMMA CheckedStatus ==
    ASSUME NEW current, NEW present
    PROVE  CheckJobStatus(current, present) \in JobStatus \cup {current}
BY DEF CheckJobStatus, JobStatus

LEMMA ReadJobType == ASSUME TypeInv, NEW h \in Handler, ReadJob(h) PROVE TypeInv'
<1>. DEFINE f == [frame[h] EXCEPT !.job = jobStatus]
<1>0. frame[h] \in Frame /\ Fits(pc[h], frame[h], Existing) /\ DocumentsOK
  BY ChainFits DEF TypeInv
<1>1. DocumentsOK' /\ Existing' = Existing
  BY SameDocuments DEF ReadJob
<1>2. f \in Frame
  BY <1>0 DEF Frame, DocumentsOK
<1>3. Fits("outcomes", f, Existing)
  BY <1>0 DEF ReadJob, Fits, Frame, ReportSteps
<1>. QED BY <1>1, <1>2, <1>3, MovesFit DEF ReadJob, Moves, Steps, TypeInv

LEMMA ReadOutcomesType == ASSUME TypeInv, NEW h \in Handler, ReadOutcomes(h) PROVE TypeInv'
<1>. DEFINE f == [frame[h] EXCEPT !.present = {outcome[o].status : o \in Existing},
                                  !.covered = {outcome[o].task : o \in Existing}]
<1>0. frame[h] \in Frame /\ Fits(pc[h], frame[h], Existing) /\ DocumentsOK
  BY ChainFits DEF TypeInv
<1>1. DocumentsOK' /\ Existing' = Existing
  BY SameDocuments DEF ReadOutcomes
<1>2. f \in Frame
  <2>1. {outcome[o].status : o \in Existing} \subseteq TaskStatus
    BY DEF TypeInv, DocumentsOK, Existing
  <2>2. {outcome[o].task : o \in Existing} \subseteq Task
    BY DEF TypeInv, DocumentsOK, Existing
  <2>. QED BY <2>1, <2>2, <1>0 DEF Frame
<1>3. Fits("tasks", f, Existing)
  BY <1>0 DEF ReadOutcomes, Fits, Frame, ReportSteps
<1>. QED BY <1>1, <1>2, <1>3, MovesFit DEF ReadOutcomes, Moves, Steps, TypeInv

LEMMA ReadTasksType == ASSUME TypeInv, NEW h \in Handler, ReadTasks(h) PROVE TypeInv'
<1>. DEFINE f == frame[h]
            others == {t \in WithoutOutcome(f.covered) : taskStatus[t] \in Counted}
            status == CheckJobStatus(f.job, f.present \cup {CountAs(taskStatus[t]) : t \in others})
            g == [f EXCEPT !.present = {}, !.covered = {}, !.job = status]
            next == IF status = f.job THEN f.back ELSE "write"
<1>0. frame[h] \in Frame /\ Fits(pc[h], frame[h], Existing) /\ DocumentsOK
  BY ChainFits DEF TypeInv
<1>1. DocumentsOK' /\ Existing' = Existing
  BY SameDocuments DEF ReadTasks
<1>2. status \in JobStatus \cup {f.job}
  BY CheckedStatus
<1>. HIDE DEF status
<1>3. g \in Frame
  BY <1>2, <1>0 DEF Frame
<1>4. next \in Steps /\ Fits(next, g, Existing)
  BY <1>2, <1>0 DEF ReadTasks, Fits, Frame, ReportSteps, Backs, Steps
<1>5. Go(h, next, g)
  BY DEF ReadTasks, status
<1>. QED BY <1>1, <1>3, <1>4, <1>5, MovesFit DEF Moves, TypeInv

LEMMA WriteJobType == ASSUME TypeInv, NEW h \in Handler, WriteJob(h) PROVE TypeInv'
<1>. DEFINE f == frame[h]
            next == IF f.back = "waitlist" THEN "reread" ELSE f.back
<1>0. frame[h] \in Frame /\ Fits(pc[h], frame[h], Existing) /\ DocumentsOK
  BY ChainFits DEF TypeInv
<1>1. DocumentsOK' /\ Existing' = Existing
  BY <1>0, SameOutcomes DEF WriteJob, Fits, TypeInv, DocumentsOK
<1>2. next \in Steps /\ Fits(next, f, Existing)
  BY <1>0 DEF WriteJob, Fits, Frame, ReportSteps, Backs, Steps
<1>. QED BY <1>1, <1>2, <1>0, MovesFit DEF WriteJob, Moves, TypeInv

LEMMA RereadJobType == ASSUME TypeInv, NEW h \in Handler, RereadJob(h) PROVE TypeInv'
<1>. DEFINE f == [frame[h] EXCEPT !.job = jobStatus]
<1>0. frame[h] \in Frame /\ Fits(pc[h], frame[h], Existing) /\ DocumentsOK
  BY ChainFits DEF TypeInv
<1>1. DocumentsOK' /\ Existing' = Existing
  BY SameDocuments DEF RereadJob
<1>2. f \in Frame
  BY <1>0 DEF Frame, DocumentsOK
<1>3. frame[h].back \in Steps /\ Fits(frame[h].back, f, Existing)
  BY <1>0 DEF RereadJob, Fits, Frame, ReportSteps, Backs, Steps
<1>. QED BY <1>1, <1>2, <1>3, MovesFit DEF RereadJob, Moves, TypeInv
-----------------------------------------------------------------------------
(***************************************************************************)
(* ... PublishTask ...                                                     *)
(***************************************************************************)
LEMMA StatusNames ==
    {NULL, NOT_STARTED, WAITING_FOR_AGENT, PUBLISHED, RUNNING, INTERRUPTING, INTERRUPTED,
     CANCELING, SUCCEEDED, CANCELLED, FAILED, SKIPPED} \subseteq TaskStatus
BY DEF TaskStatus

\* Steps that set the status of one task.
LEMMA SetTaskType ==
    ASSUME TypeInv, NEW t, NEW s \in TaskStatus, SetTask(t, s),
           UNCHANGED <<upDep, jobStatus, outcome, agent, started, matched>>
    PROVE  DocumentsOK' /\ Existing' = Existing
BY DEF SetTask, TypeInv, DocumentsOK, Existing

\* Steps that set the status of one outcome.
LEMMA SetOutcomeType ==
    ASSUME TypeInv, NEW o, NEW s \in TaskStatus, SetOutcome(o, s),
           UNCHANGED <<taskStatus, upDep, jobStatus, agent, started, matched>>
    PROVE  DocumentsOK' /\ Existing' = Existing
<1>1. /\ outcome' \in [Outcome -> [task : Task \cup {NoTask}, status : TaskStatus, route : Route]]
      /\ \A p \in Outcome : outcome'[p].task = outcome[p].task
  BY DEF SetOutcome, TypeInv, DocumentsOK
<1>. QED BY <1>1 DEF TypeInv, DocumentsOK, Existing

LEMMA RouteToAgentType == ASSUME TypeInv, NEW h \in Handler, RouteToAgent(h) PROVE TypeInv'
<1>. DEFINE f == frame[h]
<1>1. frame[h] \in Frame /\ Fits(pc[h], frame[h], Existing) /\ DocumentsOK
  BY ChainFits DEF TypeInv
<1>2. DocumentsOK' /\ Existing' = Existing
  BY <1>1, SetTaskType, StatusNames DEF RouteToAgent
<1>3. Fits("save", f, Existing')
  BY <1>1, <1>2 DEF RouteToAgent, Fits, Frame, ReportSteps
<1>. QED BY <1>1, <1>2, <1>3, MovesFit DEF RouteToAgent, Moves, Steps, TypeInv

LEMMA RouteFailsType == ASSUME TypeInv, NEW h \in Handler, RouteFails(h) PROVE TypeInv'
<1>. DEFINE f == frame[h]
            g == [f EXCEPT !.back = "published"]
<1>1. frame[h] \in Frame /\ Fits(pc[h], frame[h], Existing) /\ DocumentsOK
  BY ChainFits DEF TypeInv
<1>2. DocumentsOK' /\ Existing' = Existing
  BY <1>1, SetTaskType, StatusNames DEF RouteFails
<1>3. g \in Frame
  BY <1>1 DEF Frame, Steps
<1>4. Fits("readjob", g, Existing')
  BY <1>1, <1>2 DEF RouteFails, Fits, Frame, ReportSteps, Backs
<1>. QED BY <1>1, <1>2, <1>3, <1>4, MovesFit DEF RouteFails, Moves, Steps, TypeInv, UpdateJobStatus

LEMMA CreateTaskOutcomeType == ASSUME TypeInv, NEW h \in Handler, CreateTaskOutcome(h) PROVE TypeInv'
<1>1. PICK o \in Unused : /\ outcome' = [outcome EXCEPT ![o] = [task |-> frame[h].task, status |-> PUBLISHED, route |-> ""]]
                        /\ Go(h, "recheck", [frame[h] EXCEPT !.out = o])
  BY DEF CreateTaskOutcome
<1>. DEFINE f == frame[h]
            g == [f EXCEPT !.out = o]
<1>2. frame[h] \in Frame /\ Fits(pc[h], frame[h], Existing) /\ DocumentsOK
  BY ChainFits DEF TypeInv
<1>3. DocumentsOK' /\ Existing \subseteq Existing'
  BY <1>1, <1>2, StatusNames DEF CreateTaskOutcome, DocumentsOK, Existing, Unused, Route, Frame
<1>4. g \in Frame
  BY <1>1, <1>2 DEF Frame, Unused
<1>5. Fits("recheck", g, Existing')
  BY <1>1, <1>2, <1>3 DEF CreateTaskOutcome, Fits, Frame, ReportSteps
<1>. QED BY <1>1, <1>2, <1>3, <1>4, <1>5, MovesFit DEF CreateTaskOutcome, Moves, Steps, TypeInv

LEMMA RecheckTaskType == ASSUME TypeInv, NEW h \in Handler, RecheckTask(h) PROVE TypeInv'
<1>. DEFINE f == frame[h]
            g == [f EXCEPT !.back = "send"]
<1>1. frame[h] \in Frame /\ Fits(pc[h], frame[h], Existing) /\ DocumentsOK
  BY ChainFits DEF TypeInv
<1>2. DocumentsOK' /\ Existing' = Existing
  BY <1>1, SameDocuments DEF RecheckTask
<1>3. Fits("cancelnew", f, Existing')
  BY <1>1, <1>2 DEF RecheckTask, Fits, Frame, ReportSteps
<1>4. g \in Frame
  BY <1>1 DEF Frame, Steps
<1>5. Fits("readjob", g, Existing')
  BY <1>1, <1>2 DEF RecheckTask, Fits, Frame, ReportSteps, Backs
<1>. QED BY <1>1, <1>2, <1>3, <1>4, <1>5, MovesFit DEF RecheckTask, Moves, Steps, TypeInv, UpdateJobStatus

LEMMA CancelNewOutcomeType == ASSUME TypeInv, NEW h \in Handler, CancelNewOutcome(h) PROVE TypeInv'
<1>. DEFINE f == frame[h]
            g == [f EXCEPT !.back = "send"]
<1>1. frame[h] \in Frame /\ Fits(pc[h], frame[h], Existing) /\ DocumentsOK
  BY ChainFits DEF TypeInv
<1>2. DocumentsOK' /\ Existing' = Existing
  BY <1>1, SetOutcomeType, StatusNames, SameOutcomes DEF CancelNewOutcome, DocumentsOK
<1>3. Fits("published", f, Existing')
  BY <1>1, <1>2 DEF CancelNewOutcome, Fits, Frame, ReportSteps
<1>4. g \in Frame
  BY <1>1 DEF Frame, Steps
<1>5. Fits("readjob", g, Existing')
  BY <1>1, <1>2 DEF CancelNewOutcome, Fits, Frame, ReportSteps, Backs
<1>. QED BY <1>1, <1>2, <1>3, <1>4, <1>5, MovesFit DEF CancelNewOutcome, Moves, Steps, TypeInv, UpdateJobStatus

LEMMA SendToAgentType == ASSUME TypeInv, NEW h \in Handler, SendToAgent(h) PROVE TypeInv'
<1>. DEFINE f == frame[h]
            g == [f EXCEPT !.any = TRUE, !.back = "published"]
<1>1. frame[h] \in Frame /\ Fits(pc[h], frame[h], Existing) /\ DocumentsOK
  BY ChainFits DEF TypeInv
<1>2. DocumentsOK' /\ Existing' = Existing
  BY <1>1, SameOutcomes DEF SendToAgent, DocumentsOK, docVars
<1>3. g \in Frame
  BY <1>1 DEF Frame, Steps
<1>4. Fits("readjob", g, Existing')
  BY <1>1, <1>2 DEF SendToAgent, Fits, Frame, ReportSteps, Backs
<1>. QED BY <1>1, <1>2, <1>3, <1>4, MovesFit DEF SendToAgent, Moves, Steps, TypeInv, UpdateJobStatus

LEMMA PublishedType == ASSUME TypeInv, NEW h \in Handler, Published(h) PROVE TypeInv'
<1>. DEFINE f == frame[h]
            g == [f EXCEPT !.task = NoTask, !.local = NULL, !.out = NoOutcome,
                            !.then = "idle", !.job = NULL, !.back = "idle"]
<1>1. frame[h] \in Frame /\ Fits(pc[h], frame[h], Existing) /\ DocumentsOK
  BY ChainFits DEF TypeInv
<1>2. DocumentsOK' /\ Existing' = Existing
  BY <1>1, SameDocuments DEF Published
<1>3. g \in Frame
  BY <1>1 DEF Frame, Steps, TaskStatus
<1>4. f.then \in Steps /\ (f.then # "idle" => Fits(f.then, g, Existing'))
  BY <1>1, <1>2 DEF Published, Fits, Frame, ReportSteps, Steps, Backs, Thens
<1>. QED BY <1>1, <1>2, <1>3, <1>4, MovesFit DEF Published, Moves, Steps, TypeInv

-----------------------------------------------------------------------------
(***************************************************************************)
(* ... the launch of the tasks without upstream tasks ...                  *)
(***************************************************************************)
LEMMA LaunchJobType == ASSUME TypeInv, NEW h \in Handler, LaunchJob(h) PROVE TypeInv'
<1>. DEFINE g == [EmptyFrame EXCEPT !.op = "start"]
<1>1. frame[h] \in Frame /\ Fits(pc[h], frame[h], Existing) /\ DocumentsOK
  BY ChainFits DEF TypeInv
<1>2. EmptyFrame \in Frame /\ Fits("begin", EmptyFrame, Existing)
  BY <1>1, EmptyFrameFits DEF Steps, ReportSteps
<1>3. DocumentsOK' /\ Existing' = Existing
  BY <1>1, <1>2, SameOutcomes DEF LaunchJob, DocumentsOK, docVars
<1>4. g \in Frame
  BY <1>1, <1>2 DEF Frame
<1>5. Fits("begin", g, Existing')
  BY <1>1, <1>2, <1>3 DEF LaunchJob, Fits, Frame, ReportSteps, EmptyFrame
<1>. QED BY <1>1, <1>3, <1>4, <1>5, MovesFit DEF LaunchJob, Moves, Steps, TypeInv

LEMMA BeginTasksType == ASSUME TypeInv, NEW h \in Handler, BeginTasks(h) PROVE TypeInv'
<1>. DEFINE g == [frame[h] EXCEPT !.kept = jobStatus]
<1>1. frame[h] \in Frame /\ Fits(pc[h], frame[h], Existing) /\ DocumentsOK
  BY ChainFits DEF TypeInv
<1>2. DocumentsOK' /\ Existing' = Existing
  BY <1>1, SameDocuments DEF BeginTasks
<1>3. g \in Frame
  BY <1>1 DEF Frame, DocumentsOK
<1>4. Fits("snapshot", g, Existing')
  BY <1>1, <1>2 DEF BeginTasks, Fits, Frame, ReportSteps
<1>. QED BY <1>1, <1>2, <1>3, <1>4, MovesFit DEF BeginTasks, Moves, Steps, TypeInv

LEMMA SnapshotTasksType == ASSUME TypeInv, NEW h \in Handler, SnapshotTasks(h) PROVE TypeInv'
<1>. DEFINE g == [frame[h] EXCEPT !.any = FALSE,
                                  !.todo = {t \in Task : Root(t) /\ taskStatus[t] = NULL}]
<1>1. frame[h] \in Frame /\ Fits(pc[h], frame[h], Existing) /\ DocumentsOK
  BY ChainFits DEF TypeInv
<1>2. DocumentsOK' /\ Existing' = Existing
  BY <1>1, SameDocuments DEF SnapshotTasks
<1>3. g \in Frame
  BY <1>1 DEF Frame
<1>4. Fits("starting", g, Existing')
  BY <1>1, <1>2 DEF SnapshotTasks, Fits, Frame, ReportSteps
<1>. QED BY <1>1, <1>2, <1>3, <1>4, MovesFit DEF SnapshotTasks, Moves, Steps, TypeInv

LEMMA StartTaskType == ASSUME TypeInv, NEW h \in Handler, StartTask(h) PROVE TypeInv'
<1>1. PICK t \in frame[h].todo : /\ IF taskStatus[t] = NULL THEN SetTask(t, NOT_STARTED) ELSE UNCHANGED taskStatus
                             /\ Publish(h, [frame[h] EXCEPT !.todo = frame[h].todo \ {t}], t, NOT_STARTED, "starting")
  BY DEF StartTask
<1>. DEFINE f == frame[h]
            g == [f EXCEPT !.todo = f.todo \ {t}]
            p == [g EXCEPT !.task = t, !.local = NOT_STARTED, !.then = "starting"]
<1>2. frame[h] \in Frame /\ Fits(pc[h], frame[h], Existing) /\ DocumentsOK
  BY ChainFits DEF TypeInv
<1>3. DocumentsOK' /\ Existing' = Existing
  BY <1>1, <1>2, SetTaskType, StatusNames, SameDocuments DEF StartTask, docVars
<1>4. g \in Frame
  BY <1>1, <1>2 DEF Frame
<1>5. p \in Frame
  BY <1>1, <1>2 DEF Frame, Thens, Steps, TaskStatus
<1>6. Fits("route", p, Existing')
  BY <1>1, <1>2, <1>3 DEF StartTask, Fits, Frame, ReportSteps, Thens
<1>. QED BY <1>1, <1>2, <1>3, <1>4, <1>5, <1>6, MovesFit DEF StartTask, Moves, Steps, TypeInv, Publish

LEMMA TasksStartedType == ASSUME TypeInv, NEW h \in Handler, TasksStarted(h) PROVE TypeInv'
<1>. DEFINE f == frame[h]
            g == [f EXCEPT !.job = f.kept, !.back = "started"]
<1>1. frame[h] \in Frame /\ Fits(pc[h], frame[h], Existing) /\ DocumentsOK
  BY ChainFits DEF TypeInv
<1>2. DocumentsOK' /\ Existing' = Existing
  BY <1>1, SameDocuments DEF TasksStarted
<1>3. Fits("started", f, Existing')
  BY <1>1, <1>2 DEF TasksStarted, Fits, Frame, ReportSteps
<1>4. g \in Frame
  BY <1>1 DEF Frame, Steps
<1>5. Fits("outcomes", g, Existing')
  BY <1>1, <1>2 DEF TasksStarted, Fits, Frame, ReportSteps, Backs
<1>. QED BY <1>1, <1>2, <1>3, <1>4, <1>5, MovesFit DEF TasksStarted, Moves, Steps, TypeInv, UpdatePassedJob

LEMMA StartEndsType == ASSUME TypeInv, NEW h \in Handler, StartEnds(h) PROVE TypeInv'
<1>. DEFINE f == frame[h]
            g == [f EXCEPT !.job = RUNNING, !.back = "idle"]
<1>1. frame[h] \in Frame /\ Fits(pc[h], frame[h], Existing) /\ DocumentsOK
  BY ChainFits DEF TypeInv
<1>2. DocumentsOK' /\ Existing' = Existing
  BY <1>1, SameDocuments DEF StartEnds
<1>3. g \in Frame
  BY <1>1 DEF Frame, Steps, JobStatus
<1>4. Fits("outcomes", g, Existing')
  BY <1>1, <1>2 DEF StartEnds, Fits, Frame, ReportSteps, Backs
<1>. QED BY <1>1, <1>2, <1>3, <1>4, MovesFit DEF StartEnds, Moves, Steps, TypeInv, UpdatePassedJob

\* A report is written into its outcome.
LEMMA SetReportType ==
    ASSUME TypeInv, NEW o, NEW s \in TaskStatus, NEW r \in Route,
           outcome' = [outcome EXCEPT ![o].status = s, ![o].route = r],
           UNCHANGED <<taskStatus, upDep, jobStatus, agent, started, matched>>
    PROVE  DocumentsOK' /\ Existing' = Existing
<1>1. /\ outcome' \in [Outcome -> [task : Task \cup {NoTask}, status : TaskStatus, route : Route]]
      /\ \A p \in Outcome : outcome'[p].task = outcome[p].task
  BY DEF TypeInv, DocumentsOK
<1>. QED BY <1>1 DEF TypeInv, DocumentsOK, Existing

-----------------------------------------------------------------------------
(***************************************************************************)
(* ... reports and tasks that wait for an agent ...                        *)
(***************************************************************************)
\* What an agent reports.
LEMMA ReportValues ==
    ASSUME NEW o, NEW r \in Report(o)
    PROVE  /\ r[2] \in Route
           /\ \/ r[1] = RUNNING /\ agent[o] = "queued"
              \/ r[1] \in {FAILED, SUCCEEDED, INTERRUPTED} /\ agent[o] = "running"
<1>1. CASE agent[o] = "queued"
  <2>1. r = <<RUNNING, "">>
    BY <1>1 DEF Report
  <2>2. r[1] = RUNNING /\ r[2] = ""
    BY <2>1
  <2>. QED BY <1>1, <2>2 DEF Route
<1>2. CASE agent[o] # "queued"
  <2>1. agent[o] = "running"
    BY <1>2 DEF Report
  <2>2. CASE r = <<FAILED, "fail">> \/ r = <<INTERRUPTED, "interrupt">>
    <3>1. r[1] \in {FAILED, INTERRUPTED} /\ r[2] \in {"fail", "interrupt"}
      BY <2>2
    <3>. QED BY <2>1, <3>1 DEF Route
  <2>3. CASE r \in {<<SUCCEEDED, route>> : route \in UserRoutes}
    <3>1. PICK route \in UserRoutes : r = <<SUCCEEDED, route>>
      BY <2>3
    <3>. QED BY <2>1, <3>1 DEF Route
  <2>. QED BY <1>2, <2>1, <2>2, <2>3 DEF Report
<1>. QED BY <1>1, <1>2

LEMMA ReportArrivesType == ASSUME TypeInv, NEW h \in Handler, ReportArrives(h) PROVE TypeInv'
<1>0. PICK o \in Existing : \E r \in Report(o) :
        /\ agent' = [agent EXCEPT ![o] = IF r[1] = RUNNING THEN "running" ELSE "done"]
        /\ \/ Go(h, "idle", EmptyFrame)
           \/ Go(h, "put", [EmptyFrame EXCEPT !.op = "report", !.of = o, !.new = r[1],
                                              !.route = r[2], !.local = outcome[o].status])
  BY DEF ReportArrives
<1>1. PICK r \in Report(o) :
        /\ agent' = [agent EXCEPT ![o] = IF r[1] = RUNNING THEN "running" ELSE "done"]
        /\ \/ Go(h, "idle", EmptyFrame)
           \/ Go(h, "put", [EmptyFrame EXCEPT !.op = "report", !.of = o, !.new = r[1],
                                              !.route = r[2], !.local = outcome[o].status])
  BY <1>0
<1>. DEFINE g == [EmptyFrame EXCEPT !.op = "report", !.of = o, !.new = r[1],
                                    !.route = r[2], !.local = outcome[o].status]
<1>2. DocumentsOK' /\ Existing' = Existing
  BY <1>1, SameOutcomes DEF ReportArrives, docVars, TypeInv, DocumentsOK
<1>3. r[1] \in TaskStatus /\ r[2] \in Route
  BY ReportValues, StatusNames
<1>4. o \in Outcome /\ outcome[o].status \in TaskStatus
  BY DEF Existing, TypeInv, DocumentsOK
<1>5. EmptyFrame \in Frame /\ g \in Frame
  BY <1>3, <1>4, EmptyFrameFits DEF Frame
<1>6. Fits("put", g, Existing)
  BY <1>3, <1>4, <1>5 DEF EmptyFrame, Fits, Frame, Backs, Thens
<1>. QED BY <1>1, <1>2, <1>5, <1>6, MovesFit DEF Moves, Steps, TypeInv

LEMMA PutReportType == ASSUME TypeInv, NEW h \in Handler, PutReport(h) PROVE TypeInv'
<1>. DEFINE f == frame[h]
            g == [f EXCEPT !.local = NULL]
            w == [g EXCEPT !.back = "waitlist"]
<1>1. frame[h] \in Frame /\ Fits(pc[h], frame[h], Existing) /\ DocumentsOK
  BY ChainFits DEF TypeInv
<1>2. f.new \in TaskStatus /\ f.route \in Route
  BY <1>1 DEF Frame
<1>3. DocumentsOK' /\ Existing' = Existing
  BY <1>1, <1>2, SetReportType DEF PutReport
<1>4. g \in Frame
  BY <1>1, <1>2 DEF Frame, TaskStatus
<1>5. Fits("finish", g, Existing')
  BY <1>1, <1>2, <1>3 DEF PutReport, Fits, Frame, ReportSteps
<1>6. Fits("cancelled", g, Existing')
  BY <1>1, <1>2, <1>3 DEF PutReport, Fits, Frame, ReportSteps
<1>7. w \in Frame
  BY <1>1, <1>2 DEF Frame, Steps, TaskStatus
<1>8. Fits("readjob", w, Existing')
  BY <1>1, <1>2, <1>3 DEF PutReport, Fits, Frame, ReportSteps, Backs
<1>. QED BY <1>1, <1>3, <1>4, <1>5, <1>6, <1>7, <1>8, MovesFit DEF PutReport, Moves, Steps, TypeInv, UpdateJobStatus

LEMMA PutCancelledType == ASSUME TypeInv, NEW h \in Handler, PutCancelled(h) PROVE TypeInv'
<1>. DEFINE f == frame[h]
            g == [f EXCEPT !.new = CANCELLED]
            w == [g EXCEPT !.back = "waitlist"]
<1>1. frame[h] \in Frame /\ Fits(pc[h], frame[h], Existing) /\ DocumentsOK
  BY ChainFits DEF TypeInv
<1>2. DocumentsOK' /\ Existing' = Existing
  BY <1>1, SetOutcomeType, StatusNames DEF PutCancelled
<1>3. g \in Frame
  BY <1>1 DEF Frame, TaskStatus
<1>4. w \in Frame
  BY <1>1 DEF Frame, Steps, TaskStatus
<1>5. Fits("readjob", w, Existing')
  BY <1>1, <1>2 DEF PutCancelled, Fits, Frame, ReportSteps, Backs
<1>. QED BY <1>1, <1>2, <1>3, <1>4, <1>5, MovesFit DEF PutCancelled, Moves, Steps, TypeInv, UpdateJobStatus

LEMMA AgentReturnsType == ASSUME TypeInv, NEW h \in Handler, AgentReturns(h) PROVE TypeInv'
<1>. DEFINE g == [EmptyFrame EXCEPT !.op = "waiting"]
<1>1. frame[h] \in Frame /\ Fits(pc[h], frame[h], Existing) /\ DocumentsOK
  BY ChainFits DEF TypeInv
<1>2. EmptyFrame \in Frame /\ Fits("waitlist", EmptyFrame, Existing)
  BY <1>1, EmptyFrameFits DEF Steps, ReportSteps
<1>3. DocumentsOK' /\ Existing' = Existing
  BY <1>1, <1>2, SameDocuments DEF AgentReturns
<1>4. g \in Frame
  BY <1>1, <1>2 DEF Frame
<1>5. Fits("waitlist", g, Existing')
  BY <1>1, <1>2, <1>3 DEF AgentReturns, Fits, Frame, ReportSteps, EmptyFrame
<1>. QED BY <1>1, <1>3, <1>4, <1>5, MovesFit DEF AgentReturns, Moves, Steps, TypeInv

LEMMA ListWaitingTasksType == ASSUME TypeInv, NEW h \in Handler, ListWaitingTasks(h) PROVE TypeInv'
<1>. DEFINE f == frame[h]
            g == [f EXCEPT !.kept = f.job, !.job = NULL, !.back = "idle",
                           !.todo = {t \in Task : taskStatus[t] = WAITING_FOR_AGENT}]
<1>1. frame[h] \in Frame /\ Fits(pc[h], frame[h], Existing) /\ DocumentsOK
  BY ChainFits DEF TypeInv
<1>2. DocumentsOK' /\ Existing' = Existing
  BY <1>1, SameDocuments DEF ListWaitingTasks
<1>3. g \in Frame
  BY <1>1 DEF Frame, Steps
<1>4. Fits("waiting", g, Existing')
  BY <1>1, <1>2 DEF ListWaitingTasks, Fits, Frame, ReportSteps, Backs
<1>. QED BY <1>1, <1>2, <1>3, <1>4, MovesFit DEF ListWaitingTasks, Moves, Steps, TypeInv

LEMMA ExamineWaitingTaskType == ASSUME TypeInv, NEW h \in Handler, ExamineWaitingTask(h) PROVE TypeInv'
<1>1. PICK t \in frame[h].todo : \/ Go(h, "take", [frame[h] EXCEPT !.todo = frame[h].todo \ {t}, !.task = t])
                             \/ Go(h, "waiting", [frame[h] EXCEPT !.todo = frame[h].todo \ {t}])
  BY DEF ExamineWaitingTask
<1>. DEFINE f == frame[h]
            g == [f EXCEPT !.todo = f.todo \ {t}, !.task = t]
            k == [f EXCEPT !.todo = f.todo \ {t}]
<1>2. frame[h] \in Frame /\ Fits(pc[h], frame[h], Existing) /\ DocumentsOK
  BY ChainFits DEF TypeInv
<1>3. DocumentsOK' /\ Existing' = Existing
  BY <1>1, <1>2, SameDocuments DEF ExamineWaitingTask
<1>4. g \in Frame
  BY <1>1, <1>2 DEF Frame
<1>5. Fits("take", g, Existing')
  BY <1>1, <1>2, <1>3 DEF ExamineWaitingTask, Fits, Frame, ReportSteps
<1>6. k \in Frame
  BY <1>1, <1>2 DEF Frame
<1>7. Fits("waiting", k, Existing')
  BY <1>1, <1>2, <1>3 DEF ExamineWaitingTask, Fits, Frame, ReportSteps
<1>. QED BY <1>1, <1>2, <1>3, <1>4, <1>5, <1>6, <1>7, MovesFit DEF ExamineWaitingTask, Moves, Steps, TypeInv

LEMMA TakeWaitingTaskType == ASSUME TypeInv, NEW h \in Handler, TakeWaitingTask(h) PROVE TypeInv'
<1>. DEFINE f == frame[h]
            p == [f EXCEPT !.task = f.task, !.local = NOT_STARTED, !.then = "waiting"]
<1>1. frame[h] \in Frame /\ Fits(pc[h], frame[h], Existing) /\ DocumentsOK
  BY ChainFits DEF TypeInv
<1>2. DocumentsOK' /\ Existing' = Existing
  BY <1>1, SetTaskType, SameDocuments, StatusNames DEF TakeWaitingTask, docVars
<1>3. p \in Frame
  BY <1>1 DEF Frame, Thens, Steps, TaskStatus
<1>4. Fits("route", p, Existing')
  BY <1>1, <1>2 DEF TakeWaitingTask, Fits, Frame, ReportSteps, Thens
<1>. QED BY <1>1, <1>2, <1>3, <1>4, MovesFit DEF TakeWaitingTask, Moves, Steps, TypeInv, Publish

LEMMA WaitingTasksDoneType == ASSUME TypeInv, NEW h \in Handler, WaitingTasksDone(h) PROVE TypeInv'
<1>. DEFINE f == frame[h]
            next == IF f.op = "report" THEN "down" ELSE "idle"
<1>1. frame[h] \in Frame /\ Fits(pc[h], frame[h], Existing) /\ DocumentsOK
  BY ChainFits DEF TypeInv
<1>2. DocumentsOK' /\ Existing' = Existing
  BY <1>1, SameDocuments DEF WaitingTasksDone
<1>3. next \in Steps /\ (next # "idle" => Fits(next, f, Existing'))
  BY <1>1, <1>2 DEF WaitingTasksDone, Fits, Frame, ReportSteps, Steps, Backs, Thens
<1>. QED BY <1>1, <1>2, <1>3, MovesFit DEF WaitingTasksDone, Moves, Steps, TypeInv

-----------------------------------------------------------------------------
(***************************************************************************)
(* ... downstream tasks ...                                                *)
(***************************************************************************)
LEMMA Routes ==
    ASSUME NEW u, NEW route
    PROVE  Downstream(u) \subseteq Task /\ RoutedTo(u, route) \subseteq Task /\ IsFiniteSet(Downstream(u))
<1>1. Downstream(u) \subseteq Task /\ RoutedTo(u, route) \subseteq Task
  BY DEF ConstantsAssumption, Downstream, RoutedTo
<1>. QED BY <1>1, FS_Subset DEF ConstantsAssumption

\* The listing of a set of tasks is a sequence of tasks.
LEMMA ListingType ==
    ASSUME NEW S, S \subseteq Task, IsFiniteSet(S), NEW s \in Listings(S)
    PROVE  s \in Seq(Task)
<1>1. Cardinality(S) \in Nat
  BY FS_CardinalityType
<1>2. s \in [1..Cardinality(S) -> Task]
  BY DEF Listings
<1>. QED BY <1>1, <1>2, SeqDef

LEMMA BeginDownstreamType == ASSUME TypeInv, NEW h \in Handler, BeginDownstream(h) PROVE TypeInv'
<1>. DEFINE f == frame[h]
            u == outcome[f.of].task
            g == [f EXCEPT !.down = Downstream(u),
                           !.launchTo = IF f.kept \in {CANCELING, COMPLETED} THEN {}
                                        ELSE RoutedTo(u, f.route)]
<1>1. frame[h] \in Frame /\ Fits(pc[h], frame[h], Existing) /\ DocumentsOK
  BY ChainFits DEF TypeInv
<1>2. Downstream(u) \subseteq Task /\ RoutedTo(u, f.route) \subseteq Task
  BY <1>1, Routes
<1>3. DocumentsOK' /\ Existing' = Existing
  BY <1>1, <1>2, SameDocuments DEF BeginDownstream
<1>4. Fits("after", f, Existing')
  BY <1>1, <1>2, <1>3 DEF BeginDownstream, Fits, Frame, ReportSteps
<1>5. g \in Frame
  BY <1>1, <1>2 DEF Frame
<1>6. Fits("downing", g, Existing')
  BY <1>1, <1>2, <1>3 DEF BeginDownstream, Fits, Frame, ReportSteps
<1>. QED BY <1>1, <1>3, <1>4, <1>5, <1>6, MovesFit DEF BeginDownstream, Moves, Steps, TypeInv

LEMMA DescendType == ASSUME TypeInv, NEW h \in Handler, Descend(h) PROVE TypeInv'
<1>. DEFINE f == frame[h]
            u == outcome[f.of].task
<1>1. PICK d \in f.down :
        \/ /\ upDep' = [upDep EXCEPT ![d] = @ \ {u}]
           /\ matched' = matched \cup {<<u, d>>}
           /\ Go(h, "downing", [[f EXCEPT !.down = f.down \ {d}] EXCEPT
                                  !.launch = IF LastAwaited(d, u) THEN @ \cup {d} ELSE @])
        \/ /\ UNCHANGED <<upDep, matched>>
           /\ \/ Go(h, "skipread", [[f EXCEPT !.down = f.down \ {d}] EXCEPT !.skip = <<d>>])
              \/ Go(h, "downing", [f EXCEPT !.down = f.down \ {d}])
  <2>1. PICK d \in f.down :
          IF f.kept \notin {CANCELING, COMPLETED} /\ Follows(d, u, f.route)
          THEN /\ upDep' = [upDep EXCEPT ![d] = @ \ {u}]
               /\ matched' = matched \cup {<<u, d>>}
               /\ Go(h, "downing", [[f EXCEPT !.down = f.down \ {d}] EXCEPT
                                      !.launch = IF LastAwaited(d, u) THEN @ \cup {d} ELSE @])
          ELSE /\ UNCHANGED <<upDep, matched>>
               /\ IF f.kept \in {CANCELING, COMPLETED} \/ f.route # "fail"
                  THEN Go(h, "skipread", [[f EXCEPT !.down = f.down \ {d}] EXCEPT !.skip = <<d>>])
                  ELSE Go(h, "downing", [f EXCEPT !.down = f.down \ {d}])
    BY DEF Descend
  <2>. QED BY <2>1
<1>2. f \in Frame /\ Fits("downing", f, Existing) /\ DocumentsOK /\ d \in Task
  BY <1>1, ChainFits DEF TypeInv, Frame, Descend
<1>3. u \in Task
  BY <1>2 DEF Fits, ReportSteps, Existing, DocumentsOK
<1>4. DocumentsOK' /\ Existing' = Existing
  <2>1. upDep' \in [Task -> SUBSET Task] /\ matched' \subseteq Task \X Task
    BY <1>1, <1>2, <1>3 DEF DocumentsOK
  <2>. QED BY <1>2, <2>1, SameOutcomes DEF Descend, DocumentsOK
<1>. DEFINE k == [f EXCEPT !.down = f.down \ {d}]
            g == [k EXCEPT !.launch = IF LastAwaited(d, u) THEN @ \cup {d} ELSE @]
            s == [k EXCEPT !.skip = <<d>>]
<1>5. <<d>> \in Seq(Task)
  BY <1>2
<1>6. g \in Frame /\ s \in Frame /\ k \in Frame
  BY <1>2, <1>5 DEF Frame
<1>7. Fits("downing", g, Existing) /\ Fits("skipread", s, Existing) /\ Fits("downing", k, Existing)
  BY <1>2, <1>6 DEF Fits, Frame, ReportSteps
<1>. QED BY <1>1, <1>4, <1>6, <1>7, MovesFit DEF Moves, Steps, TypeInv

LEMMA ReadSkippedType == ASSUME TypeInv, NEW h \in Handler, ReadSkipped(h) PROVE TypeInv'
<1>. DEFINE f == frame[h]
            g == [f EXCEPT !.skip = Tail(f.skip)]
<1>1. f \in Frame /\ Fits("skipread", f, Existing)
  BY ChainFits DEF ReadSkipped
<1>2. DocumentsOK' /\ Existing' = Existing
  BY SameDocuments DEF ReadSkipped
<1>3. f.skip \in Seq(Task)
  BY <1>1 DEF Frame
<1>4. CASE f.skip = <<>>
  <2>1. Fits("downing", f, Existing)
    BY <1>1 DEF Fits, Frame, ReportSteps
  <2>. QED BY <1>1, <1>2, <1>4, <2>1, MovesFit DEF ReadSkipped, Moves, Steps, TypeInv
<1>5. CASE f.skip # <<>>
  <2>1. Tail(f.skip) \in Seq(Task)
    BY <1>3, <1>5
  <2>2. g \in Frame
    BY <1>1, <2>1 DEF Frame
  <2>3. Fits("skipwrite", f, Existing) /\ Fits("skipread", g, Existing)
    BY <1>1, <1>5, <2>2 DEF Fits, Frame, ReportSteps
  <2>. QED BY <1>1, <1>2, <1>5, <2>2, <2>3, MovesFit DEF ReadSkipped, Moves, Steps, TypeInv
<1>. QED BY <1>4, <1>5

LEMMA WriteSkippedType == ASSUME TypeInv, NEW h \in Handler, WriteSkipped(h) PROVE TypeInv'
<1>. DEFINE f == frame[h]
            t == Head(f.skip)
<1>1. PICK down \in Listings(Downstream(t)) :
        Go(h, "skipread", [f EXCEPT !.skip = down \o Tail(f.skip)])
  BY DEF WriteSkipped
<1>2. f \in Frame /\ Fits("skipwrite", f, Existing) /\ DocumentsOK
  BY ChainFits DEF TypeInv, WriteSkipped
<1>. DEFINE g == [f EXCEPT !.skip = down \o Tail(f.skip)]
<1>3. DocumentsOK' /\ Existing' = Existing
  BY <1>2, SetTaskType, StatusNames DEF WriteSkipped
<1>4. down \o Tail(f.skip) \in Seq(Task)
  <2>1. down \in Seq(Task)
    BY Routes, ListingType
  <2>2. f.skip \in Seq(Task) /\ f.skip # <<>>
    BY <1>2 DEF Frame, Fits
  <2>. QED BY <2>1, <2>2
<1>5. g \in Frame /\ Fits("skipread", g, Existing)
  <2>1. g \in Frame
    BY <1>2, <1>4 DEF Frame
  <2>. QED BY <1>2, <2>1 DEF Fits, Frame, ReportSteps
<1>. QED BY <1>1, <1>3, <1>5, MovesFit DEF Moves, Steps, TypeInv

LEMMA DescendEndsType == ASSUME TypeInv, NEW h \in Handler, DescendEnds(h) PROVE TypeInv'
<1>. DEFINE f == frame[h]
<1>1. frame[h] \in Frame /\ Fits(pc[h], frame[h], Existing) /\ DocumentsOK
  BY ChainFits DEF TypeInv
<1>2. DocumentsOK' /\ Existing' = Existing
  BY <1>1, SameDocuments DEF DescendEnds
<1>3. Fits("launching", f, Existing')
  BY <1>1, <1>2 DEF DescendEnds, Fits, Frame, ReportSteps
<1>. QED BY <1>1, <1>2, <1>3, MovesFit DEF DescendEnds, Moves, Steps, TypeInv

LEMMA LaunchRouteTargetType == ASSUME TypeInv, NEW h \in Handler, LaunchRouteTarget(h) PROVE TypeInv'
<1>1. PICK t \in frame[h].launchTo : Publish(h, [frame[h] EXCEPT !.launchTo = @ \ {t}], t, taskStatus[t], "launching")
  BY DEF LaunchRouteTarget
<1>. DEFINE f == frame[h]
            g == [f EXCEPT !.launchTo = f.launchTo \ {t}]
            p == [g EXCEPT !.task = t, !.local = taskStatus[t], !.then = "launching"]
<1>2. frame[h] \in Frame /\ Fits(pc[h], frame[h], Existing) /\ DocumentsOK
  BY ChainFits DEF TypeInv
<1>3. DocumentsOK' /\ Existing' = Existing
  BY <1>1, <1>2, SameDocuments DEF LaunchRouteTarget
<1>4. g \in Frame
  BY <1>1, <1>2 DEF Frame
<1>5. p \in Frame
  BY <1>1, <1>2 DEF Frame, Thens, Steps, DocumentsOK
<1>6. Fits("route", p, Existing')
  BY <1>1, <1>2, <1>3 DEF LaunchRouteTarget, Fits, Frame, ReportSteps, Thens
<1>. QED BY <1>1, <1>2, <1>3, <1>4, <1>5, <1>6, MovesFit DEF LaunchRouteTarget, Moves, Steps, TypeInv, Publish

LEMMA LaunchDownstreamTaskType == ASSUME TypeInv, NEW h \in Handler, LaunchDownstreamTask(h) PROVE TypeInv'
<1>1. PICK t \in frame[h].launch : LET g == [frame[h] EXCEPT !.launch = @ \ {t}]
                               IN  \/ SetTask(t, NOT_STARTED) /\ Publish(h, g, t, NOT_STARTED, "launching")
                                   \/ UNCHANGED taskStatus /\ Go(h, "launching", g)
  BY DEF LaunchDownstreamTask
<1>. DEFINE f == frame[h]
            g == [f EXCEPT !.launch = f.launch \ {t}]
            p == [g EXCEPT !.task = t, !.local = NOT_STARTED, !.then = "launching"]
<1>2. frame[h] \in Frame /\ Fits(pc[h], frame[h], Existing) /\ DocumentsOK
  BY ChainFits DEF TypeInv
<1>3. DocumentsOK' /\ Existing' = Existing
  BY <1>1, <1>2, SetTaskType, SameDocuments, StatusNames DEF LaunchDownstreamTask, docVars
<1>4. g \in Frame
  BY <1>1, <1>2 DEF Frame
<1>5. Fits("launching", g, Existing')
  BY <1>1, <1>2, <1>3 DEF LaunchDownstreamTask, Fits, Frame, ReportSteps
<1>6. p \in Frame
  BY <1>1, <1>2 DEF Frame, Thens, Steps, TaskStatus
<1>7. Fits("route", p, Existing')
  BY <1>1, <1>2, <1>3 DEF LaunchDownstreamTask, Fits, Frame, ReportSteps, Thens
<1>. QED BY <1>1, <1>2, <1>3, <1>4, <1>5, <1>6, <1>7, MovesFit DEF LaunchDownstreamTask, Moves, Steps, TypeInv, Publish

LEMMA LaunchEndsType == ASSUME TypeInv, NEW h \in Handler, LaunchEnds(h) PROVE TypeInv'
<1>. DEFINE f == frame[h]
<1>1. frame[h] \in Frame /\ Fits(pc[h], frame[h], Existing) /\ DocumentsOK
  BY ChainFits DEF TypeInv
<1>2. DocumentsOK' /\ Existing' = Existing
  BY <1>1, SameDocuments DEF LaunchEnds
<1>3. Fits("after", f, Existing')
  BY <1>1, <1>2 DEF LaunchEnds, Fits, Frame, ReportSteps
<1>. QED BY <1>1, <1>2, <1>3, MovesFit DEF LaunchEnds, Moves, Steps, TypeInv

LEMMA AfterDownstreamType == ASSUME TypeInv, NEW h \in Handler, AfterDownstream(h) PROVE TypeInv'
<1>. DEFINE f == frame[h]
<1>1. frame[h] \in Frame /\ Fits(pc[h], frame[h], Existing) /\ DocumentsOK
  BY ChainFits DEF TypeInv
<1>2. DocumentsOK' /\ Existing' = Existing
  BY <1>1, SetOutcomeType, SameDocuments, StatusNames DEF AfterDownstream, docVars
<1>3. Fits("republish", f, Existing')
  BY <1>1, <1>2 DEF AfterDownstream, Fits, Frame, ReportSteps
<1>4. Fits("finish", f, Existing')
  BY <1>1, <1>2 DEF AfterDownstream, Fits, Frame, ReportSteps
<1>. QED BY <1>1, <1>2, <1>3, <1>4, MovesFit DEF AfterDownstream, Moves, Steps, TypeInv

LEMMA RepublishTaskType == ASSUME TypeInv, NEW h \in Handler, RepublishTask(h) PROVE TypeInv'
<1>. DEFINE f == frame[h]
            t == outcome[f.of].task
            p == [f EXCEPT !.task = t, !.local = NOT_STARTED, !.then = "finish"]
<1>1. f \in Frame /\ Fits("republish", f, Existing) /\ DocumentsOK
  BY ChainFits DEF TypeInv, RepublishTask
<1>2. DocumentsOK' /\ Existing' = Existing
  BY <1>1, SetTaskType, SameDocuments, StatusNames DEF RepublishTask, docVars
<1>3. t \in Task
  BY <1>1 DEF Fits, ReportSteps, Existing, DocumentsOK
<1>4. p \in Frame
  BY <1>1, <1>3 DEF Frame, Steps, TaskStatus
<1>5. Fits("route", p, Existing) /\ Fits("finish", f, Existing)
  BY <1>1, <1>3, <1>4 DEF Fits, Frame, ReportSteps, Thens
<1>. QED BY <1>1, <1>2, <1>4, <1>5, MovesFit DEF RepublishTask, Publish, Moves, Steps, TypeInv

LEMMA FinishReportType == ASSUME TypeInv, NEW h \in Handler, FinishReport(h) PROVE TypeInv'
<1>. DEFINE f == frame[h]
            g == [EmptyFrame EXCEPT !.op = "report", !.of = f.of]
            w == [g EXCEPT !.back = "idle"]
<1>1. f \in Frame /\ Fits("finish", f, Existing) /\ EmptyFrame \in Frame
  BY ChainFits, EmptyFrameFits DEF FinishReport
<1>2. DocumentsOK' /\ Existing' = Existing
  BY SameDocuments DEF FinishReport
<1>3. g \in Frame /\ g.op = "report" /\ g.of = f.of /\ g.then = "idle" /\ g.todoOut = {}
  BY <1>1 DEF Frame, EmptyFrame
<1>4. w \in Frame
  BY <1>3 DEF Frame, Steps
<1>5. Fits("readjob", w, Existing)
  BY <1>1, <1>3, <1>4 DEF Fits, Frame, ReportSteps, Backs, Thens
<1>. QED BY <1>2, <1>4, <1>5, MovesFit DEF FinishReport, UpdateJobStatus, Moves, Steps, TypeInv

-----------------------------------------------------------------------------
(***************************************************************************)
(* ... and the user's actions                                              *)
(***************************************************************************)
LEMMA JobActionType ==
    ASSUME TypeInv, NEW h \in Handler,
           NEW op \in {"restart", "cancel", "interrupt"}, NEW from, NEW to \in JobStatus,
           NEW next \in {"restartlist", "canceltasks", "interrupttasks"}, JobAction(h, op, from, to, next)
    PROVE  TypeInv'
<1>. DEFINE f == [EmptyFrame EXCEPT !.op = op]
<1>1. DocumentsOK' /\ Existing' = Existing
  BY SameOutcomes DEF JobAction, TypeInv, DocumentsOK
<1>2. EmptyFrame \in Frame /\ EmptyFrame.then = "idle" /\ EmptyFrame.back = "idle" /\ EmptyFrame.todoOut = {}
  BY EmptyFrameFits DEF EmptyFrame
<1>3. f \in Frame
  BY <1>2 DEF Frame
<1>4. Fits(next, f, Existing')
  BY <1>2, <1>3 DEF Fits, Frame, ReportSteps, Backs, Thens
<1>. QED BY <1>1, <1>3, <1>4, MovesFit DEF JobAction, Moves, Steps, TypeInv

LEMMA RestartJobType == ASSUME TypeInv, NEW h \in Handler, RestartJob(h) PROVE TypeInv'
BY JobActionType DEF RestartJob, JobStatus

LEMMA CancelJobType == ASSUME TypeInv, NEW h \in Handler, CancelJob(h) PROVE TypeInv'
BY JobActionType DEF CancelJob, JobStatus

LEMMA InterruptJobType == ASSUME TypeInv, NEW h \in Handler, InterruptJob(h) PROVE TypeInv'
BY JobActionType DEF InterruptJob, JobStatus

LEMMA ListTasksToStopType == ASSUME TypeInv, NEW h \in Handler, ListTasksToStop(h) PROVE TypeInv'
<1>. DEFINE f == frame[h]
            S == IF f.op = "cancel" THEN Task ELSE {t \in Task : taskStatus[t] = WAITING_FOR_AGENT}
            g == [f EXCEPT !.todo = S]
<1>1. frame[h] \in Frame /\ Fits(pc[h], frame[h], Existing) /\ DocumentsOK
  BY ChainFits DEF TypeInv
<1>2. S \in SUBSET Task
  BY <1>1
<1>. HIDE DEF S
<1>3. DocumentsOK' /\ Existing' = Existing
  BY <1>1, <1>2, SameDocuments DEF ListTasksToStop
<1>4. g \in Frame
  BY <1>1, <1>2 DEF Frame
<1>5. Fits("stoptasks", g, Existing')
  BY <1>1, <1>2, <1>3 DEF ListTasksToStop, Fits, Frame, ReportSteps
<1>. QED BY <1>1, <1>3, <1>4, <1>5, MovesFit DEF ListTasksToStop, Moves, Steps, TypeInv, S

LEMMA StopTaskType == ASSUME TypeInv, NEW h \in Handler, StopTask(h) PROVE TypeInv'
<1>1. PICK t \in frame[h].todo : /\ SetTask(t, IF frame[h].op = "cancel" THEN CANCELLED ELSE NULL)
                             /\ Go(h, "stoptasks", [frame[h] EXCEPT !.todo = frame[h].todo \ {t}])
  BY DEF StopTask
<1>. DEFINE f == frame[h]
            g == [f EXCEPT !.todo = f.todo \ {t}]
<1>2. frame[h] \in Frame /\ Fits(pc[h], frame[h], Existing) /\ DocumentsOK
  BY ChainFits DEF TypeInv
<1>3. DocumentsOK' /\ Existing' = Existing
  BY <1>1, <1>2, SetTaskType, StatusNames, SameDocuments DEF StopTask, docVars
<1>4. g \in Frame
  BY <1>1, <1>2 DEF Frame
<1>5. Fits("stoptasks", g, Existing')
  BY <1>1, <1>2, <1>3 DEF StopTask, Fits, Frame, ReportSteps
<1>. QED BY <1>1, <1>2, <1>3, <1>4, <1>5, MovesFit DEF StopTask, Moves, Steps, TypeInv

LEMMA ListOutcomesToStopType == ASSUME TypeInv, NEW h \in Handler, ListOutcomesToStop(h) PROVE TypeInv'
<1>. DEFINE f == frame[h]
            S == {o \in Existing : outcome[o].status < CANCELING \/ (f.op = "cancel" /\ outcome[o].status = FAILED)}
            g == [f EXCEPT !.todoOut = S]
<1>1. f \in Frame /\ Fits(pc[h], f, Existing) /\ DocumentsOK
  BY ChainFits DEF TypeInv
<1>2. DocumentsOK' /\ Existing' = Existing
  BY <1>1, SameDocuments DEF ListOutcomesToStop
<1>3. S \subseteq Existing /\ S \subseteq Outcome
  BY DEF Existing
<1>. HIDE DEF S
<1>4. g \in Frame
  BY <1>1, <1>3 DEF Frame
<1>5. Fits("stopping", g, Existing')
  BY <1>1, <1>2, <1>3 DEF ListOutcomesToStop, Fits, Frame, ReportSteps
<1>. QED BY <1>2, <1>4, <1>5, MovesFit DEF ListOutcomesToStop, Moves, Steps, TypeInv, S

LEMMA StopOutcomeType ==
    ASSUME TypeInv, NEW op, NEW o, StopOutcome(op, o),
           UNCHANGED <<taskStatus, upDep, jobStatus, agent, started, matched>>
    PROVE  DocumentsOK' /\ Existing' = Existing
BY SetOutcomeType, StatusNames, SameDocuments DEF StopOutcome, TypeInv, docVars

LEMMA StopNextOutcomeType == ASSUME TypeInv, NEW h \in Handler, StopNextOutcome(h) PROVE TypeInv'
<1>1. PICK o \in frame[h].todoOut : /\ StopOutcome(frame[h].op, o)
                                /\ Go(h, "stopping", [frame[h] EXCEPT !.todoOut = @ \ {o}])
  BY DEF StopNextOutcome
<1>. DEFINE f == frame[h]
            g == [f EXCEPT !.todoOut = f.todoOut \ {o}]
<1>2. frame[h] \in Frame /\ Fits(pc[h], frame[h], Existing) /\ DocumentsOK
  BY ChainFits DEF TypeInv
<1>3. DocumentsOK' /\ Existing' = Existing
  BY <1>1, <1>2, StopOutcomeType DEF StopNextOutcome
<1>4. g \in Frame
  BY <1>1, <1>2 DEF Frame
<1>5. Fits("stopping", g, Existing')
  BY <1>1, <1>2, <1>3 DEF StopNextOutcome, Fits, Frame, ReportSteps
<1>. QED BY <1>1, <1>2, <1>3, <1>4, <1>5, MovesFit DEF StopNextOutcome, Moves, Steps, TypeInv

LEMMA JobStoppedType == ASSUME TypeInv, NEW h \in Handler, JobStopped(h) PROVE TypeInv'
<1>. DEFINE f == frame[h]
            s == IF f.op = "cancel" THEN CANCELING ELSE INTERRUPTING
            g == [f EXCEPT !.job = s, !.back = "idle"]
<1>1. frame[h] \in Frame /\ Fits(pc[h], frame[h], Existing) /\ DocumentsOK
  BY ChainFits DEF TypeInv
<1>2. s \in JobStatus
  BY <1>1 DEF JobStatus
<1>. HIDE DEF s
<1>3. DocumentsOK' /\ Existing' = Existing
  BY <1>1, <1>2, SameDocuments DEF JobStopped
<1>4. g \in Frame
  BY <1>1, <1>2 DEF Frame, Steps, JobStatus
<1>5. Fits("outcomes", g, Existing')
  BY <1>1, <1>2, <1>3 DEF JobStopped, Fits, Frame, ReportSteps, Backs
<1>. QED BY <1>1, <1>3, <1>4, <1>5, MovesFit DEF JobStopped, Moves, Steps, TypeInv, UpdatePassedJob, s

LEMMA ListOutcomesToRestartType == ASSUME TypeInv, NEW h \in Handler, ListOutcomesToRestart(h) PROVE TypeInv'
<1>. DEFINE f == frame[h]
            g == [f EXCEPT !.todoOut = {o \in Existing : Restartable(o)}]
<1>1. frame[h] \in Frame /\ Fits(pc[h], frame[h], Existing) /\ DocumentsOK
  BY ChainFits DEF TypeInv
<1>2. DocumentsOK' /\ Existing' = Existing
  BY <1>1, SameDocuments DEF ListOutcomesToRestart
<1>3. g \in Frame
  BY <1>1 DEF Frame, Existing
<1>4. Fits("restarting", g, Existing')
  BY <1>1, <1>2 DEF ListOutcomesToRestart, Fits, Frame, ReportSteps
<1>. QED BY <1>1, <1>2, <1>3, <1>4, MovesFit DEF ListOutcomesToRestart, Moves, Steps, TypeInv

LEMMA RestartOutcomeType == ASSUME TypeInv, NEW h \in Handler, RestartOutcome(h) PROVE TypeInv'
<1>1. PICK o \in frame[h].todoOut :
        LET g == [frame[h] EXCEPT !.todoOut = @ \ {o}]
        IN  \/ /\ outcome' = [outcome EXCEPT ![o].status = CANCELLED, ![o].route = ""]
               /\ Go(h, "reset", [g EXCEPT !.task = outcome[o].task])
            \/ UNCHANGED outcome /\ Go(h, "restarting", g)
  BY DEF RestartOutcome
<1>. DEFINE f == frame[h]
            g == [f EXCEPT !.todoOut = f.todoOut \ {o}]
            p == [g EXCEPT !.task = outcome[o].task]
<1>2. f \in Frame /\ Fits("restarting", f, Existing) /\ DocumentsOK
  BY ChainFits DEF TypeInv, RestartOutcome
<1>3. DocumentsOK' /\ Existing' = Existing
  BY <1>1, SetReportType, SameDocuments, StatusNames DEF RestartOutcome, docVars, Route
<1>4. outcome[o].task \in Task
  BY <1>2, <1>1 DEF Fits, Existing, DocumentsOK
<1>5. g \in Frame /\ p \in Frame
  BY <1>2, <1>4 DEF Frame
<1>6. Fits("reset", p, Existing) /\ Fits("restarting", g, Existing)
  BY <1>2, <1>4, <1>5 DEF Fits, Frame, ReportSteps
<1>. QED BY <1>1, <1>3, <1>5, <1>6, MovesFit DEF Moves, Steps, TypeInv

LEMMA ResetTaskType == ASSUME TypeInv, NEW h \in Handler, ResetTask(h) PROVE TypeInv'
<1>. DEFINE f == frame[h]
            p == [f EXCEPT !.task = f.task, !.local = NOT_STARTED, !.then = "restarting"]
<1>1. frame[h] \in Frame /\ Fits(pc[h], frame[h], Existing) /\ DocumentsOK
  BY ChainFits DEF TypeInv
<1>2. DocumentsOK' /\ Existing' = Existing
  BY <1>1, SetTaskType, StatusNames, SameDocuments DEF ResetTask, docVars, Fits
<1>3. p \in Frame
  BY <1>1 DEF Frame, Thens, Steps, TaskStatus
<1>4. Fits("route", p, Existing')
  BY <1>1, <1>2 DEF ResetTask, Fits, Frame, ReportSteps, Thens
<1>. QED BY <1>1, <1>2, <1>3, <1>4, MovesFit DEF ResetTask, Moves, Steps, TypeInv, Publish

LEMMA OutcomesRestartedType == ASSUME TypeInv, NEW h \in Handler, OutcomesRestarted(h) PROVE TypeInv'
<1>. DEFINE f == frame[h]
<1>1. frame[h] \in Frame /\ Fits(pc[h], frame[h], Existing) /\ DocumentsOK
  BY ChainFits DEF TypeInv
<1>2. DocumentsOK' /\ Existing' = Existing
  BY <1>1, SameDocuments DEF OutcomesRestarted
<1>3. Fits("begin", f, Existing')
  BY <1>1, <1>2 DEF OutcomesRestarted, Fits, Frame, ReportSteps
<1>4. Fits("idle", f, Existing')
  BY <1>1, <1>2 DEF OutcomesRestarted, Fits, Frame, ReportSteps
<1>. QED BY <1>1, <1>2, <1>3, <1>4, MovesFit DEF OutcomesRestarted, Moves, Steps, TypeInv

LEMMA StopTaskOutcomeType == ASSUME TypeInv, NEW h \in Handler, StopTaskOutcome(h) PROVE TypeInv'
<1>1. DocumentsOK' /\ Existing' = Existing
  BY StopOutcomeType DEF StopTaskOutcome
<1>. QED BY <1>1 DEF StopTaskOutcome, TypeInv, FramesOK

LEMMA RestartTaskOutcomeType == ASSUME TypeInv, NEW h \in Handler, RestartTaskOutcome(h) PROVE TypeInv'
<1>1. PICK o \in Existing : Go(h, "restarting", [EmptyFrame EXCEPT !.op = "restartoutcome", !.todoOut = {o}])
  BY DEF RestartTaskOutcome
<1>. DEFINE g == [EmptyFrame EXCEPT !.op = "restartoutcome", !.todoOut = {o}]
<1>2. DocumentsOK' /\ Existing' = Existing
  BY SameDocuments DEF RestartTaskOutcome
<1>3. EmptyFrame \in Frame /\ EmptyFrame.then = "idle" /\ EmptyFrame.back = "idle" /\ o \in Outcome
  BY EmptyFrameFits DEF EmptyFrame, Existing
<1>4. g \in Frame
  BY <1>3 DEF Frame
<1>5. Fits("restarting", g, Existing)
  BY <1>3, <1>4 DEF Fits, Frame, ReportSteps, Backs, Thens
<1>. QED BY <1>1, <1>2, <1>4, <1>5, MovesFit DEF Moves, Steps, TypeInv

-----------------------------------------------------------------------------
LEMMA InitType == Init => TypeInv
<1>. SUFFICES ASSUME Init PROVE TypeInv
  OBVIOUS
<1>1. DocumentsOK
  BY DEF Init, DocumentsOK, TaskStatus, JobStatus, NoDocument, NoTask, Route, Upstream, ConstantsAssumption
<1>2. FramesOK
  BY EmptyFrameFits DEF Init, FramesOK, Steps, ReportSteps
<1>. QED BY <1>1, <1>2 DEF TypeInv

LEMMA StutterType == TypeInv /\ UNCHANGED vars => TypeInv'
BY DEF vars, TypeInv, DocumentsOK, FramesOK, Existing, Fits

\* Every step of the flow keeps the types.
LEMMA StepType == TypeInv /\ [Next]_vars => TypeInv'
<1>. SUFFICES ASSUME TypeInv, [Next]_vars PROVE TypeInv'
  OBVIOUS
<1>1. CASE UNCHANGED vars
  BY <1>1, StutterType
<1>. SUFFICES ASSUME NEW h \in Handler,
                     Step(h) \/ LaunchJob(h) \/ ReportArrives(h) \/ AgentReturns(h) \/ UserRequest(h)
              PROVE TypeInv'
  BY <1>1 DEF Next
<1>2. CASE UpdateStep(h)
  BY <1>2,
     ReadJobType, ReadOutcomesType, ReadTasksType, WriteJobType, RereadJobType
     DEF UpdateStep
<1>3. CASE PublishStep(h)
  BY <1>3,
     RouteToAgentType, RouteFailsType, CreateTaskOutcomeType, RecheckTaskType,
     CancelNewOutcomeType, SendToAgentType, PublishedType
     DEF PublishStep
<1>4. CASE StartStep(h)
  BY <1>4,
     BeginTasksType, SnapshotTasksType, StartTaskType, TasksStartedType, StartEndsType
     DEF StartStep
<1>5. CASE ReportStep(h)
  BY <1>5,
     PutReportType, PutCancelledType, ListWaitingTasksType, ExamineWaitingTaskType,
     TakeWaitingTaskType, WaitingTasksDoneType, BeginDownstreamType, DescendType,
     ReadSkippedType, WriteSkippedType, DescendEndsType, LaunchRouteTargetType,
     LaunchDownstreamTaskType, LaunchEndsType, AfterDownstreamType, RepublishTaskType,
     FinishReportType
     DEF ReportStep
<1>6. CASE ActionStep(h)
  BY <1>6,
     ListTasksToStopType, StopTaskType, ListOutcomesToStopType, StopNextOutcomeType,
     JobStoppedType, ListOutcomesToRestartType, RestartOutcomeType, ResetTaskType,
     OutcomesRestartedType
     DEF ActionStep
<1>7. CASE UserRequest(h)
  BY <1>7,
     RestartJobType, CancelJobType, InterruptJobType, StopTaskOutcomeType, RestartTaskOutcomeType
     DEF UserRequest
<1>8. CASE LaunchJob(h) \/ ReportArrives(h) \/ AgentReturns(h)
  BY <1>8, LaunchJobType, ReportArrivesType, AgentReturnsType
<1>. QED BY <1>2, <1>3, <1>4, <1>5, <1>6, <1>7, <1>8 DEF Step

\* In every state of every instance the documents and the locals of the call chains
\* have values the code can give them: no chain reads a local it has not set.
THEOREM TypeCorrect == Spec => []TypeOK
<1>1. TypeInv => TypeOK
  BY DEF TypeInv, DocumentsOK, FramesOK, TypeOK
<1>. QED BY <1>1, InitType, StepType, PTL DEF Spec

-----------------------------------------------------------------------------
(***************************************************************************)
(* What each step changes of a chain's locals.  The lemmas below say it of *)
(* the locals the invariants look at, so that their proofs need not look   *)
(* at the whole frame again.                                               *)
(***************************************************************************)
SameRequest(h) ==
    /\ frame'[h].op = frame[h].op /\ frame'[h].of = frame[h].of /\ frame'[h].new = frame[h].new
    /\ frame'[h].route = frame[h].route
SameTask(h) ==
    frame'[h].task = frame[h].task /\ frame'[h].out = frame[h].out /\ frame'[h].then = frame[h].then
SameLaunches(h) ==
    frame'[h].launch = frame[h].launch /\ frame'[h].launchTo = frame[h].launchTo
SameLists(h) == SameLaunches(h) /\ frame'[h].todo = frame[h].todo
Same(h) == SameRequest(h) /\ SameTask(h) /\ SameLists(h)
Back(h, b) == frame'[h].back = b

\* Two frames with the same locals, for the locals the invariants look at.
SameLocals(f, g) ==
    /\ g.op = f.op /\ g.of = f.of /\ g.new = f.new /\ g.route = f.route
    /\ g.task = f.task /\ g.out = f.out /\ g.then = f.then
    /\ g.launch = f.launch /\ g.launchTo = f.launchTo /\ g.todo = f.todo

\* The chain goes on with what it does, or ends.
Goes(h) ==
    /\ pc'[h] = "idle" => frame'[h] = EmptyFrame
    /\ pc'[h] # "idle" => Same(h) /\ Back(h, frame[h].back)

\* A chain begins with a request.
Begins(h, op) ==
    /\ frame'[h].op = op /\ frame'[h].task = NoTask /\ frame'[h].out = NoOutcome
    /\ frame'[h].then = "idle" /\ frame'[h].back = "idle"
    /\ frame'[h].todo = {} /\ frame'[h].launch = {} /\ frame'[h].launchTo = {}

LEMMA EmptyFields ==
    /\ EmptyFrame \in Frame /\ EmptyFrame.op = "none" /\ EmptyFrame.of = NoOutcome /\ EmptyFrame.new = NULL
    /\ EmptyFrame.task = NoTask /\ EmptyFrame.out = NoOutcome /\ EmptyFrame.then = "idle"
    /\ EmptyFrame.back = "idle" /\ EmptyFrame.todo = {} /\ EmptyFrame.launch = {} /\ EmptyFrame.launchTo = {}
BY EmptyFrameFits DEF EmptyFrame

LEMMA BackSet ==
    ASSUME NEW g \in Frame, NEW b \in Steps
    PROVE  LET w == [g EXCEPT !.back = b]
           IN  w \in Frame /\ SameLocals(g, w) /\ w.back = b
BY DEF Frame, SameLocals

Others(h) == \A q \in Handler : q # h => pc'[q] = pc[q] /\ frame'[q] = frame[q]

LEMMA ReadJobTurn ==
    ASSUME TypeInv, NEW h \in Handler, ReadJob(h)
    PROVE  /\ Others(h)
           /\ pc'[h] = "outcomes"
           /\ Same(h)
           /\ Back(h, frame[h].back)
<1>1. /\ frame[h] \in Frame /\ EmptyFrame \in Frame /\ Fits(pc[h], frame[h], Existing)
      /\ pc \in [Handler -> Steps] /\ frame \in [Handler -> Frame]
  BY ChainFits, EmptyFields DEF TypeInv, FramesOK
<1>. QED BY <1>1 DEF ReadJob, Go, Others, Frame, Fits, Backs, Thens,
     Same, SameRequest, SameTask, SameLists, SameLaunches, Back, Goes

LEMMA ReadOutcomesTurn ==
    ASSUME TypeInv, NEW h \in Handler, ReadOutcomes(h)
    PROVE  /\ Others(h)
           /\ pc'[h] = "tasks"
           /\ Same(h)
           /\ Back(h, frame[h].back)
<1>1. /\ frame[h] \in Frame /\ EmptyFrame \in Frame /\ Fits(pc[h], frame[h], Existing)
      /\ pc \in [Handler -> Steps] /\ frame \in [Handler -> Frame]
  BY ChainFits, EmptyFields DEF TypeInv, FramesOK
<1>. QED BY <1>1 DEF ReadOutcomes, Go, Others, Frame, Fits, Backs, Thens,
     Same, SameRequest, SameTask, SameLists, SameLaunches, Back, Goes

LEMMA ReadTasksTurn ==
    ASSUME TypeInv, NEW h \in Handler, ReadTasks(h)
    PROVE  /\ Others(h)
           /\ pc'[h] \in {frame[h].back, "write"}
           /\ Goes(h)
<1>1. /\ frame[h] \in Frame /\ EmptyFrame \in Frame /\ Fits(pc[h], frame[h], Existing)
      /\ pc \in [Handler -> Steps] /\ frame \in [Handler -> Frame]
  BY ChainFits, EmptyFields DEF TypeInv, FramesOK
<1>. QED BY <1>1 DEF ReadTasks, Go, Others, Frame, Fits, Backs, Thens,
     Same, SameRequest, SameTask, SameLists, SameLaunches, Back, Goes

LEMMA WriteJobTurn ==
    ASSUME TypeInv, NEW h \in Handler, WriteJob(h)
    PROVE  /\ Others(h)
           /\ pc'[h] = frame[h].back \/ (pc'[h] = "reread" /\ frame[h].back = "waitlist")
           /\ Goes(h)
<1>1. /\ frame[h] \in Frame /\ EmptyFrame \in Frame /\ Fits(pc[h], frame[h], Existing)
      /\ pc \in [Handler -> Steps] /\ frame \in [Handler -> Frame]
  BY ChainFits, EmptyFields DEF TypeInv, FramesOK
<1>. QED BY <1>1 DEF WriteJob, Go, Others, Frame, Fits, Backs, Thens,
     Same, SameRequest, SameTask, SameLists, SameLaunches, Back, Goes

LEMMA RereadJobTurn ==
    ASSUME TypeInv, NEW h \in Handler, RereadJob(h)
    PROVE  /\ Others(h)
           /\ pc'[h] = frame[h].back
           /\ Goes(h)
<1>1. /\ frame[h] \in Frame /\ EmptyFrame \in Frame /\ Fits(pc[h], frame[h], Existing)
      /\ pc \in [Handler -> Steps] /\ frame \in [Handler -> Frame]
  BY ChainFits, EmptyFields DEF TypeInv, FramesOK
<1>. QED BY <1>1 DEF RereadJob, Go, Others, Frame, Fits, Backs, Thens,
     Same, SameRequest, SameTask, SameLists, SameLaunches, Back, Goes

LEMMA RouteToAgentTurn ==
    ASSUME TypeInv, NEW h \in Handler, RouteToAgent(h)
    PROVE  /\ Others(h)
           /\ pc'[h] = "save"
           /\ Same(h)
           /\ Back(h, frame[h].back)
<1>1. /\ frame[h] \in Frame /\ EmptyFrame \in Frame /\ Fits(pc[h], frame[h], Existing)
      /\ pc \in [Handler -> Steps] /\ frame \in [Handler -> Frame]
  BY ChainFits, EmptyFields DEF TypeInv, FramesOK
<1>. QED BY <1>1 DEF RouteToAgent, Go, Others, Frame, Fits, Backs, Thens,
     Same, SameRequest, SameTask, SameLists, SameLaunches, Back, Goes

LEMMA RouteFailsTurn ==
    ASSUME TypeInv, NEW h \in Handler, RouteFails(h)
    PROVE  /\ Others(h)
           /\ pc'[h] = "readjob"
           /\ Same(h)
           /\ Back(h, "published")
<1>1. /\ frame[h] \in Frame /\ EmptyFrame \in Frame /\ Fits(pc[h], frame[h], Existing)
      /\ pc \in [Handler -> Steps] /\ frame \in [Handler -> Frame]
  BY ChainFits, EmptyFields DEF TypeInv, FramesOK
<1>. QED BY <1>1 DEF RouteFails, UpdateJobStatus, Go, Others, Frame, Fits, Backs, Thens,
     Same, SameRequest, SameTask, SameLists, SameLaunches, Back, Goes

LEMMA CreateTaskOutcomeTurn ==
    ASSUME TypeInv, NEW h \in Handler, CreateTaskOutcome(h)
    PROVE  /\ Others(h)
           /\ pc'[h] = "recheck"
           /\ SameRequest(h)
           /\ SameLists(h)
           /\ Back(h, frame[h].back)
           /\ frame'[h].task = frame[h].task /\ frame'[h].then = frame[h].then
           /\ \E o \in Unused :
                 /\ frame'[h].out = o /\ o # NoOutcome
                 /\ outcome' = [outcome EXCEPT ![o] = [task |-> frame[h].task, status |-> PUBLISHED, route |-> ""]]
<1>1. /\ frame[h] \in Frame /\ EmptyFrame \in Frame /\ Fits(pc[h], frame[h], Existing)
      /\ pc \in [Handler -> Steps] /\ frame \in [Handler -> Frame]
  BY ChainFits, EmptyFields DEF TypeInv, FramesOK
<1>2. PICK o \in Unused : /\ outcome' = [outcome EXCEPT ![o] = [task |-> frame[h].task, status |-> PUBLISHED, route |-> ""]]
                        /\ Go(h, "recheck", [frame[h] EXCEPT !.out = o])
  BY DEF CreateTaskOutcome
<1>. QED BY <1>1, <1>2 DEF Unused, ConstantsAssumption, NoOutcome, Go, Others, Frame, Fits, Backs, Thens,
     Same, SameRequest, SameTask, SameLists, SameLaunches, Back, Goes

LEMMA RecheckTaskTurn ==
    ASSUME TypeInv, NEW h \in Handler, RecheckTask(h)
    PROVE  /\ Others(h)
           /\ pc'[h] \in {"cancelnew", "readjob"}
           /\ Same(h)
           /\ pc'[h] = "cancelnew" => Back(h, frame[h].back)
           /\ pc'[h] = "readjob" => Back(h, "send")
<1>1. /\ frame[h] \in Frame /\ EmptyFrame \in Frame /\ Fits(pc[h], frame[h], Existing)
      /\ pc \in [Handler -> Steps] /\ frame \in [Handler -> Frame]
  BY ChainFits, EmptyFields DEF TypeInv, FramesOK
<1>. QED BY <1>1 DEF RecheckTask, UpdateJobStatus, Go, Others, Frame, Fits, Backs, Thens,
     Same, SameRequest, SameTask, SameLists, SameLaunches, Back, Goes

LEMMA CancelNewOutcomeTurn ==
    ASSUME TypeInv, NEW h \in Handler, CancelNewOutcome(h)
    PROVE  /\ Others(h)
           /\ pc'[h] \in {"published", "readjob"}
           /\ Same(h)
           /\ pc'[h] = "published" => Back(h, frame[h].back)
           /\ pc'[h] = "readjob" => Back(h, "send")
<1>1. /\ frame[h] \in Frame /\ EmptyFrame \in Frame /\ Fits(pc[h], frame[h], Existing)
      /\ pc \in [Handler -> Steps] /\ frame \in [Handler -> Frame]
  BY ChainFits, EmptyFields DEF TypeInv, FramesOK
<1>. QED BY <1>1 DEF CancelNewOutcome, UpdateJobStatus, Go, Others, Frame, Fits, Backs, Thens,
     Same, SameRequest, SameTask, SameLists, SameLaunches, Back, Goes

LEMMA SendToAgentTurn ==
    ASSUME TypeInv, NEW h \in Handler, SendToAgent(h)
    PROVE  /\ Others(h)
           /\ pc'[h] = "readjob"
           /\ Same(h)
           /\ Back(h, "published")
<1>1. /\ frame[h] \in Frame /\ EmptyFrame \in Frame /\ Fits(pc[h], frame[h], Existing)
      /\ pc \in [Handler -> Steps] /\ frame \in [Handler -> Frame]
  BY ChainFits, EmptyFields DEF TypeInv, FramesOK
<1>. QED BY <1>1 DEF SendToAgent, UpdateJobStatus, Go, Others, Frame, Fits, Backs, Thens,
     Same, SameRequest, SameTask, SameLists, SameLaunches, Back, Goes

LEMMA PublishedTurn ==
    ASSUME TypeInv, NEW h \in Handler, Published(h)
    PROVE  /\ Others(h)
           /\ pc'[h] = frame[h].then
           /\ pc'[h] # "idle" => SameRequest(h) /\ SameLists(h)
           /\ pc'[h] = "idle" => frame'[h] = EmptyFrame
           /\ Back(h, "idle")
           /\ frame'[h].task = NoTask /\ frame'[h].out = NoOutcome /\ frame'[h].then = "idle"
<1>1. /\ frame[h] \in Frame /\ EmptyFrame \in Frame /\ Fits(pc[h], frame[h], Existing)
      /\ pc \in [Handler -> Steps] /\ frame \in [Handler -> Frame]
  BY ChainFits, EmptyFields DEF TypeInv, FramesOK
<1>. QED BY <1>1 DEF Published, EmptyFrame, Go, Others, Frame, Fits, Backs, Thens,
     Same, SameRequest, SameTask, SameLists, SameLaunches, Back, Goes

LEMMA LaunchJobTurn ==
    ASSUME TypeInv, NEW h \in Handler, LaunchJob(h)
    PROVE  /\ Others(h)
           /\ pc'[h] = "begin"
           /\ Begins(h, "start")
           /\ frame'[h].new = NULL
<1>1. /\ frame[h] \in Frame /\ EmptyFrame \in Frame /\ Fits(pc[h], frame[h], Existing)
      /\ pc \in [Handler -> Steps] /\ frame \in [Handler -> Frame]
  BY ChainFits, EmptyFields DEF TypeInv, FramesOK
<1>. QED BY <1>1, EmptyFields DEF LaunchJob, Begins, Go, Others, Frame, Fits, Backs, Thens,
     Same, SameRequest, SameTask, SameLists, SameLaunches, Back, Goes

LEMMA BeginTasksTurn ==
    ASSUME TypeInv, NEW h \in Handler, BeginTasks(h)
    PROVE  /\ Others(h)
           /\ pc'[h] = "snapshot"
           /\ Same(h)
           /\ Back(h, frame[h].back)
<1>1. /\ frame[h] \in Frame /\ EmptyFrame \in Frame /\ Fits(pc[h], frame[h], Existing)
      /\ pc \in [Handler -> Steps] /\ frame \in [Handler -> Frame]
  BY ChainFits, EmptyFields DEF TypeInv, FramesOK
<1>. QED BY <1>1 DEF BeginTasks, Go, Others, Frame, Fits, Backs, Thens,
     Same, SameRequest, SameTask, SameLists, SameLaunches, Back, Goes

LEMMA SnapshotTasksTurn ==
    ASSUME TypeInv, NEW h \in Handler, SnapshotTasks(h)
    PROVE  /\ Others(h)
           /\ pc'[h] = "starting"
           /\ SameRequest(h)
           /\ SameTask(h)
           /\ SameLaunches(h)
           /\ Back(h, frame[h].back)
           /\ frame'[h].todo = {t \in Task : Root(t) /\ taskStatus[t] = NULL}
<1>1. /\ frame[h] \in Frame /\ EmptyFrame \in Frame /\ Fits(pc[h], frame[h], Existing)
      /\ pc \in [Handler -> Steps] /\ frame \in [Handler -> Frame]
  BY ChainFits, EmptyFields DEF TypeInv, FramesOK
<1>. QED BY <1>1 DEF SnapshotTasks, Go, Others, Frame, Fits, Backs, Thens,
     Same, SameRequest, SameTask, SameLists, SameLaunches, Back, Goes

LEMMA StartTaskTurn ==
    ASSUME TypeInv, NEW h \in Handler, StartTask(h)
    PROVE  /\ Others(h)
           /\ pc'[h] = "route"
           /\ SameRequest(h)
           /\ SameLaunches(h)
           /\ Back(h, frame[h].back)
           /\ \E t \in frame[h].todo :
                 /\ frame'[h].task = t /\ frame'[h].then = "starting" /\ frame'[h].out = frame[h].out
                 /\ frame'[h].todo = frame[h].todo \ {t}
                 /\ IF taskStatus[t] = NULL THEN SetTask(t, NOT_STARTED) ELSE UNCHANGED taskStatus
<1>1. /\ frame[h] \in Frame /\ EmptyFrame \in Frame /\ Fits(pc[h], frame[h], Existing)
      /\ pc \in [Handler -> Steps] /\ frame \in [Handler -> Frame]
  BY ChainFits, EmptyFields DEF TypeInv, FramesOK
<1>. QED BY <1>1 DEF StartTask, Publish, Go, Others, Frame, Fits, Backs, Thens,
     Same, SameRequest, SameTask, SameLists, SameLaunches, Back, Goes

LEMMA TasksStartedTurn ==
    ASSUME TypeInv, NEW h \in Handler, TasksStarted(h)
    PROVE  /\ Others(h)
           /\ pc'[h] \in {"started", "outcomes"}
           /\ Same(h)
           /\ frame'[h].back \in {frame[h].back, "started"}
<1>1. /\ frame[h] \in Frame /\ EmptyFrame \in Frame /\ Fits(pc[h], frame[h], Existing)
      /\ pc \in [Handler -> Steps] /\ frame \in [Handler -> Frame]
  BY ChainFits, EmptyFields DEF TypeInv, FramesOK
<1>2. CASE frame[h].any
  BY <1>1, <1>2 DEF TasksStarted, UpdatePassedJob, Go, Others, Frame, Fits, Backs, Thens,
     Same, SameRequest, SameTask, SameLists, SameLaunches, Back, Goes
<1>3. CASE ~frame[h].any
  <2>1. Go(h, "outcomes", [frame[h] EXCEPT !.job = frame[h].kept, !.back = "started"])
    BY <1>1, <1>3 DEF TasksStarted, UpdatePassedJob
  <2>. QED BY <1>1, <1>3, <2>1 DEF UpdatePassedJob, Go, Others, Frame, Fits, Backs, Thens,
       Same, SameRequest, SameTask, SameLists, SameLaunches, Back, Goes
<1>. QED BY <1>2, <1>3

LEMMA StartEndsTurn ==
    ASSUME TypeInv, NEW h \in Handler, StartEnds(h)
    PROVE  /\ Others(h)
           /\ pc'[h] \in {"idle", "outcomes"}
           /\ pc'[h] # "idle" => Same(h) /\ Back(h, "idle")
           /\ pc'[h] = "idle" => frame'[h] = EmptyFrame
<1>1. /\ frame[h] \in Frame /\ EmptyFrame \in Frame /\ Fits(pc[h], frame[h], Existing)
      /\ pc \in [Handler -> Steps] /\ frame \in [Handler -> Frame]
  BY ChainFits, EmptyFields DEF TypeInv, FramesOK
<1>2. CASE frame[h].op = "restart"
  <2>1. Go(h, "outcomes", [frame[h] EXCEPT !.job = RUNNING, !.back = "idle"])
    BY <1>1, <1>2 DEF StartEnds, UpdatePassedJob
  <2>. QED BY <1>1, <1>2, <2>1 DEF UpdatePassedJob, Go, Others, Frame, Fits, Backs, Thens,
       Same, SameRequest, SameTask, SameLists, SameLaunches, Back, Goes
<1>3. CASE frame[h].op # "restart"
  BY <1>1, <1>3 DEF StartEnds, UpdatePassedJob, Go, Others, Frame, Fits, Backs, Thens,
     Same, SameRequest, SameTask, SameLists, SameLaunches, Back, Goes
<1>. QED BY <1>2, <1>3

LEMMA ReportArrivesTurn ==
    ASSUME TypeInv, NEW h \in Handler, ReportArrives(h)
    PROVE  /\ Others(h)
           /\ \E o \in Existing : \E r \in Report(o) :
                 /\ ~Reporting(o)
                 /\ agent' = [agent EXCEPT ![o] = IF r[1] = RUNNING THEN "running" ELSE "done"]
                 /\ \/ pc'[h] = "idle" /\ frame'[h] = EmptyFrame
                    \/ /\ pc'[h] = "put" /\ ~Refused(outcome[o].status, r[1]) /\ Begins(h, "report")
                       /\ frame'[h].of = o /\ frame'[h].new = r[1] /\ frame'[h].local = outcome[o].status
<1>1. /\ frame[h] \in Frame /\ EmptyFrame \in Frame /\ Fits(pc[h], frame[h], Existing)
      /\ pc \in [Handler -> Steps] /\ frame \in [Handler -> Frame]
  BY ChainFits, EmptyFields DEF TypeInv, FramesOK
<1>2. PICK o \in Existing : ~Reporting(o) /\ \E r \in Report(o) :
        /\ agent' = [agent EXCEPT ![o] = IF r[1] = RUNNING THEN "running" ELSE "done"]
        /\ IF Refused(outcome[o].status, r[1])
           THEN Go(h, "idle", EmptyFrame)
           ELSE Go(h, "put", [EmptyFrame EXCEPT !.op = "report", !.of = o, !.new = r[1],
                                 !.route = r[2], !.local = outcome[o].status])
  BY DEF ReportArrives
<1>3. PICK r \in Report(o) : 
        /\ agent' = [agent EXCEPT ![o] = IF r[1] = RUNNING THEN "running" ELSE "done"]
        /\ IF Refused(outcome[o].status, r[1])
           THEN Go(h, "idle", EmptyFrame)
           ELSE Go(h, "put", [EmptyFrame EXCEPT !.op = "report", !.of = o, !.new = r[1],
                                 !.route = r[2], !.local = outcome[o].status])
  BY <1>2
<1>4. CASE Refused(outcome[o].status, r[1])
  <2>1. Go(h, "idle", EmptyFrame)
    BY <1>1, EmptyFields, <1>2, <1>3, <1>4 DEF Begins
  <2>. QED BY <1>1, EmptyFields, <1>2, <1>3, <1>4, <2>1 DEF Begins, Go, Others, Frame, Fits, Backs, Thens,
       Same, SameRequest, SameTask, SameLists, SameLaunches, Back, Goes
<1>5. CASE ~Refused(outcome[o].status, r[1])
  <2>1. Go(h, "put", [EmptyFrame EXCEPT !.op = "report", !.of = o, !.new = r[1],
                           !.route = r[2], !.local = outcome[o].status])
    BY <1>1, EmptyFields, <1>2, <1>3, <1>5 DEF Begins
  <2>. QED BY <1>1, EmptyFields, <1>2, <1>3, <1>5, <2>1 DEF Begins, Go, Others, Frame, Fits, Backs, Thens,
       Same, SameRequest, SameTask, SameLists, SameLaunches, Back, Goes
<1>. QED BY <1>4, <1>5

LEMMA PutReportTurn ==
    ASSUME TypeInv, NEW h \in Handler, PutReport(h)
    PROVE  /\ Others(h)
           /\ pc'[h] \in {"finish", "cancelled", "readjob"}
           /\ Same(h)
           /\ pc'[h] = "readjob" => Back(h, "waitlist")
           /\ pc'[h] # "readjob" => Back(h, frame[h].back)
           /\ pc'[h] = "cancelled" => frame[h].new = INTERRUPTED
           /\ frame[h].new = INTERRUPTED /\ pc'[h] = "readjob" => frame[h].local \notin {CANCELLED, CANCELING}
<1>1. /\ frame[h] \in Frame /\ EmptyFrame \in Frame /\ Fits(pc[h], frame[h], Existing)
      /\ pc \in [Handler -> Steps] /\ frame \in [Handler -> Frame]
  BY ChainFits, EmptyFields DEF TypeInv, FramesOK
<1>. DEFINE g == [frame[h] EXCEPT !.local = NULL]
            w == [g EXCEPT !.back = "waitlist"]
<1>2. g \in Frame /\ SameLocals(frame[h], g) /\ g.back = frame[h].back
  BY <1>1 DEF Frame, TaskStatus, SameLocals
<1>3. w \in Frame /\ SameLocals(frame[h], w) /\ w.back = "waitlist"
  <2>. HIDE DEF g
  <2>1. "waitlist" \in Steps
    BY DEF Steps
  <2>. QED BY <1>2, <2>1, BackSet DEF SameLocals
<1>4. CASE Go(h, "finish", g) \/ (Go(h, "cancelled", g) /\ frame[h].new = INTERRUPTED)
  <2>1. frame'[h] = g /\ Others(h) /\ pc'[h] \in {"finish", "cancelled"}
    BY <1>1, <1>4 DEF Go, Others
  <2>2. pc'[h] = "cancelled" => frame[h].new = INTERRUPTED
    BY <1>1, <1>4 DEF Go
  <2>. HIDE DEF g
  <2>. QED BY <1>2, <2>1, <2>2 DEF SameLocals, Same, SameRequest, SameTask, SameLists, SameLaunches, Back
<1>5. CASE Go(h, "readjob", w) /\ (frame[h].new = INTERRUPTED => frame[h].local \notin {CANCELLED, CANCELING})
  <2>1. frame'[h] = w /\ Others(h) /\ pc'[h] = "readjob"
    BY <1>1, <1>5 DEF Go, Others
  <2>. HIDE DEF w, g
  <2>. QED BY <1>3, <1>5, <2>1 DEF SameLocals, Same, SameRequest, SameTask, SameLists, SameLaunches, Back
<1>6. \/ Go(h, "finish", g)
      \/ Go(h, "cancelled", g) /\ frame[h].new = INTERRUPTED
      \/ Go(h, "readjob", w) /\ (frame[h].new = INTERRUPTED => frame[h].local \notin {CANCELLED, CANCELING})
  <2>. HIDE DEF g, w
  <2>1. /\ g = [frame[h] EXCEPT !.local = NULL] /\ w = [g EXCEPT !.back = "waitlist"]
    BY DEF g, w
  <2>. QED BY <2>1 DEF PutReport, UpdateJobStatus
<1>. QED BY <1>4, <1>5, <1>6

LEMMA PutCancelledTurn ==
    ASSUME TypeInv, NEW h \in Handler, PutCancelled(h)
    PROVE  /\ Others(h)
           /\ pc'[h] = "readjob"
           /\ SameTask(h)
           /\ SameLists(h)
           /\ Back(h, "waitlist")
           /\ frame'[h].op = frame[h].op /\ frame'[h].of = frame[h].of /\ frame'[h].new = CANCELLED
<1>1. /\ frame[h] \in Frame /\ EmptyFrame \in Frame /\ Fits(pc[h], frame[h], Existing)
      /\ pc \in [Handler -> Steps] /\ frame \in [Handler -> Frame]
  BY ChainFits, EmptyFields DEF TypeInv, FramesOK
<1>. QED BY <1>1 DEF PutCancelled, UpdateJobStatus, Go, Others, Frame, Fits, Backs, Thens,
     Same, SameRequest, SameTask, SameLists, SameLaunches, Back, Goes

LEMMA AgentReturnsTurn ==
    ASSUME TypeInv, NEW h \in Handler, AgentReturns(h)
    PROVE  /\ Others(h)
           /\ pc'[h] = "waitlist"
           /\ Begins(h, "waiting")
           /\ frame'[h].new = NULL
<1>1. /\ frame[h] \in Frame /\ EmptyFrame \in Frame /\ Fits(pc[h], frame[h], Existing)
      /\ pc \in [Handler -> Steps] /\ frame \in [Handler -> Frame]
  BY ChainFits, EmptyFields DEF TypeInv, FramesOK
<1>. QED BY <1>1, EmptyFields DEF AgentReturns, Begins, Go, Others, Frame, Fits, Backs, Thens,
     Same, SameRequest, SameTask, SameLists, SameLaunches, Back, Goes

LEMMA ListWaitingTasksTurn ==
    ASSUME TypeInv, NEW h \in Handler, ListWaitingTasks(h)
    PROVE  /\ Others(h)
           /\ pc'[h] = "waiting"
           /\ SameRequest(h)
           /\ SameTask(h)
           /\ SameLaunches(h)
           /\ Back(h, "idle")
           /\ frame'[h].todo = {t \in Task : taskStatus[t] = WAITING_FOR_AGENT}
<1>1. /\ frame[h] \in Frame /\ EmptyFrame \in Frame /\ Fits(pc[h], frame[h], Existing)
      /\ pc \in [Handler -> Steps] /\ frame \in [Handler -> Frame]
  BY ChainFits, EmptyFields DEF TypeInv, FramesOK
<1>. QED BY <1>1 DEF ListWaitingTasks, Go, Others, Frame, Fits, Backs, Thens,
     Same, SameRequest, SameTask, SameLists, SameLaunches, Back, Goes

LEMMA ExamineWaitingTaskTurn ==
    ASSUME TypeInv, NEW h \in Handler, ExamineWaitingTask(h)
    PROVE  /\ Others(h)
           /\ pc'[h] \in {"take", "waiting"}
           /\ SameRequest(h)
           /\ SameLaunches(h)
           /\ Back(h, frame[h].back)
           /\ frame'[h].out = frame[h].out /\ frame'[h].then = frame[h].then
           /\ \E t \in frame[h].todo :
                 /\ frame'[h].todo = frame[h].todo \ {t}
                 /\ pc'[h] = "take" => Root(t) /\ frame'[h].task = t
                 /\ pc'[h] = "waiting" => frame'[h].task = frame[h].task
<1>1. /\ frame[h] \in Frame /\ EmptyFrame \in Frame /\ Fits(pc[h], frame[h], Existing)
      /\ pc \in [Handler -> Steps] /\ frame \in [Handler -> Frame]
  BY ChainFits, EmptyFields DEF TypeInv, FramesOK
<1>2. PICK t \in frame[h].todo : 
        IF Root(t) /\ taskStatus[t] = WAITING_FOR_AGENT
        THEN Go(h, "take", [frame[h] EXCEPT !.todo = frame[h].todo \ {t}, !.task = t])
        ELSE Go(h, "waiting", [frame[h] EXCEPT !.todo = frame[h].todo \ {t}])
  BY DEF ExamineWaitingTask
<1>3. CASE Root(t) /\ taskStatus[t] = WAITING_FOR_AGENT
  <2>1. Go(h, "take", [frame[h] EXCEPT !.todo = frame[h].todo \ {t}, !.task = t])
    BY <1>1, <1>2, <1>3
  <2>. QED BY <1>1, <1>2, <1>3, <2>1 DEF Go, Others, Frame, Fits, Backs, Thens,
       Same, SameRequest, SameTask, SameLists, SameLaunches, Back, Goes
<1>4. CASE ~(Root(t) /\ taskStatus[t] = WAITING_FOR_AGENT)
  <2>1. Go(h, "waiting", [frame[h] EXCEPT !.todo = frame[h].todo \ {t}])
    BY <1>1, <1>2, <1>4
  <2>. QED BY <1>1, <1>2, <1>4, <2>1 DEF Go, Others, Frame, Fits, Backs, Thens,
       Same, SameRequest, SameTask, SameLists, SameLaunches, Back, Goes
<1>. QED BY <1>3, <1>4

LEMMA TakeWaitingTaskTurn ==
    ASSUME TypeInv, NEW h \in Handler, TakeWaitingTask(h)
    PROVE  /\ Others(h)
           /\ pc'[h] \in {"route", "idle"}
           /\ pc'[h] = "route" =>
                 /\ SameRequest(h) /\ SameLists(h) /\ Back(h, frame[h].back)
                 /\ frame'[h].task = frame[h].task /\ frame'[h].then = "waiting" /\ frame'[h].out = frame[h].out
                 /\ taskStatus[frame[h].task] = WAITING_FOR_AGENT /\ SetTask(frame[h].task, NOT_STARTED)
           /\ pc'[h] = "idle" => frame'[h] = EmptyFrame /\ UNCHANGED taskStatus
<1>1. /\ frame[h] \in Frame /\ EmptyFrame \in Frame /\ Fits(pc[h], frame[h], Existing)
      /\ pc \in [Handler -> Steps] /\ frame \in [Handler -> Frame]
  BY ChainFits, EmptyFields DEF TypeInv, FramesOK
<1>2. CASE StillWaiting(frame[h].task)
  <2>1. /\ SetTask(frame[h].task, NOT_STARTED)
        /\ Go(h, "route", [frame[h] EXCEPT !.task = frame[h].task, !.local = NOT_STARTED, !.then = "waiting"])
    BY <1>1, <1>2 DEF TakeWaitingTask, Publish, StillWaiting
  <2>. QED BY <1>1, <1>2, <2>1 DEF Publish, StillWaiting, Go, Others, Frame, Fits, Backs, Thens,
       Same, SameRequest, SameTask, SameLists, SameLaunches, Back, Goes
<1>3. CASE ~StillWaiting(frame[h].task)
  BY <1>1, <1>3 DEF TakeWaitingTask, Publish, StillWaiting, Go, Others, Frame, Fits, Backs, Thens,
     Same, SameRequest, SameTask, SameLists, SameLaunches, Back, Goes
<1>. QED BY <1>2, <1>3

LEMMA WaitingTasksDoneTurn ==
    ASSUME TypeInv, NEW h \in Handler, WaitingTasksDone(h)
    PROVE  /\ Others(h)
           /\ pc'[h] \in {"down", "idle"}
           /\ Goes(h)
           /\ pc'[h] = "down" => frame[h].op = "report"
<1>1. /\ frame[h] \in Frame /\ EmptyFrame \in Frame /\ Fits(pc[h], frame[h], Existing)
      /\ pc \in [Handler -> Steps] /\ frame \in [Handler -> Frame]
  BY ChainFits, EmptyFields DEF TypeInv, FramesOK
<1>. QED BY <1>1 DEF WaitingTasksDone, Go, Others, Frame, Fits, Backs, Thens,
     Same, SameRequest, SameTask, SameLists, SameLaunches, Back, Goes

LEMMA BeginDownstreamTurn ==
    ASSUME TypeInv, NEW h \in Handler, BeginDownstream(h)
    PROVE  /\ Others(h)
           /\ pc'[h] \in {"after", "downing"}
           /\ SameRequest(h)
           /\ SameTask(h)
           /\ Back(h, frame[h].back)
           /\ frame'[h].todo = frame[h].todo /\ frame'[h].launch = frame[h].launch
           /\ frame'[h].launchTo \subseteq frame[h].launchTo \cup RoutedTo(outcome[frame[h].of].task, frame[h].route)
<1>1. /\ frame[h] \in Frame /\ EmptyFrame \in Frame /\ Fits(pc[h], frame[h], Existing)
      /\ pc \in [Handler -> Steps] /\ frame \in [Handler -> Frame]
  BY ChainFits, EmptyFields DEF TypeInv, FramesOK
<1>2. CASE frame[h].kept \in {INTERRUPTING, INTERRUPTED}
  BY <1>1, <1>2 DEF BeginDownstream, Go, Others, Frame, Fits, Backs, Thens,
     Same, SameRequest, SameTask, SameLists, SameLaunches, Back, Goes
<1>3. CASE frame[h].kept \notin {INTERRUPTING, INTERRUPTED}
  <2>1. Go(h, "downing",
                [frame[h] EXCEPT !.down = Downstream(outcome[frame[h].of].task),
                                 !.launchTo = IF frame[h].kept \in {CANCELING, COMPLETED} THEN {}
                                              ELSE RoutedTo(outcome[frame[h].of].task, frame[h].route)])
    BY <1>1, <1>3 DEF BeginDownstream
  <2>. QED BY <1>1, <1>3, <2>1 DEF Go, Others, Frame, Fits, Backs, Thens,
       Same, SameRequest, SameTask, SameLists, SameLaunches, Back, Goes
<1>. QED BY <1>2, <1>3

LEMMA DescendTurn ==
    ASSUME TypeInv, NEW h \in Handler, Descend(h)
    PROVE  /\ Others(h)
           /\ pc'[h] \in {"downing", "skipread"}
           /\ SameRequest(h)
           /\ SameTask(h)
           /\ Back(h, frame[h].back)
           /\ frame'[h].todo = frame[h].todo /\ frame'[h].launchTo = frame[h].launchTo
           /\ LET u == outcome[frame[h].of].task
               IN  \E d \in frame[h].down :
                     \/ /\ UNCHANGED <<upDep, matched>> /\ frame'[h].launch = frame[h].launch
                     \/ /\ Follows(d, u, frame[h].route)
                        /\ upDep' = [upDep EXCEPT ![d] = @ \ {u}] /\ matched' = matched \cup {<<u, d>>}
                        /\ frame'[h].launch = frame[h].launch \cup {x \in {d} : LastAwaited(d, u)}
<1>1. /\ frame[h] \in Frame /\ EmptyFrame \in Frame /\ Fits(pc[h], frame[h], Existing)
      /\ pc \in [Handler -> Steps] /\ frame \in [Handler -> Frame]
  BY ChainFits, EmptyFields DEF TypeInv, FramesOK
<1>. DEFINE f == frame[h]
            u == outcome[f.of].task
<1>2. PICK d \in f.down :
        LET k == [f EXCEPT !.down = f.down \ {d}]
        IN  IF f.kept \notin {CANCELING, COMPLETED} /\ Follows(d, u, f.route)
            THEN /\ upDep' = [upDep EXCEPT ![d] = @ \ {u}]
                 /\ matched' = matched \cup {<<u, d>>}
                 /\ Go(h, "downing", [k EXCEPT !.launch = IF LastAwaited(d, u) THEN @ \cup {d} ELSE @])
            ELSE /\ UNCHANGED <<upDep, matched>>
                 /\ IF f.kept \in {CANCELING, COMPLETED} \/ f.route # "fail"
                    THEN Go(h, "skipread", [k EXCEPT !.skip = <<d>>])
                    ELSE Go(h, "downing", k)
  BY DEF Descend
<1>. DEFINE k == [f EXCEPT !.down = f.down \ {d}]
            g == [k EXCEPT !.launch = IF LastAwaited(d, u) THEN @ \cup {d} ELSE @]
            s == [k EXCEPT !.skip = <<d>>]
<1>3. k \in Frame /\ SameLocals(f, k) /\ k.back = f.back
  BY <1>1 DEF Frame, SameLocals
<1>4. CASE Follows(d, u, f.route) /\ upDep' = [upDep EXCEPT ![d] = @ \ {u}]
           /\ matched' = matched \cup {<<u, d>>} /\ Go(h, "downing", g)
  <2>1. frame'[h] = g /\ Others(h) /\ pc'[h] = "downing"
    BY <1>1, <1>4 DEF Go, Others
  <2>2. /\ g.op = f.op /\ g.of = f.of /\ g.new = f.new /\ g.task = f.task /\ g.out = f.out
        /\ g.then = f.then /\ g.back = f.back /\ g.todo = f.todo /\ g.launchTo = f.launchTo
        /\ g.route = f.route
        /\ g.launch = f.launch \cup {x \in {d} : LastAwaited(d, u)}
    BY <1>3 DEF Frame, SameLocals
  <2>. HIDE DEF g
  <2>. QED BY <1>4, <2>1, <2>2 DEF SameRequest, SameTask, Back
<1>5. CASE /\ UNCHANGED <<upDep, matched>>
           /\ (Go(h, "skipread", s) \/ Go(h, "downing", k))
  <2>1. s \in Frame /\ SameLocals(f, s) /\ s.back = f.back
    <3>1. <<d>> \in Seq(Task)
      BY <1>1 DEF Frame
    <3>. QED BY <1>3, <3>1 DEF Frame, SameLocals
  <2>2. frame'[h] \in {s, k} /\ Others(h) /\ pc'[h] \in {"downing", "skipread"}
    BY <1>1, <1>5 DEF Go, Others
  <2>. HIDE DEF s, k
  <2>. QED BY <1>3, <1>5, <2>1, <2>2 DEF SameLocals, SameRequest, SameTask, Back
<1>. QED BY <1>2, <1>4, <1>5

LEMMA ReadSkippedTurn ==
    ASSUME TypeInv, NEW h \in Handler, ReadSkipped(h)
    PROVE  /\ Others(h)
           /\ pc'[h] \in {"downing", "skipwrite", "skipread"}
           /\ Same(h)
           /\ Back(h, frame[h].back)
<1>1. /\ frame[h] \in Frame /\ EmptyFrame \in Frame /\ Fits(pc[h], frame[h], Existing)
      /\ pc \in [Handler -> Steps] /\ frame \in [Handler -> Frame]
  BY ChainFits, EmptyFields DEF TypeInv, FramesOK
<1>. QED BY <1>1 DEF ReadSkipped, Go, Others, Frame, Fits, Backs, Thens,
     Same, SameRequest, SameTask, SameLists, SameLaunches, Back, Goes

LEMMA WriteSkippedTurn ==
    ASSUME TypeInv, NEW h \in Handler, WriteSkipped(h)
    PROVE  /\ Others(h)
           /\ pc'[h] = "skipread"
           /\ Same(h)
           /\ Back(h, frame[h].back)
<1>1. /\ frame[h] \in Frame /\ EmptyFrame \in Frame /\ Fits(pc[h], frame[h], Existing)
      /\ pc \in [Handler -> Steps] /\ frame \in [Handler -> Frame]
  BY ChainFits, EmptyFields DEF TypeInv, FramesOK
<1>. QED BY <1>1 DEF WriteSkipped, Go, Others, Frame, Fits, Backs, Thens,
     Same, SameRequest, SameTask, SameLists, SameLaunches, Back, Goes

LEMMA DescendEndsTurn ==
    ASSUME TypeInv, NEW h \in Handler, DescendEnds(h)
    PROVE  /\ Others(h)
           /\ pc'[h] = "launching"
           /\ Same(h)
           /\ Back(h, frame[h].back)
<1>1. /\ frame[h] \in Frame /\ EmptyFrame \in Frame /\ Fits(pc[h], frame[h], Existing)
      /\ pc \in [Handler -> Steps] /\ frame \in [Handler -> Frame]
  BY ChainFits, EmptyFields DEF TypeInv, FramesOK
<1>. QED BY <1>1 DEF DescendEnds, Go, Others, Frame, Fits, Backs, Thens,
     Same, SameRequest, SameTask, SameLists, SameLaunches, Back, Goes

LEMMA LaunchRouteTargetTurn ==
    ASSUME TypeInv, NEW h \in Handler, LaunchRouteTarget(h)
    PROVE  /\ Others(h)
           /\ pc'[h] = "route"
           /\ SameRequest(h)
           /\ Back(h, frame[h].back)
           /\ frame'[h].todo = frame[h].todo /\ frame'[h].launch = frame[h].launch
           /\ \E t \in frame[h].launchTo :
                 /\ frame'[h].task = t /\ frame'[h].then = "launching" /\ frame'[h].out = frame[h].out
                 /\ frame'[h].launchTo = frame[h].launchTo \ {t}
<1>1. /\ frame[h] \in Frame /\ EmptyFrame \in Frame /\ Fits(pc[h], frame[h], Existing)
      /\ pc \in [Handler -> Steps] /\ frame \in [Handler -> Frame]
  BY ChainFits, EmptyFields DEF TypeInv, FramesOK
<1>. QED BY <1>1 DEF LaunchRouteTarget, Publish, Go, Others, Frame, Fits, Backs, Thens,
     Same, SameRequest, SameTask, SameLists, SameLaunches, Back, Goes

LEMMA LaunchDownstreamTaskTurn ==
    ASSUME TypeInv, NEW h \in Handler, LaunchDownstreamTask(h)
    PROVE  /\ Others(h)
           /\ pc'[h] \in {"route", "launching"}
           /\ SameRequest(h)
           /\ Back(h, frame[h].back)
           /\ frame'[h].todo = frame[h].todo /\ frame'[h].launchTo = frame[h].launchTo /\ frame'[h].out = frame[h].out
           /\ \E t \in frame[h].launch :
                 /\ frame'[h].launch = frame[h].launch \ {t}
                 /\ pc'[h] = "route" =>
                      /\ frame'[h].task = t /\ frame'[h].then = "launching"
                      /\ taskStatus[t] = NULL /\ SetTask(t, NOT_STARTED)
                 /\ pc'[h] = "launching" =>
                      /\ frame'[h].task = frame[h].task /\ frame'[h].then = frame[h].then
                      /\ UNCHANGED taskStatus
<1>1. /\ frame[h] \in Frame /\ EmptyFrame \in Frame /\ Fits(pc[h], frame[h], Existing)
      /\ pc \in [Handler -> Steps] /\ frame \in [Handler -> Frame]
  BY ChainFits, EmptyFields DEF TypeInv, FramesOK
<1>2. PICK t \in frame[h].launch : 
        LET g == [frame[h] EXCEPT !.launch = @ \ {t}]
        IN  IF NeverLaunched(t)
            THEN SetTask(t, NOT_STARTED) /\ Publish(h, g, t, NOT_STARTED, "launching")
            ELSE UNCHANGED taskStatus /\ Go(h, "launching", g)
  BY DEF LaunchDownstreamTask
<1>3. CASE NeverLaunched(t)
  <2>1. /\ SetTask(t, NOT_STARTED)
        /\ Go(h, "route", [[frame[h] EXCEPT !.launch = @ \ {t}] EXCEPT
                  !.task = t, !.local = NOT_STARTED, !.then = "launching"])
    BY <1>1, <1>2, <1>3 DEF Publish, NeverLaunched
  <2>. QED BY <1>1, <1>2, <1>3, <2>1 DEF Publish, NeverLaunched, Go, Others, Frame, Fits, Backs, Thens,
       Same, SameRequest, SameTask, SameLists, SameLaunches, Back, Goes
<1>4. CASE ~NeverLaunched(t)
  <2>1. UNCHANGED taskStatus /\ Go(h, "launching", [frame[h] EXCEPT !.launch = @ \ {t}])
    BY <1>1, <1>2, <1>4 DEF Publish, NeverLaunched
  <2>. QED BY <1>1, <1>2, <1>4, <2>1 DEF Publish, NeverLaunched, Go, Others, Frame, Fits, Backs, Thens,
       Same, SameRequest, SameTask, SameLists, SameLaunches, Back, Goes
<1>. QED BY <1>3, <1>4

LEMMA LaunchEndsTurn ==
    ASSUME TypeInv, NEW h \in Handler, LaunchEnds(h)
    PROVE  /\ Others(h)
           /\ pc'[h] = "after"
           /\ Same(h)
           /\ Back(h, frame[h].back)
<1>1. /\ frame[h] \in Frame /\ EmptyFrame \in Frame /\ Fits(pc[h], frame[h], Existing)
      /\ pc \in [Handler -> Steps] /\ frame \in [Handler -> Frame]
  BY ChainFits, EmptyFields DEF TypeInv, FramesOK
<1>. QED BY <1>1 DEF LaunchEnds, Go, Others, Frame, Fits, Backs, Thens,
     Same, SameRequest, SameTask, SameLists, SameLaunches, Back, Goes

LEMMA AfterDownstreamTurn ==
    ASSUME TypeInv, NEW h \in Handler, AfterDownstream(h)
    PROVE  /\ Others(h)
           /\ pc'[h] \in {"republish", "finish"}
           /\ Same(h)
           /\ Back(h, frame[h].back)
           /\ pc'[h] = "republish" <=> frame[h].new = INTERRUPTED /\ outcome[frame[h].of].task \in AutoRestart
<1>1. /\ frame[h] \in Frame /\ EmptyFrame \in Frame /\ Fits(pc[h], frame[h], Existing)
      /\ pc \in [Handler -> Steps] /\ frame \in [Handler -> Frame]
  BY ChainFits, EmptyFields DEF TypeInv, FramesOK
<1>. QED BY <1>1 DEF AfterDownstream, Go, Others, Frame, Fits, Backs, Thens,
     Same, SameRequest, SameTask, SameLists, SameLaunches, Back, Goes

LEMMA RepublishTaskTurn ==
    ASSUME TypeInv, NEW h \in Handler, RepublishTask(h)
    PROVE  /\ Others(h)
           /\ pc'[h] \in {"route", "finish"}
           /\ SameRequest(h)
           /\ SameLists(h)
           /\ Back(h, frame[h].back)
           /\ frame'[h].out = frame[h].out
           /\ pc'[h] = "route" =>
                 /\ frame'[h].task = outcome[frame[h].of].task /\ frame'[h].then = "finish"
                 /\ SetTask(outcome[frame[h].of].task, NOT_STARTED)
           /\ pc'[h] = "finish" => frame'[h].task = frame[h].task /\ frame'[h].then = frame[h].then /\ UNCHANGED taskStatus
<1>1. /\ frame[h] \in Frame /\ EmptyFrame \in Frame /\ Fits(pc[h], frame[h], Existing)
      /\ pc \in [Handler -> Steps] /\ frame \in [Handler -> Frame]
  BY ChainFits, EmptyFields DEF TypeInv, FramesOK
<1>2. CASE taskStatus[outcome[frame[h].of].task] \in NOT_STARTED..PUBLISHED
  <2>1. /\ SetTask(outcome[frame[h].of].task, NOT_STARTED)
        /\ Go(h, "route", [frame[h] EXCEPT !.task = outcome[frame[h].of].task,
                  !.local = NOT_STARTED, !.then = "finish"])
    BY <1>1, <1>2 DEF RepublishTask, Publish
  <2>. QED BY <1>1, <1>2, <2>1 DEF Publish, Go, Others, Frame, Fits, Backs, Thens,
       Same, SameRequest, SameTask, SameLists, SameLaunches, Back, Goes
<1>3. CASE ~(taskStatus[outcome[frame[h].of].task] \in NOT_STARTED..PUBLISHED)
  BY <1>1, <1>3 DEF RepublishTask, Publish, Go, Others, Frame, Fits, Backs, Thens,
     Same, SameRequest, SameTask, SameLists, SameLaunches, Back, Goes
<1>. QED BY <1>2, <1>3

LEMMA FinishReportTurn ==
    ASSUME TypeInv, NEW h \in Handler, FinishReport(h)
    PROVE  /\ Others(h)
           /\ pc'[h] = "readjob"
           /\ frame'[h].op = "report" /\ frame'[h].of = frame[h].of /\ frame'[h].new = NULL
           /\ frame'[h].task = NoTask /\ frame'[h].out = NoOutcome /\ frame'[h].then = "idle" /\ Back(h, "idle")
           /\ frame'[h].todo = {} /\ frame'[h].launch = {} /\ frame'[h].launchTo = {}
<1>1. /\ frame[h] \in Frame /\ EmptyFrame \in Frame /\ Fits(pc[h], frame[h], Existing)
      /\ pc \in [Handler -> Steps] /\ frame \in [Handler -> Frame]
  BY ChainFits, EmptyFields DEF TypeInv, FramesOK
<1>. QED BY <1>1 DEF FinishReport, UpdateJobStatus, EmptyFrame, Go, Others, Frame, Fits, Backs, Thens,
     Same, SameRequest, SameTask, SameLists, SameLaunches, Back, Goes

LEMMA RestartJobTurn ==
    ASSUME TypeInv, NEW h \in Handler, RestartJob(h)
    PROVE  /\ Others(h)
           /\ pc'[h] = "restartlist"
           /\ Begins(h, "restart")
           /\ frame'[h].new = NULL
           /\ started
<1>1. /\ frame[h] \in Frame /\ EmptyFrame \in Frame /\ Fits(pc[h], frame[h], Existing)
      /\ pc \in [Handler -> Steps] /\ frame \in [Handler -> Frame]
  BY ChainFits, EmptyFields DEF TypeInv, FramesOK
<1>. QED BY <1>1, EmptyFields DEF RestartJob, JobAction, Begins, Go, Others, Frame, Fits, Backs, Thens,
     Same, SameRequest, SameTask, SameLists, SameLaunches, Back, Goes

LEMMA CancelJobTurn ==
    ASSUME TypeInv, NEW h \in Handler, CancelJob(h)
    PROVE  /\ Others(h)
           /\ pc'[h] = "canceltasks"
           /\ Begins(h, "cancel")
           /\ frame'[h].new = NULL
           /\ started
<1>1. /\ frame[h] \in Frame /\ EmptyFrame \in Frame /\ Fits(pc[h], frame[h], Existing)
      /\ pc \in [Handler -> Steps] /\ frame \in [Handler -> Frame]
  BY ChainFits, EmptyFields DEF TypeInv, FramesOK
<1>. QED BY <1>1, EmptyFields DEF CancelJob, JobAction, Begins, Go, Others, Frame, Fits, Backs, Thens,
     Same, SameRequest, SameTask, SameLists, SameLaunches, Back, Goes

LEMMA InterruptJobTurn ==
    ASSUME TypeInv, NEW h \in Handler, InterruptJob(h)
    PROVE  /\ Others(h)
           /\ pc'[h] = "interrupttasks"
           /\ Begins(h, "interrupt")
           /\ frame'[h].new = NULL
           /\ started
<1>1. /\ frame[h] \in Frame /\ EmptyFrame \in Frame /\ Fits(pc[h], frame[h], Existing)
      /\ pc \in [Handler -> Steps] /\ frame \in [Handler -> Frame]
  BY ChainFits, EmptyFields DEF TypeInv, FramesOK
<1>. QED BY <1>1, EmptyFields DEF InterruptJob, JobAction, Begins, Go, Others, Frame, Fits, Backs, Thens,
     Same, SameRequest, SameTask, SameLists, SameLaunches, Back, Goes

LEMMA ListTasksToStopTurn ==
    ASSUME TypeInv, NEW h \in Handler, ListTasksToStop(h)
    PROVE  /\ Others(h)
           /\ pc'[h] = "stoptasks"
           /\ SameRequest(h)
           /\ SameTask(h)
           /\ SameLaunches(h)
           /\ Back(h, frame[h].back)
<1>1. /\ frame[h] \in Frame /\ EmptyFrame \in Frame /\ Fits(pc[h], frame[h], Existing)
      /\ pc \in [Handler -> Steps] /\ frame \in [Handler -> Frame]
  BY ChainFits, EmptyFields DEF TypeInv, FramesOK
<1>. QED BY <1>1 DEF ListTasksToStop, Go, Others, Frame, Fits, Backs, Thens,
     Same, SameRequest, SameTask, SameLists, SameLaunches, Back, Goes

LEMMA StopTaskTurn ==
    ASSUME TypeInv, NEW h \in Handler, StopTask(h)
    PROVE  /\ Others(h)
           /\ pc'[h] = "stoptasks"
           /\ SameRequest(h)
           /\ SameTask(h)
           /\ SameLaunches(h)
           /\ Back(h, frame[h].back)
           /\ frame'[h].todo \subseteq frame[h].todo
<1>1. /\ frame[h] \in Frame /\ EmptyFrame \in Frame /\ Fits(pc[h], frame[h], Existing)
      /\ pc \in [Handler -> Steps] /\ frame \in [Handler -> Frame]
  BY ChainFits, EmptyFields DEF TypeInv, FramesOK
<1>. QED BY <1>1 DEF StopTask, Go, Others, Frame, Fits, Backs, Thens,
     Same, SameRequest, SameTask, SameLists, SameLaunches, Back, Goes

LEMMA ListOutcomesToStopTurn ==
    ASSUME TypeInv, NEW h \in Handler, ListOutcomesToStop(h)
    PROVE  /\ Others(h)
           /\ pc'[h] = "stopping"
           /\ Same(h)
           /\ Back(h, frame[h].back)
<1>1. /\ frame[h] \in Frame /\ EmptyFrame \in Frame /\ Fits(pc[h], frame[h], Existing)
      /\ pc \in [Handler -> Steps] /\ frame \in [Handler -> Frame]
  BY ChainFits, EmptyFields DEF TypeInv, FramesOK
<1>. QED BY <1>1 DEF ListOutcomesToStop, Go, Others, Frame, Fits, Backs, Thens,
     Same, SameRequest, SameTask, SameLists, SameLaunches, Back, Goes

LEMMA StopNextOutcomeTurn ==
    ASSUME TypeInv, NEW h \in Handler, StopNextOutcome(h)
    PROVE  /\ Others(h)
           /\ pc'[h] = "stopping"
           /\ Same(h)
           /\ Back(h, frame[h].back)
<1>1. /\ frame[h] \in Frame /\ EmptyFrame \in Frame /\ Fits(pc[h], frame[h], Existing)
      /\ pc \in [Handler -> Steps] /\ frame \in [Handler -> Frame]
  BY ChainFits, EmptyFields DEF TypeInv, FramesOK
<1>. QED BY <1>1 DEF StopNextOutcome, Go, Others, Frame, Fits, Backs, Thens,
     Same, SameRequest, SameTask, SameLists, SameLaunches, Back, Goes

LEMMA JobStoppedTurn ==
    ASSUME TypeInv, NEW h \in Handler, JobStopped(h)
    PROVE  /\ Others(h)
           /\ pc'[h] = "outcomes"
           /\ Same(h)
           /\ Back(h, "idle")
<1>1. /\ frame[h] \in Frame /\ EmptyFrame \in Frame /\ Fits(pc[h], frame[h], Existing)
      /\ pc \in [Handler -> Steps] /\ frame \in [Handler -> Frame]
  BY ChainFits, EmptyFields DEF TypeInv, FramesOK
<1>. QED BY <1>1 DEF JobStopped, UpdatePassedJob, Go, Others, Frame, Fits, Backs, Thens,
     Same, SameRequest, SameTask, SameLists, SameLaunches, Back, Goes

LEMMA ListOutcomesToRestartTurn ==
    ASSUME TypeInv, NEW h \in Handler, ListOutcomesToRestart(h)
    PROVE  /\ Others(h)
           /\ pc'[h] = "restarting"
           /\ Same(h)
           /\ Back(h, frame[h].back)
<1>1. /\ frame[h] \in Frame /\ EmptyFrame \in Frame /\ Fits(pc[h], frame[h], Existing)
      /\ pc \in [Handler -> Steps] /\ frame \in [Handler -> Frame]
  BY ChainFits, EmptyFields DEF TypeInv, FramesOK
<1>. QED BY <1>1 DEF ListOutcomesToRestart, Go, Others, Frame, Fits, Backs, Thens,
     Same, SameRequest, SameTask, SameLists, SameLaunches, Back, Goes

LEMMA RestartOutcomeTurn ==
    ASSUME TypeInv, NEW h \in Handler, RestartOutcome(h)
    PROVE  /\ Others(h)
           /\ pc'[h] \in {"reset", "restarting"}
           /\ SameRequest(h)
           /\ SameLists(h)
           /\ Back(h, frame[h].back)
           /\ frame'[h].out = frame[h].out /\ frame'[h].then = frame[h].then
           /\ pc'[h] = "restarting" => frame'[h].task = frame[h].task /\ UNCHANGED outcome
           /\ pc'[h] = "reset" => \E o \in frame[h].todoOut :
                 /\ frame'[h].task = outcome[o].task /\ outcome[o].status \in {INTERRUPTED, FAILED}
                 /\ outcome' = [outcome EXCEPT ![o].status = CANCELLED, ![o].route = ""]
<1>1. /\ frame[h] \in Frame /\ EmptyFrame \in Frame /\ Fits(pc[h], frame[h], Existing)
      /\ pc \in [Handler -> Steps] /\ frame \in [Handler -> Frame]
  BY ChainFits, EmptyFields DEF TypeInv, FramesOK
<1>2. PICK o \in frame[h].todoOut : 
        LET g == [frame[h] EXCEPT !.todoOut = @ \ {o}]
        IN  IF Restartable(o)
            THEN /\ outcome' = [outcome EXCEPT ![o].status = CANCELLED, ![o].route = ""]
                 /\ Go(h, "reset", [g EXCEPT !.task = outcome[o].task])
            ELSE UNCHANGED outcome /\ Go(h, "restarting", g)
  BY DEF RestartOutcome
<1>3. CASE Restartable(o)
  <2>1. /\ outcome' = [outcome EXCEPT ![o].status = CANCELLED, ![o].route = ""]
        /\ Go(h, "reset", [[frame[h] EXCEPT !.todoOut = @ \ {o}] EXCEPT !.task = outcome[o].task])
    BY <1>1, <1>2, <1>3 DEF Restartable
  <2>. QED BY <1>1, <1>2, <1>3, <2>1 DEF Restartable, Go, Others, Frame, Fits, Backs, Thens,
       Same, SameRequest, SameTask, SameLists, SameLaunches, Back, Goes
<1>4. CASE ~Restartable(o)
  BY <1>1, <1>2, <1>4 DEF Restartable, Go, Others, Frame, Fits, Backs, Thens,
     Same, SameRequest, SameTask, SameLists, SameLaunches, Back, Goes
<1>. QED BY <1>3, <1>4

LEMMA ResetTaskTurn ==
    ASSUME TypeInv, NEW h \in Handler, ResetTask(h)
    PROVE  /\ Others(h)
           /\ pc'[h] = "route"
           /\ SameRequest(h)
           /\ SameLists(h)
           /\ Back(h, frame[h].back)
           /\ frame'[h].task = frame[h].task /\ frame'[h].then = "restarting" /\ frame'[h].out = frame[h].out
<1>1. /\ frame[h] \in Frame /\ EmptyFrame \in Frame /\ Fits(pc[h], frame[h], Existing)
      /\ pc \in [Handler -> Steps] /\ frame \in [Handler -> Frame]
  BY ChainFits, EmptyFields DEF TypeInv, FramesOK
<1>. QED BY <1>1 DEF ResetTask, Publish, Go, Others, Frame, Fits, Backs, Thens,
     Same, SameRequest, SameTask, SameLists, SameLaunches, Back, Goes

LEMMA OutcomesRestartedTurn ==
    ASSUME TypeInv, NEW h \in Handler, OutcomesRestarted(h)
    PROVE  /\ Others(h)
           /\ pc'[h] \in {"begin", "idle"}
           /\ Goes(h)
           /\ pc'[h] = "begin" => frame[h].op = "restart"
<1>1. /\ frame[h] \in Frame /\ EmptyFrame \in Frame /\ Fits(pc[h], frame[h], Existing)
      /\ pc \in [Handler -> Steps] /\ frame \in [Handler -> Frame]
  BY ChainFits, EmptyFields DEF TypeInv, FramesOK
<1>. QED BY <1>1 DEF OutcomesRestarted, Go, Others, Frame, Fits, Backs, Thens,
     Same, SameRequest, SameTask, SameLists, SameLaunches, Back, Goes

LEMMA RestartTaskOutcomeTurn ==
    ASSUME TypeInv, NEW h \in Handler, RestartTaskOutcome(h)
    PROVE  /\ Others(h)
           /\ pc'[h] = "restarting"
           /\ Begins(h, "restartoutcome")
           /\ frame'[h].new = NULL
<1>1. /\ frame[h] \in Frame /\ EmptyFrame \in Frame /\ Fits(pc[h], frame[h], Existing)
      /\ pc \in [Handler -> Steps] /\ frame \in [Handler -> Frame]
  BY ChainFits, EmptyFields DEF TypeInv, FramesOK
<1>. QED BY <1>1, EmptyFields DEF RestartTaskOutcome, Begins, Go, Others, Frame, Fits, Backs, Thens,
     Same, SameRequest, SameTask, SameLists, SameLaunches, Back, Goes

-----------------------------------------------------------------------------
(***************************************************************************)
(* Each point serves its requests: ServeInv is inductive                   *)
(***************************************************************************)
LEMMA ServeStep ==
    ASSUME ServeInv, NEW h \in Handler, Others(h), Serves(pc'[h], frame'[h])
    PROVE  ServeInv'
BY DEF ServeInv, Others

LEMMA ReadJobServes == ASSUME TypeInv, ServeInv, NEW h \in Handler, ReadJob(h) PROVE ServeInv'
<1>1. Serves(pc[h], frame[h]) /\ Fits(pc[h], frame[h], Existing)
  BY ChainFits DEF ServeInv
<1>2. Serves(pc'[h], frame'[h])
  BY <1>1, EmptyFields, ReadJobTurn DEF ReadJob, Fits, ReportSteps, Backs, Thens,
     Serves, Goes, Begins, Same, SameRequest, SameTask, Back
<1>. QED BY <1>2, ServeStep, ReadJobTurn

LEMMA ReadOutcomesServes == ASSUME TypeInv, ServeInv, NEW h \in Handler, ReadOutcomes(h) PROVE ServeInv'
<1>1. Serves(pc[h], frame[h]) /\ Fits(pc[h], frame[h], Existing)
  BY ChainFits DEF ServeInv
<1>2. Serves(pc'[h], frame'[h])
  BY <1>1, EmptyFields, ReadOutcomesTurn DEF ReadOutcomes, Fits, ReportSteps, Backs, Thens,
     Serves, Goes, Begins, Same, SameRequest, SameTask, Back
<1>. QED BY <1>2, ServeStep, ReadOutcomesTurn

LEMMA ReadTasksServes == ASSUME TypeInv, ServeInv, NEW h \in Handler, ReadTasks(h) PROVE ServeInv'
<1>1. Serves(pc[h], frame[h]) /\ Fits(pc[h], frame[h], Existing)
  BY ChainFits DEF ServeInv
<1>2. Serves(pc'[h], frame'[h])
  BY <1>1, EmptyFields, ReadTasksTurn DEF ReadTasks, Fits, ReportSteps, Backs, Thens,
     Serves, Goes, Begins, Same, SameRequest, SameTask, Back
<1>. QED BY <1>2, ServeStep, ReadTasksTurn

LEMMA WriteJobServes == ASSUME TypeInv, ServeInv, NEW h \in Handler, WriteJob(h) PROVE ServeInv'
<1>1. Serves(pc[h], frame[h]) /\ Fits(pc[h], frame[h], Existing)
  BY ChainFits DEF ServeInv
<1>2. Serves(pc'[h], frame'[h])
  BY <1>1, EmptyFields, WriteJobTurn DEF WriteJob, Fits, ReportSteps, Backs, Thens,
     Serves, Goes, Begins, Same, SameRequest, SameTask, Back
<1>. QED BY <1>2, ServeStep, WriteJobTurn

LEMMA RereadJobServes == ASSUME TypeInv, ServeInv, NEW h \in Handler, RereadJob(h) PROVE ServeInv'
<1>1. Serves(pc[h], frame[h]) /\ Fits(pc[h], frame[h], Existing)
  BY ChainFits DEF ServeInv
<1>2. Serves(pc'[h], frame'[h])
  BY <1>1, EmptyFields, RereadJobTurn DEF RereadJob, Fits, ReportSteps, Backs, Thens,
     Serves, Goes, Begins, Same, SameRequest, SameTask, Back
<1>. QED BY <1>2, ServeStep, RereadJobTurn

LEMMA RouteToAgentServes == ASSUME TypeInv, ServeInv, NEW h \in Handler, RouteToAgent(h) PROVE ServeInv'
<1>1. Serves(pc[h], frame[h]) /\ Fits(pc[h], frame[h], Existing)
  BY ChainFits DEF ServeInv
<1>2. Serves(pc'[h], frame'[h])
  BY <1>1, EmptyFields, RouteToAgentTurn DEF RouteToAgent, Fits, ReportSteps, Backs, Thens,
     Serves, Goes, Begins, Same, SameRequest, SameTask, Back
<1>. QED BY <1>2, ServeStep, RouteToAgentTurn

LEMMA RouteFailsServes == ASSUME TypeInv, ServeInv, NEW h \in Handler, RouteFails(h) PROVE ServeInv'
<1>1. Serves(pc[h], frame[h]) /\ Fits(pc[h], frame[h], Existing)
  BY ChainFits DEF ServeInv
<1>2. Serves(pc'[h], frame'[h])
  BY <1>1, EmptyFields, RouteFailsTurn DEF RouteFails, Fits, ReportSteps, Backs, Thens,
     Serves, Goes, Begins, Same, SameRequest, SameTask, Back
<1>. QED BY <1>2, ServeStep, RouteFailsTurn

LEMMA CreateTaskOutcomeServes == ASSUME TypeInv, ServeInv, NEW h \in Handler, CreateTaskOutcome(h) PROVE ServeInv'
<1>1. Serves(pc[h], frame[h]) /\ Fits(pc[h], frame[h], Existing)
  BY ChainFits DEF ServeInv
<1>2. Serves(pc'[h], frame'[h])
  BY <1>1, EmptyFields, CreateTaskOutcomeTurn DEF CreateTaskOutcome, Fits, ReportSteps, Backs, Thens,
     Serves, Goes, Begins, Same, SameRequest, SameTask, Back
<1>. QED BY <1>2, ServeStep, CreateTaskOutcomeTurn

LEMMA RecheckTaskServes == ASSUME TypeInv, ServeInv, NEW h \in Handler, RecheckTask(h) PROVE ServeInv'
<1>1. Serves(pc[h], frame[h]) /\ Fits(pc[h], frame[h], Existing)
  BY ChainFits DEF ServeInv
<1>2. Serves(pc'[h], frame'[h])
  BY <1>1, EmptyFields, RecheckTaskTurn DEF RecheckTask, Fits, ReportSteps, Backs, Thens,
     Serves, Goes, Begins, Same, SameRequest, SameTask, Back
<1>. QED BY <1>2, ServeStep, RecheckTaskTurn

LEMMA CancelNewOutcomeServes == ASSUME TypeInv, ServeInv, NEW h \in Handler, CancelNewOutcome(h) PROVE ServeInv'
<1>1. Serves(pc[h], frame[h]) /\ Fits(pc[h], frame[h], Existing)
  BY ChainFits DEF ServeInv
<1>2. Serves(pc'[h], frame'[h])
  BY <1>1, EmptyFields, CancelNewOutcomeTurn DEF CancelNewOutcome, Fits, ReportSteps, Backs, Thens,
     Serves, Goes, Begins, Same, SameRequest, SameTask, Back
<1>. QED BY <1>2, ServeStep, CancelNewOutcomeTurn

LEMMA SendToAgentServes == ASSUME TypeInv, ServeInv, NEW h \in Handler, SendToAgent(h) PROVE ServeInv'
<1>1. Serves(pc[h], frame[h]) /\ Fits(pc[h], frame[h], Existing)
  BY ChainFits DEF ServeInv
<1>2. Serves(pc'[h], frame'[h])
  BY <1>1, EmptyFields, SendToAgentTurn DEF SendToAgent, Fits, ReportSteps, Backs, Thens,
     Serves, Goes, Begins, Same, SameRequest, SameTask, Back
<1>. QED BY <1>2, ServeStep, SendToAgentTurn

LEMMA PublishedServes == ASSUME TypeInv, ServeInv, NEW h \in Handler, Published(h) PROVE ServeInv'
<1>1. Serves(pc[h], frame[h]) /\ Fits(pc[h], frame[h], Existing)
  BY ChainFits DEF ServeInv
<1>2. Serves(pc'[h], frame'[h])
  BY <1>1, EmptyFields, PublishedTurn DEF Published, Fits, ReportSteps, Backs, Thens,
     Serves, Goes, Begins, Same, SameRequest, SameTask, Back
<1>. QED BY <1>2, ServeStep, PublishedTurn

LEMMA BeginTasksServes == ASSUME TypeInv, ServeInv, NEW h \in Handler, BeginTasks(h) PROVE ServeInv'
<1>1. Serves(pc[h], frame[h]) /\ Fits(pc[h], frame[h], Existing)
  BY ChainFits DEF ServeInv
<1>2. Serves(pc'[h], frame'[h])
  BY <1>1, EmptyFields, BeginTasksTurn DEF BeginTasks, Fits, ReportSteps, Backs, Thens,
     Serves, Goes, Begins, Same, SameRequest, SameTask, Back
<1>. QED BY <1>2, ServeStep, BeginTasksTurn

LEMMA SnapshotTasksServes == ASSUME TypeInv, ServeInv, NEW h \in Handler, SnapshotTasks(h) PROVE ServeInv'
<1>1. Serves(pc[h], frame[h]) /\ Fits(pc[h], frame[h], Existing)
  BY ChainFits DEF ServeInv
<1>2. Serves(pc'[h], frame'[h])
  BY <1>1, EmptyFields, SnapshotTasksTurn DEF SnapshotTasks, Fits, ReportSteps, Backs, Thens,
     Serves, Goes, Begins, Same, SameRequest, SameTask, Back
<1>. QED BY <1>2, ServeStep, SnapshotTasksTurn

LEMMA StartTaskServes == ASSUME TypeInv, ServeInv, NEW h \in Handler, StartTask(h) PROVE ServeInv'
<1>1. Serves(pc[h], frame[h]) /\ Fits(pc[h], frame[h], Existing)
  BY ChainFits DEF ServeInv
<1>2. Serves(pc'[h], frame'[h])
  BY <1>1, EmptyFields, StartTaskTurn DEF StartTask, Fits, ReportSteps, Backs, Thens,
     Serves, Goes, Begins, Same, SameRequest, SameTask, Back
<1>. QED BY <1>2, ServeStep, StartTaskTurn

LEMMA TasksStartedServes == ASSUME TypeInv, ServeInv, NEW h \in Handler, TasksStarted(h) PROVE ServeInv'
<1>1. Serves(pc[h], frame[h]) /\ Fits(pc[h], frame[h], Existing)
  BY ChainFits DEF ServeInv
<1>2. Serves(pc'[h], frame'[h])
  BY <1>1, EmptyFields, TasksStartedTurn DEF TasksStarted, Fits, ReportSteps, Backs, Thens,
     Serves, Goes, Begins, Same, SameRequest, SameTask, Back
<1>. QED BY <1>2, ServeStep, TasksStartedTurn

LEMMA StartEndsServes == ASSUME TypeInv, ServeInv, NEW h \in Handler, StartEnds(h) PROVE ServeInv'
<1>1. Serves(pc[h], frame[h]) /\ Fits(pc[h], frame[h], Existing)
  BY ChainFits DEF ServeInv
<1>2. Serves(pc'[h], frame'[h])
  BY <1>1, EmptyFields, StartEndsTurn DEF StartEnds, Fits, ReportSteps, Backs, Thens,
     Serves, Goes, Begins, Same, SameRequest, SameTask, Back
<1>. QED BY <1>2, ServeStep, StartEndsTurn

LEMMA PutReportServes == ASSUME TypeInv, ServeInv, NEW h \in Handler, PutReport(h) PROVE ServeInv'
<1>1. Serves(pc[h], frame[h]) /\ Fits(pc[h], frame[h], Existing)
  BY ChainFits DEF ServeInv
<1>2. Serves(pc'[h], frame'[h])
  BY <1>1, EmptyFields, PutReportTurn DEF PutReport, Fits, ReportSteps, Backs, Thens,
     Serves, Goes, Begins, Same, SameRequest, SameTask, Back
<1>. QED BY <1>2, ServeStep, PutReportTurn

LEMMA PutCancelledServes == ASSUME TypeInv, ServeInv, NEW h \in Handler, PutCancelled(h) PROVE ServeInv'
<1>1. Serves(pc[h], frame[h]) /\ Fits(pc[h], frame[h], Existing)
  BY ChainFits DEF ServeInv
<1>2. Serves(pc'[h], frame'[h])
  BY <1>1, EmptyFields, PutCancelledTurn DEF PutCancelled, Fits, ReportSteps, Backs, Thens,
     Serves, Goes, Begins, Same, SameRequest, SameTask, Back
<1>. QED BY <1>2, ServeStep, PutCancelledTurn

LEMMA ListWaitingTasksServes == ASSUME TypeInv, ServeInv, NEW h \in Handler, ListWaitingTasks(h) PROVE ServeInv'
<1>1. Serves(pc[h], frame[h]) /\ Fits(pc[h], frame[h], Existing)
  BY ChainFits DEF ServeInv
<1>2. Serves(pc'[h], frame'[h])
  BY <1>1, EmptyFields, ListWaitingTasksTurn DEF ListWaitingTasks, Fits, ReportSteps, Backs, Thens,
     Serves, Goes, Begins, Same, SameRequest, SameTask, Back
<1>. QED BY <1>2, ServeStep, ListWaitingTasksTurn

LEMMA ExamineWaitingTaskServes == ASSUME TypeInv, ServeInv, NEW h \in Handler, ExamineWaitingTask(h) PROVE ServeInv'
<1>1. Serves(pc[h], frame[h]) /\ Fits(pc[h], frame[h], Existing)
  BY ChainFits DEF ServeInv
<1>2. Serves(pc'[h], frame'[h])
  BY <1>1, EmptyFields, ExamineWaitingTaskTurn DEF ExamineWaitingTask, Fits, ReportSteps, Backs, Thens,
     Serves, Goes, Begins, Same, SameRequest, SameTask, Back
<1>. QED BY <1>2, ServeStep, ExamineWaitingTaskTurn

LEMMA TakeWaitingTaskServes == ASSUME TypeInv, ServeInv, NEW h \in Handler, TakeWaitingTask(h) PROVE ServeInv'
<1>1. Serves(pc[h], frame[h]) /\ Fits(pc[h], frame[h], Existing)
  BY ChainFits DEF ServeInv
<1>2. Serves(pc'[h], frame'[h])
  BY <1>1, EmptyFields, TakeWaitingTaskTurn DEF TakeWaitingTask, Fits, ReportSteps, Backs, Thens,
     Serves, Goes, Begins, Same, SameRequest, SameTask, Back
<1>. QED BY <1>2, ServeStep, TakeWaitingTaskTurn

LEMMA WaitingTasksDoneServes == ASSUME TypeInv, ServeInv, NEW h \in Handler, WaitingTasksDone(h) PROVE ServeInv'
<1>1. Serves(pc[h], frame[h]) /\ Fits(pc[h], frame[h], Existing)
  BY ChainFits DEF ServeInv
<1>2. Serves(pc'[h], frame'[h])
  BY <1>1, EmptyFields, WaitingTasksDoneTurn DEF WaitingTasksDone, Fits, ReportSteps, Backs, Thens,
     Serves, Goes, Begins, Same, SameRequest, SameTask, Back
<1>. QED BY <1>2, ServeStep, WaitingTasksDoneTurn

LEMMA BeginDownstreamServes == ASSUME TypeInv, ServeInv, NEW h \in Handler, BeginDownstream(h) PROVE ServeInv'
<1>1. Serves(pc[h], frame[h]) /\ Fits(pc[h], frame[h], Existing)
  BY ChainFits DEF ServeInv
<1>2. Serves(pc'[h], frame'[h])
  BY <1>1, EmptyFields, BeginDownstreamTurn DEF BeginDownstream, Fits, ReportSteps, Backs, Thens,
     Serves, Goes, Begins, Same, SameRequest, SameTask, Back
<1>. QED BY <1>2, ServeStep, BeginDownstreamTurn

LEMMA DescendServes == ASSUME TypeInv, ServeInv, NEW h \in Handler, Descend(h) PROVE ServeInv'
<1>1. Serves(pc[h], frame[h]) /\ Fits(pc[h], frame[h], Existing)
  BY ChainFits DEF ServeInv
<1>2. Serves(pc'[h], frame'[h])
  BY <1>1, EmptyFields, DescendTurn DEF Descend, Fits, ReportSteps, Backs, Thens,
     Serves, Goes, Begins, Same, SameRequest, SameTask, Back
<1>. QED BY <1>2, ServeStep, DescendTurn

LEMMA ReadSkippedServes == ASSUME TypeInv, ServeInv, NEW h \in Handler, ReadSkipped(h) PROVE ServeInv'
<1>1. Serves(pc[h], frame[h]) /\ Fits(pc[h], frame[h], Existing)
  BY ChainFits DEF ServeInv
<1>2. Serves(pc'[h], frame'[h])
  BY <1>1, EmptyFields, ReadSkippedTurn DEF ReadSkipped, Fits, ReportSteps, Backs, Thens,
     Serves, Goes, Begins, Same, SameRequest, SameTask, Back
<1>. QED BY <1>2, ServeStep, ReadSkippedTurn

LEMMA WriteSkippedServes == ASSUME TypeInv, ServeInv, NEW h \in Handler, WriteSkipped(h) PROVE ServeInv'
<1>1. Serves(pc[h], frame[h]) /\ Fits(pc[h], frame[h], Existing)
  BY ChainFits DEF ServeInv
<1>2. Serves(pc'[h], frame'[h])
  BY <1>1, EmptyFields, WriteSkippedTurn DEF WriteSkipped, Fits, ReportSteps, Backs, Thens,
     Serves, Goes, Begins, Same, SameRequest, SameTask, Back
<1>. QED BY <1>2, ServeStep, WriteSkippedTurn

LEMMA DescendEndsServes == ASSUME TypeInv, ServeInv, NEW h \in Handler, DescendEnds(h) PROVE ServeInv'
<1>1. Serves(pc[h], frame[h]) /\ Fits(pc[h], frame[h], Existing)
  BY ChainFits DEF ServeInv
<1>2. Serves(pc'[h], frame'[h])
  BY <1>1, EmptyFields, DescendEndsTurn DEF DescendEnds, Fits, ReportSteps, Backs, Thens,
     Serves, Goes, Begins, Same, SameRequest, SameTask, Back
<1>. QED BY <1>2, ServeStep, DescendEndsTurn

LEMMA LaunchRouteTargetServes == ASSUME TypeInv, ServeInv, NEW h \in Handler, LaunchRouteTarget(h) PROVE ServeInv'
<1>1. Serves(pc[h], frame[h]) /\ Fits(pc[h], frame[h], Existing)
  BY ChainFits DEF ServeInv
<1>2. Serves(pc'[h], frame'[h])
  BY <1>1, EmptyFields, LaunchRouteTargetTurn DEF LaunchRouteTarget, Fits, ReportSteps, Backs, Thens,
     Serves, Goes, Begins, Same, SameRequest, SameTask, Back
<1>. QED BY <1>2, ServeStep, LaunchRouteTargetTurn

LEMMA LaunchDownstreamTaskServes == ASSUME TypeInv, ServeInv, NEW h \in Handler, LaunchDownstreamTask(h) PROVE ServeInv'
<1>1. Serves(pc[h], frame[h]) /\ Fits(pc[h], frame[h], Existing)
  BY ChainFits DEF ServeInv
<1>2. Serves(pc'[h], frame'[h])
  BY <1>1, EmptyFields, LaunchDownstreamTaskTurn DEF LaunchDownstreamTask, Fits, ReportSteps, Backs, Thens,
     Serves, Goes, Begins, Same, SameRequest, SameTask, Back
<1>. QED BY <1>2, ServeStep, LaunchDownstreamTaskTurn

LEMMA LaunchEndsServes == ASSUME TypeInv, ServeInv, NEW h \in Handler, LaunchEnds(h) PROVE ServeInv'
<1>1. Serves(pc[h], frame[h]) /\ Fits(pc[h], frame[h], Existing)
  BY ChainFits DEF ServeInv
<1>2. Serves(pc'[h], frame'[h])
  BY <1>1, EmptyFields, LaunchEndsTurn DEF LaunchEnds, Fits, ReportSteps, Backs, Thens,
     Serves, Goes, Begins, Same, SameRequest, SameTask, Back
<1>. QED BY <1>2, ServeStep, LaunchEndsTurn

LEMMA AfterDownstreamServes == ASSUME TypeInv, ServeInv, NEW h \in Handler, AfterDownstream(h) PROVE ServeInv'
<1>1. Serves(pc[h], frame[h]) /\ Fits(pc[h], frame[h], Existing)
  BY ChainFits DEF ServeInv
<1>2. Serves(pc'[h], frame'[h])
  BY <1>1, EmptyFields, AfterDownstreamTurn DEF AfterDownstream, Fits, ReportSteps, Backs, Thens,
     Serves, Goes, Begins, Same, SameRequest, SameTask, Back
<1>. QED BY <1>2, ServeStep, AfterDownstreamTurn

LEMMA RepublishTaskServes == ASSUME TypeInv, ServeInv, NEW h \in Handler, RepublishTask(h) PROVE ServeInv'
<1>1. Serves(pc[h], frame[h]) /\ Fits(pc[h], frame[h], Existing)
  BY ChainFits DEF ServeInv
<1>2. Serves(pc'[h], frame'[h])
  BY <1>1, EmptyFields, RepublishTaskTurn DEF RepublishTask, Fits, ReportSteps, Backs, Thens,
     Serves, Goes, Begins, Same, SameRequest, SameTask, Back
<1>. QED BY <1>2, ServeStep, RepublishTaskTurn

LEMMA FinishReportServes == ASSUME TypeInv, ServeInv, NEW h \in Handler, FinishReport(h) PROVE ServeInv'
<1>1. Serves(pc[h], frame[h]) /\ Fits(pc[h], frame[h], Existing)
  BY ChainFits DEF ServeInv
<1>2. Serves(pc'[h], frame'[h])
  BY <1>1, EmptyFields, FinishReportTurn DEF FinishReport, Fits, ReportSteps, Backs, Thens,
     Serves, Goes, Begins, Same, SameRequest, SameTask, Back
<1>. QED BY <1>2, ServeStep, FinishReportTurn

LEMMA ListTasksToStopServes == ASSUME TypeInv, ServeInv, NEW h \in Handler, ListTasksToStop(h) PROVE ServeInv'
<1>1. Serves(pc[h], frame[h]) /\ Fits(pc[h], frame[h], Existing)
  BY ChainFits DEF ServeInv
<1>2. Serves(pc'[h], frame'[h])
  BY <1>1, EmptyFields, ListTasksToStopTurn DEF ListTasksToStop, Fits, ReportSteps, Backs, Thens,
     Serves, Goes, Begins, Same, SameRequest, SameTask, Back
<1>. QED BY <1>2, ServeStep, ListTasksToStopTurn

LEMMA StopTaskServes == ASSUME TypeInv, ServeInv, NEW h \in Handler, StopTask(h) PROVE ServeInv'
<1>1. Serves(pc[h], frame[h]) /\ Fits(pc[h], frame[h], Existing)
  BY ChainFits DEF ServeInv
<1>2. Serves(pc'[h], frame'[h])
  BY <1>1, EmptyFields, StopTaskTurn DEF StopTask, Fits, ReportSteps, Backs, Thens,
     Serves, Goes, Begins, Same, SameRequest, SameTask, Back
<1>. QED BY <1>2, ServeStep, StopTaskTurn

LEMMA ListOutcomesToStopServes == ASSUME TypeInv, ServeInv, NEW h \in Handler, ListOutcomesToStop(h) PROVE ServeInv'
<1>1. Serves(pc[h], frame[h]) /\ Fits(pc[h], frame[h], Existing)
  BY ChainFits DEF ServeInv
<1>2. Serves(pc'[h], frame'[h])
  BY <1>1, EmptyFields, ListOutcomesToStopTurn DEF ListOutcomesToStop, Fits, ReportSteps, Backs, Thens,
     Serves, Goes, Begins, Same, SameRequest, SameTask, Back
<1>. QED BY <1>2, ServeStep, ListOutcomesToStopTurn

LEMMA StopNextOutcomeServes == ASSUME TypeInv, ServeInv, NEW h \in Handler, StopNextOutcome(h) PROVE ServeInv'
<1>1. Serves(pc[h], frame[h]) /\ Fits(pc[h], frame[h], Existing)
  BY ChainFits DEF ServeInv
<1>2. Serves(pc'[h], frame'[h])
  BY <1>1, EmptyFields, StopNextOutcomeTurn DEF StopNextOutcome, Fits, ReportSteps, Backs, Thens,
     Serves, Goes, Begins, Same, SameRequest, SameTask, Back
<1>. QED BY <1>2, ServeStep, StopNextOutcomeTurn

LEMMA JobStoppedServes == ASSUME TypeInv, ServeInv, NEW h \in Handler, JobStopped(h) PROVE ServeInv'
<1>1. Serves(pc[h], frame[h]) /\ Fits(pc[h], frame[h], Existing)
  BY ChainFits DEF ServeInv
<1>2. Serves(pc'[h], frame'[h])
  BY <1>1, EmptyFields, JobStoppedTurn DEF JobStopped, Fits, ReportSteps, Backs, Thens,
     Serves, Goes, Begins, Same, SameRequest, SameTask, Back
<1>. QED BY <1>2, ServeStep, JobStoppedTurn

LEMMA ListOutcomesToRestartServes == ASSUME TypeInv, ServeInv, NEW h \in Handler, ListOutcomesToRestart(h) PROVE ServeInv'
<1>1. Serves(pc[h], frame[h]) /\ Fits(pc[h], frame[h], Existing)
  BY ChainFits DEF ServeInv
<1>2. Serves(pc'[h], frame'[h])
  BY <1>1, EmptyFields, ListOutcomesToRestartTurn DEF ListOutcomesToRestart, Fits, ReportSteps, Backs, Thens,
     Serves, Goes, Begins, Same, SameRequest, SameTask, Back
<1>. QED BY <1>2, ServeStep, ListOutcomesToRestartTurn

LEMMA RestartOutcomeServes == ASSUME TypeInv, ServeInv, NEW h \in Handler, RestartOutcome(h) PROVE ServeInv'
<1>1. Serves(pc[h], frame[h]) /\ Fits(pc[h], frame[h], Existing)
  BY ChainFits DEF ServeInv
<1>2. Serves(pc'[h], frame'[h])
  BY <1>1, EmptyFields, RestartOutcomeTurn DEF RestartOutcome, Fits, ReportSteps, Backs, Thens,
     Serves, Goes, Begins, Same, SameRequest, SameTask, Back
<1>. QED BY <1>2, ServeStep, RestartOutcomeTurn

LEMMA ResetTaskServes == ASSUME TypeInv, ServeInv, NEW h \in Handler, ResetTask(h) PROVE ServeInv'
<1>1. Serves(pc[h], frame[h]) /\ Fits(pc[h], frame[h], Existing)
  BY ChainFits DEF ServeInv
<1>2. Serves(pc'[h], frame'[h])
  BY <1>1, EmptyFields, ResetTaskTurn DEF ResetTask, Fits, ReportSteps, Backs, Thens,
     Serves, Goes, Begins, Same, SameRequest, SameTask, Back
<1>. QED BY <1>2, ServeStep, ResetTaskTurn

LEMMA OutcomesRestartedServes == ASSUME TypeInv, ServeInv, NEW h \in Handler, OutcomesRestarted(h) PROVE ServeInv'
<1>1. Serves(pc[h], frame[h]) /\ Fits(pc[h], frame[h], Existing)
  BY ChainFits DEF ServeInv
<1>2. Serves(pc'[h], frame'[h])
  BY <1>1, EmptyFields, OutcomesRestartedTurn DEF OutcomesRestarted, Fits, ReportSteps, Backs, Thens,
     Serves, Goes, Begins, Same, SameRequest, SameTask, Back
<1>. QED BY <1>2, ServeStep, OutcomesRestartedTurn

LEMMA RestartJobServes == ASSUME TypeInv, ServeInv, NEW h \in Handler, RestartJob(h) PROVE ServeInv'
<1>1. Serves(pc[h], frame[h]) /\ Fits(pc[h], frame[h], Existing)
  BY ChainFits DEF ServeInv
<1>2. Serves(pc'[h], frame'[h])
  BY <1>1, EmptyFields, RestartJobTurn DEF RestartJob, JobAction, Fits, ReportSteps, Backs, Thens,
     Serves, Goes, Begins, Same, SameRequest, SameTask, Back
<1>. QED BY <1>2, ServeStep, RestartJobTurn

LEMMA CancelJobServes == ASSUME TypeInv, ServeInv, NEW h \in Handler, CancelJob(h) PROVE ServeInv'
<1>1. Serves(pc[h], frame[h]) /\ Fits(pc[h], frame[h], Existing)
  BY ChainFits DEF ServeInv
<1>2. Serves(pc'[h], frame'[h])
  BY <1>1, EmptyFields, CancelJobTurn DEF CancelJob, JobAction, Fits, ReportSteps, Backs, Thens,
     Serves, Goes, Begins, Same, SameRequest, SameTask, Back
<1>. QED BY <1>2, ServeStep, CancelJobTurn

LEMMA InterruptJobServes == ASSUME TypeInv, ServeInv, NEW h \in Handler, InterruptJob(h) PROVE ServeInv'
<1>1. Serves(pc[h], frame[h]) /\ Fits(pc[h], frame[h], Existing)
  BY ChainFits DEF ServeInv
<1>2. Serves(pc'[h], frame'[h])
  BY <1>1, EmptyFields, InterruptJobTurn DEF InterruptJob, JobAction, Fits, ReportSteps, Backs, Thens,
     Serves, Goes, Begins, Same, SameRequest, SameTask, Back
<1>. QED BY <1>2, ServeStep, InterruptJobTurn

LEMMA StopTaskOutcomeServes == ASSUME TypeInv, ServeInv, NEW h \in Handler, StopTaskOutcome(h) PROVE ServeInv'
BY DEF StopTaskOutcome, ServeInv

LEMMA RestartTaskOutcomeServes == ASSUME TypeInv, ServeInv, NEW h \in Handler, RestartTaskOutcome(h) PROVE ServeInv'
<1>1. Serves(pc[h], frame[h]) /\ Fits(pc[h], frame[h], Existing)
  BY ChainFits DEF ServeInv
<1>2. Serves(pc'[h], frame'[h])
  BY <1>1, EmptyFields, RestartTaskOutcomeTurn DEF RestartTaskOutcome, Fits, ReportSteps, Backs, Thens,
     Serves, Goes, Begins, Same, SameRequest, SameTask, Back
<1>. QED BY <1>2, ServeStep, RestartTaskOutcomeTurn

LEMMA LaunchJobServes == ASSUME TypeInv, ServeInv, NEW h \in Handler, LaunchJob(h) PROVE ServeInv'
<1>1. Serves(pc[h], frame[h]) /\ Fits(pc[h], frame[h], Existing)
  BY ChainFits DEF ServeInv
<1>2. Serves(pc'[h], frame'[h])
  BY <1>1, EmptyFields, LaunchJobTurn DEF LaunchJob, Fits, ReportSteps, Backs, Thens,
     Serves, Goes, Begins, Same, SameRequest, SameTask, Back
<1>. QED BY <1>2, ServeStep, LaunchJobTurn

LEMMA ReportArrivesServes == ASSUME TypeInv, ServeInv, NEW h \in Handler, ReportArrives(h) PROVE ServeInv'
<1>1. Serves(pc[h], frame[h]) /\ Fits(pc[h], frame[h], Existing)
  BY ChainFits DEF ServeInv
<1>2. Serves(pc'[h], frame'[h])
  BY <1>1, EmptyFields, ReportArrivesTurn DEF ReportArrives, Fits, ReportSteps, Backs, Thens,
     Serves, Goes, Begins, Same, SameRequest, SameTask, Back
<1>. QED BY <1>2, ServeStep, ReportArrivesTurn

LEMMA AgentReturnsServes == ASSUME TypeInv, ServeInv, NEW h \in Handler, AgentReturns(h) PROVE ServeInv'
<1>1. Serves(pc[h], frame[h]) /\ Fits(pc[h], frame[h], Existing)
  BY ChainFits DEF ServeInv
<1>2. Serves(pc'[h], frame'[h])
  BY <1>1, EmptyFields, AgentReturnsTurn DEF AgentReturns, Fits, ReportSteps, Backs, Thens,
     Serves, Goes, Begins, Same, SameRequest, SameTask, Back
<1>. QED BY <1>2, ServeStep, AgentReturnsTurn

-----------------------------------------------------------------------------
(***************************************************************************)
(* Only free tasks are published: JoinInv is inductive                     *)
(***************************************************************************)
\* The documents of the outcomes stay those of the same tasks.
SameTasks == Existing' = Existing /\ \A o \in Existing : outcome'[o].task = outcome[o].task

LEMMA SetStatusKeepsTasks ==
    ASSUME TypeInv, NEW o, NEW s, SetOutcome(o, s) \/ UNCHANGED outcome
    PROVE  SameTasks
BY DEF SetOutcome, TypeInv, DocumentsOK, Existing, SameTasks

LEMMA SetRouteKeepsTasks ==
    ASSUME TypeInv, NEW o, NEW s, NEW r, outcome' = [outcome EXCEPT ![o].status = s, ![o].route = r]
    PROVE  SameTasks
BY DEF TypeInv, DocumentsOK, Existing, SameTasks

LEMMA StopKeepsTasks == ASSUME TypeInv, NEW op, NEW o, StopOutcome(op, o) PROVE SameTasks
BY SetStatusKeepsTasks DEF StopOutcome

\* A chain goes on with tasks that are free, and no document of a task is created.
LEMMA ReadyStep ==
    ASSUME TypeInv, JoinInv, NEW h \in Handler, Others(h), UNCHANGED <<upDep, matched>>, SameTasks,
           Ready(frame'[h])
    PROVE  JoinInv'
<1>1. ASSUME NEW q \in Handler PROVE Ready(frame'[q])
  BY DEF JoinInv, Others
<1>2. \A o \in Existing' : Free(outcome'[o].task)
  BY DEF JoinInv, SameTasks
<1>. QED BY <1>1, <1>2 DEF JoinInv, Ready, Free

LEMMA ReadyEmpty == Ready(EmptyFrame)
BY EmptyFields DEF Ready

LEMMA ReadJobJoin == ASSUME TypeInv, ServeInv, JoinInv, NEW h \in Handler, ReadJob(h) PROVE JoinInv'
<1>1. SameTasks
  BY DEF ReadJob, docVars, SameTasks, Existing
<1>2. Ready(frame[h]) /\ Ready(EmptyFrame) /\ UNCHANGED <<upDep, matched>>
  BY ReadyEmpty DEF JoinInv, ReadJob, docVars
<1>3. Ready(frame'[h])
  BY <1>2, ReadJobTurn DEF Ready, Goes, Begins, Same, SameRequest, SameTask, SameLists, SameLaunches
<1>. QED BY <1>1, <1>2, <1>3, ReadyStep, ReadJobTurn

LEMMA ReadOutcomesJoin == ASSUME TypeInv, ServeInv, JoinInv, NEW h \in Handler, ReadOutcomes(h) PROVE JoinInv'
<1>1. SameTasks
  BY DEF ReadOutcomes, docVars, SameTasks, Existing
<1>2. Ready(frame[h]) /\ Ready(EmptyFrame) /\ UNCHANGED <<upDep, matched>>
  BY ReadyEmpty DEF JoinInv, ReadOutcomes, docVars
<1>3. Ready(frame'[h])
  BY <1>2, ReadOutcomesTurn DEF Ready, Goes, Begins, Same, SameRequest, SameTask, SameLists, SameLaunches
<1>. QED BY <1>1, <1>2, <1>3, ReadyStep, ReadOutcomesTurn

LEMMA ReadTasksJoin == ASSUME TypeInv, ServeInv, JoinInv, NEW h \in Handler, ReadTasks(h) PROVE JoinInv'
<1>1. SameTasks
  BY DEF ReadTasks, docVars, SameTasks, Existing
<1>2. Ready(frame[h]) /\ Ready(EmptyFrame) /\ UNCHANGED <<upDep, matched>>
  BY ReadyEmpty DEF JoinInv, ReadTasks, docVars
<1>3. Ready(frame'[h])
  BY <1>2, ReadTasksTurn DEF Ready, Goes, Begins, Same, SameRequest, SameTask, SameLists, SameLaunches
<1>. QED BY <1>1, <1>2, <1>3, ReadyStep, ReadTasksTurn

LEMMA WriteJobJoin == ASSUME TypeInv, ServeInv, JoinInv, NEW h \in Handler, WriteJob(h) PROVE JoinInv'
<1>1. SameTasks
  BY DEF WriteJob, docVars, SameTasks, Existing
<1>2. Ready(frame[h]) /\ Ready(EmptyFrame) /\ UNCHANGED <<upDep, matched>>
  BY ReadyEmpty DEF JoinInv, WriteJob, docVars
<1>3. Ready(frame'[h])
  BY <1>2, WriteJobTurn DEF Ready, Goes, Begins, Same, SameRequest, SameTask, SameLists, SameLaunches
<1>. QED BY <1>1, <1>2, <1>3, ReadyStep, WriteJobTurn

LEMMA RereadJobJoin == ASSUME TypeInv, ServeInv, JoinInv, NEW h \in Handler, RereadJob(h) PROVE JoinInv'
<1>1. SameTasks
  BY DEF RereadJob, docVars, SameTasks, Existing
<1>2. Ready(frame[h]) /\ Ready(EmptyFrame) /\ UNCHANGED <<upDep, matched>>
  BY ReadyEmpty DEF JoinInv, RereadJob, docVars
<1>3. Ready(frame'[h])
  BY <1>2, RereadJobTurn DEF Ready, Goes, Begins, Same, SameRequest, SameTask, SameLists, SameLaunches
<1>. QED BY <1>1, <1>2, <1>3, ReadyStep, RereadJobTurn

LEMMA RouteToAgentJoin == ASSUME TypeInv, ServeInv, JoinInv, NEW h \in Handler, RouteToAgent(h) PROVE JoinInv'
<1>1. SameTasks
  BY DEF RouteToAgent, docVars, SameTasks, Existing
<1>2. Ready(frame[h]) /\ Ready(EmptyFrame) /\ UNCHANGED <<upDep, matched>>
  BY ReadyEmpty DEF JoinInv, RouteToAgent, docVars
<1>3. Ready(frame'[h])
  BY <1>2, RouteToAgentTurn DEF Ready, Goes, Begins, Same, SameRequest, SameTask, SameLists, SameLaunches
<1>. QED BY <1>1, <1>2, <1>3, ReadyStep, RouteToAgentTurn

LEMMA RouteFailsJoin == ASSUME TypeInv, ServeInv, JoinInv, NEW h \in Handler, RouteFails(h) PROVE JoinInv'
<1>1. SameTasks
  BY DEF RouteFails, docVars, SameTasks, Existing
<1>2. Ready(frame[h]) /\ Ready(EmptyFrame) /\ UNCHANGED <<upDep, matched>>
  BY ReadyEmpty DEF JoinInv, RouteFails, docVars
<1>3. Ready(frame'[h])
  BY <1>2, RouteFailsTurn DEF Ready, Goes, Begins, Same, SameRequest, SameTask, SameLists, SameLaunches
<1>. QED BY <1>1, <1>2, <1>3, ReadyStep, RouteFailsTurn

LEMMA CreateTaskOutcomeJoin == ASSUME TypeInv, ServeInv, JoinInv, NEW h \in Handler, CreateTaskOutcome(h) PROVE JoinInv'
<1>1. PICK o \in Unused : outcome' = [outcome EXCEPT ![o] = [task |-> frame[h].task, status |-> PUBLISHED, route |-> ""]]
  BY CreateTaskOutcomeTurn
<1>2. frame[h].task \in Task /\ Ready(frame[h]) /\ UNCHANGED <<upDep, matched>>
  BY ChainFits DEF CreateTaskOutcome, Fits, JoinInv
<1>3. Existing' = Existing \cup {o} /\ \A p \in Existing : outcome'[p].task = outcome[p].task
  BY <1>1, <1>2 DEF Existing, Unused, TypeInv, DocumentsOK, ConstantsAssumption, NoTask
<1>4. outcome'[o].task = frame[h].task
  BY <1>1 DEF Unused, TypeInv, DocumentsOK
<1>5. \A p \in Existing' : Free(outcome'[p].task)
  BY <1>2, <1>3, <1>4 DEF JoinInv, Ready, ConstantsAssumption, NoTask
<1>6. \A q \in Handler : Ready(frame'[q])
  BY <1>2, CreateTaskOutcomeTurn DEF JoinInv, Ready, Others, SameRequest, SameLists, SameLaunches
<1>. QED BY <1>2, <1>5, <1>6 DEF JoinInv, Ready, Free

LEMMA RecheckTaskJoin == ASSUME TypeInv, ServeInv, JoinInv, NEW h \in Handler, RecheckTask(h) PROVE JoinInv'
<1>1. SameTasks
  BY DEF RecheckTask, docVars, SameTasks, Existing
<1>2. Ready(frame[h]) /\ Ready(EmptyFrame) /\ UNCHANGED <<upDep, matched>>
  BY ReadyEmpty DEF JoinInv, RecheckTask, docVars
<1>3. Ready(frame'[h])
  BY <1>2, RecheckTaskTurn DEF Ready, Goes, Begins, Same, SameRequest, SameTask, SameLists, SameLaunches
<1>. QED BY <1>1, <1>2, <1>3, ReadyStep, RecheckTaskTurn

LEMMA CancelNewOutcomeJoin == ASSUME TypeInv, ServeInv, JoinInv, NEW h \in Handler, CancelNewOutcome(h) PROVE JoinInv'
<1>1. SameTasks
  BY SetStatusKeepsTasks DEF CancelNewOutcome
<1>2. Ready(frame[h]) /\ Ready(EmptyFrame) /\ UNCHANGED <<upDep, matched>>
  BY ReadyEmpty DEF JoinInv, CancelNewOutcome, docVars
<1>3. Ready(frame'[h])
  BY <1>2, CancelNewOutcomeTurn DEF Ready, Goes, Begins, Same, SameRequest, SameTask, SameLists, SameLaunches
<1>. QED BY <1>1, <1>2, <1>3, ReadyStep, CancelNewOutcomeTurn

LEMMA SendToAgentJoin == ASSUME TypeInv, ServeInv, JoinInv, NEW h \in Handler, SendToAgent(h) PROVE JoinInv'
<1>1. SameTasks
  BY DEF SendToAgent, docVars, SameTasks, Existing
<1>2. Ready(frame[h]) /\ Ready(EmptyFrame) /\ UNCHANGED <<upDep, matched>>
  BY ReadyEmpty DEF JoinInv, SendToAgent, docVars
<1>3. Ready(frame'[h])
  BY <1>2, SendToAgentTurn DEF Ready, Goes, Begins, Same, SameRequest, SameTask, SameLists, SameLaunches
<1>. QED BY <1>1, <1>2, <1>3, ReadyStep, SendToAgentTurn

LEMMA PublishedJoin == ASSUME TypeInv, ServeInv, JoinInv, NEW h \in Handler, Published(h) PROVE JoinInv'
<1>1. SameTasks
  BY DEF Published, docVars, SameTasks, Existing
<1>2. Ready(frame[h]) /\ Ready(EmptyFrame) /\ UNCHANGED <<upDep, matched>>
  BY ReadyEmpty DEF JoinInv, Published, docVars
<1>3. Ready(frame'[h])
  BY <1>2, PublishedTurn DEF Ready, Goes, Begins, Same, SameRequest, SameTask, SameLists, SameLaunches
<1>. QED BY <1>1, <1>2, <1>3, ReadyStep, PublishedTurn

LEMMA BeginTasksJoin == ASSUME TypeInv, ServeInv, JoinInv, NEW h \in Handler, BeginTasks(h) PROVE JoinInv'
<1>1. SameTasks
  BY DEF BeginTasks, docVars, SameTasks, Existing
<1>2. Ready(frame[h]) /\ Ready(EmptyFrame) /\ UNCHANGED <<upDep, matched>>
  BY ReadyEmpty DEF JoinInv, BeginTasks, docVars
<1>3. Ready(frame'[h])
  BY <1>2, BeginTasksTurn DEF Ready, Goes, Begins, Same, SameRequest, SameTask, SameLists, SameLaunches
<1>. QED BY <1>1, <1>2, <1>3, ReadyStep, BeginTasksTurn

LEMMA SnapshotTasksJoin == ASSUME TypeInv, ServeInv, JoinInv, NEW h \in Handler, SnapshotTasks(h) PROVE JoinInv'
<1>1. SameTasks
  BY DEF SnapshotTasks, docVars, SameTasks, Existing
<1>2. Ready(frame[h]) /\ Ready(EmptyFrame) /\ UNCHANGED <<upDep, matched>>
  BY ReadyEmpty DEF JoinInv, SnapshotTasks, docVars
<1>3. Ready(frame'[h])
  BY <1>2, SnapshotTasksTurn DEF Ready, Goes, Begins, Same, SameRequest, SameTask, SameLists, SameLaunches, Root, Free
<1>. QED BY <1>1, <1>2, <1>3, ReadyStep, SnapshotTasksTurn

LEMMA StartTaskJoin == ASSUME TypeInv, ServeInv, JoinInv, NEW h \in Handler, StartTask(h) PROVE JoinInv'
<1>1. SameTasks
  BY DEF StartTask, docVars, SameTasks, Existing
<1>2. frame[h] \in Frame /\ Ready(frame[h]) /\ Ready(EmptyFrame) /\ UNCHANGED <<upDep, matched>>
  BY ChainFits, ReadyEmpty DEF JoinInv, StartTask, docVars
<1>3. Ready(frame'[h])
  BY <1>2, StartTaskTurn DEF Ready, Goes, Begins, Same, SameRequest, SameTask, SameLists, SameLaunches, StartTask, ServeInv, Serves
<1>. QED BY <1>1, <1>2, <1>3, ReadyStep, StartTaskTurn

LEMMA TasksStartedJoin == ASSUME TypeInv, ServeInv, JoinInv, NEW h \in Handler, TasksStarted(h) PROVE JoinInv'
<1>1. SameTasks
  BY DEF TasksStarted, docVars, SameTasks, Existing
<1>2. Ready(frame[h]) /\ Ready(EmptyFrame) /\ UNCHANGED <<upDep, matched>>
  BY ReadyEmpty DEF JoinInv, TasksStarted, docVars
<1>3. Ready(frame'[h])
  BY <1>2, TasksStartedTurn DEF Ready, Goes, Begins, Same, SameRequest, SameTask, SameLists, SameLaunches
<1>. QED BY <1>1, <1>2, <1>3, ReadyStep, TasksStartedTurn

LEMMA StartEndsJoin == ASSUME TypeInv, ServeInv, JoinInv, NEW h \in Handler, StartEnds(h) PROVE JoinInv'
<1>1. SameTasks
  BY DEF StartEnds, docVars, SameTasks, Existing
<1>2. Ready(frame[h]) /\ Ready(EmptyFrame) /\ UNCHANGED <<upDep, matched>>
  BY ReadyEmpty DEF JoinInv, StartEnds, docVars
<1>3. Ready(frame'[h])
  BY <1>2, StartEndsTurn DEF Ready, Goes, Begins, Same, SameRequest, SameTask, SameLists, SameLaunches
<1>. QED BY <1>1, <1>2, <1>3, ReadyStep, StartEndsTurn

LEMMA PutReportJoin == ASSUME TypeInv, ServeInv, JoinInv, NEW h \in Handler, PutReport(h) PROVE JoinInv'
<1>1. SameTasks
  BY SetRouteKeepsTasks DEF PutReport
<1>2. Ready(frame[h]) /\ Ready(EmptyFrame) /\ UNCHANGED <<upDep, matched>>
  BY ReadyEmpty DEF JoinInv, PutReport, docVars
<1>3. Ready(frame'[h])
  BY <1>2, PutReportTurn DEF Ready, Goes, Begins, Same, SameRequest, SameTask, SameLists, SameLaunches
<1>. QED BY <1>1, <1>2, <1>3, ReadyStep, PutReportTurn

LEMMA PutCancelledJoin == ASSUME TypeInv, ServeInv, JoinInv, NEW h \in Handler, PutCancelled(h) PROVE JoinInv'
<1>1. SameTasks
  BY SetStatusKeepsTasks DEF PutCancelled
<1>2. Ready(frame[h]) /\ Ready(EmptyFrame) /\ UNCHANGED <<upDep, matched>>
  BY ReadyEmpty DEF JoinInv, PutCancelled, docVars
<1>3. Ready(frame'[h])
  BY <1>2, PutCancelledTurn DEF Ready, Goes, Begins, Same, SameRequest, SameTask, SameLists, SameLaunches
<1>. QED BY <1>1, <1>2, <1>3, ReadyStep, PutCancelledTurn

LEMMA ListWaitingTasksJoin == ASSUME TypeInv, ServeInv, JoinInv, NEW h \in Handler, ListWaitingTasks(h) PROVE JoinInv'
<1>1. SameTasks
  BY DEF ListWaitingTasks, docVars, SameTasks, Existing
<1>2. Ready(frame[h]) /\ Ready(EmptyFrame) /\ UNCHANGED <<upDep, matched>>
  BY ReadyEmpty DEF JoinInv, ListWaitingTasks, docVars
<1>3. Ready(frame'[h])
  BY <1>2, ListWaitingTasksTurn DEF Ready, Goes, Begins, Same, SameRequest, SameTask, SameLists, SameLaunches, ListWaitingTasks, ServeInv, Serves
<1>. QED BY <1>1, <1>2, <1>3, ReadyStep, ListWaitingTasksTurn

LEMMA ExamineWaitingTaskJoin == ASSUME TypeInv, ServeInv, JoinInv, NEW h \in Handler, ExamineWaitingTask(h) PROVE JoinInv'
<1>1. SameTasks
  BY DEF ExamineWaitingTask, docVars, SameTasks, Existing
<1>2. Ready(frame[h]) /\ Ready(EmptyFrame) /\ UNCHANGED <<upDep, matched>>
  BY ReadyEmpty DEF JoinInv, ExamineWaitingTask, docVars
<1>3. Ready(frame'[h])
  BY <1>2, ExamineWaitingTaskTurn DEF Ready, Goes, Begins, Same, SameRequest, SameTask, SameLists, SameLaunches, Root, Free
<1>. QED BY <1>1, <1>2, <1>3, ReadyStep, ExamineWaitingTaskTurn

LEMMA TakeWaitingTaskJoin == ASSUME TypeInv, ServeInv, JoinInv, NEW h \in Handler, TakeWaitingTask(h) PROVE JoinInv'
<1>1. SameTasks
  BY DEF TakeWaitingTask, docVars, SameTasks, Existing
<1>2. Ready(frame[h]) /\ Ready(EmptyFrame) /\ UNCHANGED <<upDep, matched>>
  BY ReadyEmpty DEF JoinInv, TakeWaitingTask, docVars
<1>3. Ready(frame'[h])
  BY <1>2, TakeWaitingTaskTurn DEF Ready, Goes, Begins, Same, SameRequest, SameTask, SameLists, SameLaunches
<1>. QED BY <1>1, <1>2, <1>3, ReadyStep, TakeWaitingTaskTurn

LEMMA WaitingTasksDoneJoin == ASSUME TypeInv, ServeInv, JoinInv, NEW h \in Handler, WaitingTasksDone(h) PROVE JoinInv'
<1>1. SameTasks
  BY DEF WaitingTasksDone, docVars, SameTasks, Existing
<1>2. Ready(frame[h]) /\ Ready(EmptyFrame) /\ UNCHANGED <<upDep, matched>>
  BY ReadyEmpty DEF JoinInv, WaitingTasksDone, docVars
<1>3. Ready(frame'[h])
  BY <1>2, WaitingTasksDoneTurn DEF Ready, Goes, Begins, Same, SameRequest, SameTask, SameLists, SameLaunches
<1>. QED BY <1>1, <1>2, <1>3, ReadyStep, WaitingTasksDoneTurn

LEMMA BeginDownstreamJoin == ASSUME TypeInv, ServeInv, JoinInv, NEW h \in Handler, BeginDownstream(h) PROVE JoinInv'
<1>1. SameTasks
  BY DEF BeginDownstream, docVars, SameTasks, Existing
<1>2. Ready(frame[h]) /\ Ready(EmptyFrame) /\ UNCHANGED <<upDep, matched>>
  BY ReadyEmpty DEF JoinInv, BeginDownstream, docVars
<1>3. Ready(frame'[h])
  BY <1>2, BeginDownstreamTurn DEF Ready, Goes, Begins, Same, SameRequest, SameTask, SameLists, SameLaunches, Free, RoutedTo, RouteTargets
<1>. QED BY <1>1, <1>2, <1>3, ReadyStep, BeginDownstreamTurn

LEMMA DescendJoin == ASSUME TypeInv, ServeInv, JoinInv, NEW h \in Handler, Descend(h) PROVE JoinInv'
<1>. DEFINE u == outcome[frame[h].of].task
<1>1. PICK d \in frame[h].down :
        \/ /\ UNCHANGED <<upDep, matched>> /\ frame'[h].launch = frame[h].launch
        \/ /\ Follows(d, u, frame[h].route)
           /\ upDep' = [upDep EXCEPT ![d] = @ \ {u}] /\ matched' = matched \cup {<<u, d>>}
           /\ frame'[h].launch = frame[h].launch \cup {x \in {d} : LastAwaited(d, u)}
  BY DescendTurn
<1>2. frame[h] \in Frame /\ d \in Task /\ Ready(frame[h]) /\ SameTasks
  BY ChainFits DEF Frame, JoinInv, Descend, SameTasks, Existing
<1>3. CASE UNCHANGED <<upDep, matched>> /\ frame'[h].launch = frame[h].launch
  BY <1>2, <1>3, ReadyStep, DescendTurn DEF Ready, SameRequest, SameTask
<1>4. CASE /\ upDep' = [upDep EXCEPT ![d] = @ \ {u}] /\ matched' = matched \cup {<<u, d>>}
           /\ frame'[h].launch = frame[h].launch \cup {x \in {d} : LastAwaited(d, u)}
  <2>1. upDep \in [Task -> SUBSET Task]
    BY DEF TypeInv, DocumentsOK
  <2>2. \A t \in Task : upDep'[t] \subseteq upDep[t] /\ (t # d => upDep'[t] = upDep[t])
    BY <1>4, <2>1
  <2>3. \A t \in Task : Free(t) => Free(t)'
    BY <2>2 DEF Free
  <2>4. \A t \in Task : upDep'[t] = {x \in Upstream(t) : <<x, t>> \notin matched'}
    <3>1. ASSUME NEW t \in Task, t # d PROVE upDep'[t] = {x \in Upstream(t) : <<x, t>> \notin matched'}
      BY <1>4, <2>2, <3>1 DEF JoinInv
    <3>2. upDep'[d] = {x \in Upstream(d) : <<x, d>> \notin matched'}
      BY <1>2, <1>4, <2>1 DEF JoinInv
    <3>. QED BY <3>1, <3>2
  <2>5. LastAwaited(d, u) => Free(d)'
    BY <1>2, <1>4, <2>1 DEF LastAwaited, Free
  <2>6. ASSUME NEW q \in Handler PROVE Ready(frame[q])'
    <3>1. frame[q] \in Frame /\ Ready(frame[q])
      BY ChainFits DEF JoinInv
    <3>2. CASE q # h
      BY <3>1, <3>2, <2>3, DescendTurn DEF Others, Ready, Frame
    <3>3. CASE q = h
      BY <1>4, <3>1, <3>3, <2>3, <2>5, DescendTurn DEF SameRequest, SameTask, Ready, Frame
    <3>. QED BY <3>2, <3>3
  <2>7. \A o \in Existing' : Free(outcome[o].task)'
    <3>1. \A o \in Existing : outcome[o].task \in Task
      BY DEF Existing, TypeInv, DocumentsOK
    <3>. QED BY <1>2, <2>3, <3>1 DEF JoinInv, SameTasks, Descend
  <2>. QED BY <2>4, <2>6, <2>7 DEF JoinInv
<1>. QED BY <1>1, <1>3, <1>4

LEMMA ReadSkippedJoin == ASSUME TypeInv, ServeInv, JoinInv, NEW h \in Handler, ReadSkipped(h) PROVE JoinInv'
<1>1. SameTasks
  BY DEF ReadSkipped, docVars, SameTasks, Existing
<1>2. Ready(frame[h]) /\ Ready(EmptyFrame) /\ UNCHANGED <<upDep, matched>>
  BY ReadyEmpty DEF JoinInv, ReadSkipped, docVars
<1>3. Ready(frame'[h])
  BY <1>2, ReadSkippedTurn DEF Ready, Goes, Begins, Same, SameRequest, SameTask, SameLists, SameLaunches
<1>. QED BY <1>1, <1>2, <1>3, ReadyStep, ReadSkippedTurn

LEMMA WriteSkippedJoin == ASSUME TypeInv, ServeInv, JoinInv, NEW h \in Handler, WriteSkipped(h) PROVE JoinInv'
<1>1. SameTasks
  BY DEF WriteSkipped, docVars, SameTasks, Existing
<1>2. Ready(frame[h]) /\ Ready(EmptyFrame) /\ UNCHANGED <<upDep, matched>>
  BY ReadyEmpty DEF JoinInv, WriteSkipped, docVars
<1>3. Ready(frame'[h])
  BY <1>2, WriteSkippedTurn DEF Ready, Goes, Begins, Same, SameRequest, SameTask, SameLists, SameLaunches
<1>. QED BY <1>1, <1>2, <1>3, ReadyStep, WriteSkippedTurn

LEMMA DescendEndsJoin == ASSUME TypeInv, ServeInv, JoinInv, NEW h \in Handler, DescendEnds(h) PROVE JoinInv'
<1>1. SameTasks
  BY DEF DescendEnds, docVars, SameTasks, Existing
<1>2. Ready(frame[h]) /\ Ready(EmptyFrame) /\ UNCHANGED <<upDep, matched>>
  BY ReadyEmpty DEF JoinInv, DescendEnds, docVars
<1>3. Ready(frame'[h])
  BY <1>2, DescendEndsTurn DEF Ready, Goes, Begins, Same, SameRequest, SameTask, SameLists, SameLaunches
<1>. QED BY <1>1, <1>2, <1>3, ReadyStep, DescendEndsTurn

LEMMA LaunchRouteTargetJoin == ASSUME TypeInv, ServeInv, JoinInv, NEW h \in Handler, LaunchRouteTarget(h) PROVE JoinInv'
<1>1. SameTasks
  BY DEF LaunchRouteTarget, docVars, SameTasks, Existing
<1>2. frame[h] \in Frame /\ Ready(frame[h]) /\ Ready(EmptyFrame) /\ UNCHANGED <<upDep, matched>>
  BY ChainFits, ReadyEmpty DEF JoinInv, LaunchRouteTarget, docVars
<1>3. Ready(frame'[h])
  BY <1>2, LaunchRouteTargetTurn DEF Ready, Goes, Begins, Same, SameRequest, SameTask, SameLists, SameLaunches
<1>. QED BY <1>1, <1>2, <1>3, ReadyStep, LaunchRouteTargetTurn

LEMMA LaunchDownstreamTaskJoin == ASSUME TypeInv, ServeInv, JoinInv, NEW h \in Handler, LaunchDownstreamTask(h) PROVE JoinInv'
<1>1. SameTasks
  BY DEF LaunchDownstreamTask, docVars, SameTasks, Existing
<1>2. Ready(frame[h]) /\ Ready(EmptyFrame) /\ UNCHANGED <<upDep, matched>>
  BY ReadyEmpty DEF JoinInv, LaunchDownstreamTask, docVars
<1>3. Ready(frame'[h])
  BY <1>2, LaunchDownstreamTaskTurn DEF Ready, Goes, Begins, Same, SameRequest, SameTask, SameLists, SameLaunches
<1>. QED BY <1>1, <1>2, <1>3, ReadyStep, LaunchDownstreamTaskTurn

LEMMA LaunchEndsJoin == ASSUME TypeInv, ServeInv, JoinInv, NEW h \in Handler, LaunchEnds(h) PROVE JoinInv'
<1>1. SameTasks
  BY DEF LaunchEnds, docVars, SameTasks, Existing
<1>2. Ready(frame[h]) /\ Ready(EmptyFrame) /\ UNCHANGED <<upDep, matched>>
  BY ReadyEmpty DEF JoinInv, LaunchEnds, docVars
<1>3. Ready(frame'[h])
  BY <1>2, LaunchEndsTurn DEF Ready, Goes, Begins, Same, SameRequest, SameTask, SameLists, SameLaunches
<1>. QED BY <1>1, <1>2, <1>3, ReadyStep, LaunchEndsTurn

LEMMA AfterDownstreamJoin == ASSUME TypeInv, ServeInv, JoinInv, NEW h \in Handler, AfterDownstream(h) PROVE JoinInv'
<1>1. SameTasks
  BY SetStatusKeepsTasks DEF AfterDownstream
<1>2. Ready(frame[h]) /\ Ready(EmptyFrame) /\ UNCHANGED <<upDep, matched>>
  BY ReadyEmpty DEF JoinInv, AfterDownstream, docVars
<1>3. Ready(frame'[h])
  BY <1>2, AfterDownstreamTurn DEF Ready, Goes, Begins, Same, SameRequest, SameTask, SameLists, SameLaunches
<1>. QED BY <1>1, <1>2, <1>3, ReadyStep, AfterDownstreamTurn

LEMMA RepublishTaskJoin == ASSUME TypeInv, ServeInv, JoinInv, NEW h \in Handler, RepublishTask(h) PROVE JoinInv'
<1>1. Ready(frame[h]) /\ SameTasks /\ Free(outcome[frame[h].of].task)
  BY ChainFits, SetStatusKeepsTasks DEF JoinInv, Fits, RepublishTask, ReportSteps
<1>. QED BY <1>1, ReadyStep, RepublishTaskTurn DEF RepublishTask, Ready, SameRequest, SameLists, SameLaunches

LEMMA FinishReportJoin == ASSUME TypeInv, ServeInv, JoinInv, NEW h \in Handler, FinishReport(h) PROVE JoinInv'
<1>1. SameTasks
  BY DEF FinishReport, docVars, SameTasks, Existing
<1>2. Ready(frame[h]) /\ Ready(EmptyFrame) /\ UNCHANGED <<upDep, matched>>
  BY ReadyEmpty DEF JoinInv, FinishReport, docVars
<1>3. Ready(frame'[h])
  BY <1>2, FinishReportTurn DEF Ready, Goes, Begins, Same, SameRequest, SameTask, SameLists, SameLaunches
<1>. QED BY <1>1, <1>2, <1>3, ReadyStep, FinishReportTurn

LEMMA ListTasksToStopJoin == ASSUME TypeInv, ServeInv, JoinInv, NEW h \in Handler, ListTasksToStop(h) PROVE JoinInv'
<1>1. SameTasks
  BY DEF ListTasksToStop, docVars, SameTasks, Existing
<1>2. frame[h] \in Frame /\ Ready(frame[h]) /\ Ready(EmptyFrame) /\ UNCHANGED <<upDep, matched>>
  BY ChainFits, ReadyEmpty DEF JoinInv, ListTasksToStop, docVars
<1>3. Ready(frame'[h])
  BY <1>2, ListTasksToStopTurn DEF Ready, Goes, Begins, Same, SameRequest, SameTask, SameLists, SameLaunches, ListTasksToStop, ServeInv, Serves
<1>. QED BY <1>1, <1>2, <1>3, ReadyStep, ListTasksToStopTurn

LEMMA StopTaskJoin == ASSUME TypeInv, ServeInv, JoinInv, NEW h \in Handler, StopTask(h) PROVE JoinInv'
<1>1. SameTasks
  BY DEF StopTask, docVars, SameTasks, Existing
<1>2. frame[h] \in Frame /\ Ready(frame[h]) /\ Ready(EmptyFrame) /\ UNCHANGED <<upDep, matched>>
  BY ChainFits, ReadyEmpty DEF JoinInv, StopTask, docVars
<1>3. Ready(frame'[h])
  BY <1>2, StopTaskTurn DEF Ready, Goes, Begins, Same, SameRequest, SameTask, SameLists, SameLaunches
<1>. QED BY <1>1, <1>2, <1>3, ReadyStep, StopTaskTurn

LEMMA ListOutcomesToStopJoin == ASSUME TypeInv, ServeInv, JoinInv, NEW h \in Handler, ListOutcomesToStop(h) PROVE JoinInv'
<1>1. SameTasks
  BY DEF ListOutcomesToStop, docVars, SameTasks, Existing
<1>2. Ready(frame[h]) /\ Ready(EmptyFrame) /\ UNCHANGED <<upDep, matched>>
  BY ReadyEmpty DEF JoinInv, ListOutcomesToStop, docVars
<1>3. Ready(frame'[h])
  BY <1>2, ListOutcomesToStopTurn DEF Ready, Goes, Begins, Same, SameRequest, SameTask, SameLists, SameLaunches
<1>. QED BY <1>1, <1>2, <1>3, ReadyStep, ListOutcomesToStopTurn

LEMMA StopNextOutcomeJoin == ASSUME TypeInv, ServeInv, JoinInv, NEW h \in Handler, StopNextOutcome(h) PROVE JoinInv'
<1>1. SameTasks
  BY StopKeepsTasks DEF StopNextOutcome
<1>2. Ready(frame[h]) /\ Ready(EmptyFrame) /\ UNCHANGED <<upDep, matched>>
  BY ReadyEmpty DEF JoinInv, StopNextOutcome, docVars
<1>3. Ready(frame'[h])
  BY <1>2, StopNextOutcomeTurn DEF Ready, Goes, Begins, Same, SameRequest, SameTask, SameLists, SameLaunches
<1>. QED BY <1>1, <1>2, <1>3, ReadyStep, StopNextOutcomeTurn

LEMMA JobStoppedJoin == ASSUME TypeInv, ServeInv, JoinInv, NEW h \in Handler, JobStopped(h) PROVE JoinInv'
<1>1. SameTasks
  BY DEF JobStopped, docVars, SameTasks, Existing
<1>2. Ready(frame[h]) /\ Ready(EmptyFrame) /\ UNCHANGED <<upDep, matched>>
  BY ReadyEmpty DEF JoinInv, JobStopped, docVars
<1>3. Ready(frame'[h])
  BY <1>2, JobStoppedTurn DEF Ready, Goes, Begins, Same, SameRequest, SameTask, SameLists, SameLaunches
<1>. QED BY <1>1, <1>2, <1>3, ReadyStep, JobStoppedTurn

LEMMA ListOutcomesToRestartJoin == ASSUME TypeInv, ServeInv, JoinInv, NEW h \in Handler, ListOutcomesToRestart(h) PROVE JoinInv'
<1>1. SameTasks
  BY DEF ListOutcomesToRestart, docVars, SameTasks, Existing
<1>2. Ready(frame[h]) /\ Ready(EmptyFrame) /\ UNCHANGED <<upDep, matched>>
  BY ReadyEmpty DEF JoinInv, ListOutcomesToRestart, docVars
<1>3. Ready(frame'[h])
  BY <1>2, ListOutcomesToRestartTurn DEF Ready, Goes, Begins, Same, SameRequest, SameTask, SameLists, SameLaunches
<1>. QED BY <1>1, <1>2, <1>3, ReadyStep, ListOutcomesToRestartTurn

LEMMA RestartOutcomeJoin == ASSUME TypeInv, ServeInv, JoinInv, NEW h \in Handler, RestartOutcome(h) PROVE JoinInv'
<1>1. SameTasks
  BY SetRouteKeepsTasks, SetStatusKeepsTasks DEF RestartOutcome
<1>2. frame[h] \in Frame /\ Fits(pc[h], frame[h], Existing) /\ Ready(frame[h]) /\ Ready(EmptyFrame) /\ UNCHANGED <<upDep, matched>>
  BY ChainFits, ReadyEmpty DEF JoinInv, RestartOutcome, docVars
<1>3. Ready(frame'[h])
  BY <1>2, RestartOutcomeTurn DEF Ready, Goes, Begins, Same, SameRequest, SameTask, SameLists, SameLaunches, JoinInv, Fits
<1>. QED BY <1>1, <1>2, <1>3, ReadyStep, RestartOutcomeTurn

LEMMA ResetTaskJoin == ASSUME TypeInv, ServeInv, JoinInv, NEW h \in Handler, ResetTask(h) PROVE JoinInv'
<1>1. SameTasks
  BY DEF ResetTask, docVars, SameTasks, Existing
<1>2. Ready(frame[h]) /\ Ready(EmptyFrame) /\ UNCHANGED <<upDep, matched>>
  BY ReadyEmpty DEF JoinInv, ResetTask, docVars
<1>3. Ready(frame'[h])
  BY <1>2, ResetTaskTurn DEF Ready, Goes, Begins, Same, SameRequest, SameTask, SameLists, SameLaunches
<1>. QED BY <1>1, <1>2, <1>3, ReadyStep, ResetTaskTurn

LEMMA OutcomesRestartedJoin == ASSUME TypeInv, ServeInv, JoinInv, NEW h \in Handler, OutcomesRestarted(h) PROVE JoinInv'
<1>1. SameTasks
  BY DEF OutcomesRestarted, docVars, SameTasks, Existing
<1>2. Ready(frame[h]) /\ Ready(EmptyFrame) /\ UNCHANGED <<upDep, matched>>
  BY ReadyEmpty DEF JoinInv, OutcomesRestarted, docVars
<1>3. Ready(frame'[h])
  BY <1>2, OutcomesRestartedTurn DEF Ready, Goes, Begins, Same, SameRequest, SameTask, SameLists, SameLaunches
<1>. QED BY <1>1, <1>2, <1>3, ReadyStep, OutcomesRestartedTurn

LEMMA RestartJobJoin == ASSUME TypeInv, ServeInv, JoinInv, NEW h \in Handler, RestartJob(h) PROVE JoinInv'
<1>1. SameTasks
  BY DEF RestartJob, docVars, SameTasks, Existing, JobAction
<1>2. Ready(frame[h]) /\ Ready(EmptyFrame) /\ UNCHANGED <<upDep, matched>>
  BY ReadyEmpty DEF JoinInv, RestartJob, docVars, JobAction
<1>3. Ready(frame'[h])
  BY <1>2, RestartJobTurn, ReadyEmpty DEF Ready, Goes, Begins, Same, SameRequest, SameTask, SameLists, SameLaunches
<1>. QED BY <1>1, <1>2, <1>3, ReadyStep, RestartJobTurn

LEMMA CancelJobJoin == ASSUME TypeInv, ServeInv, JoinInv, NEW h \in Handler, CancelJob(h) PROVE JoinInv'
<1>1. SameTasks
  BY DEF CancelJob, docVars, SameTasks, Existing, JobAction
<1>2. Ready(frame[h]) /\ Ready(EmptyFrame) /\ UNCHANGED <<upDep, matched>>
  BY ReadyEmpty DEF JoinInv, CancelJob, docVars, JobAction
<1>3. Ready(frame'[h])
  BY <1>2, CancelJobTurn, ReadyEmpty DEF Ready, Goes, Begins, Same, SameRequest, SameTask, SameLists, SameLaunches
<1>. QED BY <1>1, <1>2, <1>3, ReadyStep, CancelJobTurn

LEMMA InterruptJobJoin == ASSUME TypeInv, ServeInv, JoinInv, NEW h \in Handler, InterruptJob(h) PROVE JoinInv'
<1>1. SameTasks
  BY DEF InterruptJob, docVars, SameTasks, Existing, JobAction
<1>2. Ready(frame[h]) /\ Ready(EmptyFrame) /\ UNCHANGED <<upDep, matched>>
  BY ReadyEmpty DEF JoinInv, InterruptJob, docVars, JobAction
<1>3. Ready(frame'[h])
  BY <1>2, InterruptJobTurn, ReadyEmpty DEF Ready, Goes, Begins, Same, SameRequest, SameTask, SameLists, SameLaunches
<1>. QED BY <1>1, <1>2, <1>3, ReadyStep, InterruptJobTurn

LEMMA StopTaskOutcomeJoin == ASSUME TypeInv, ServeInv, JoinInv, NEW h \in Handler, StopTaskOutcome(h) PROVE JoinInv'
<1>1. SameTasks
  BY StopKeepsTasks DEF StopTaskOutcome
<1>. QED BY <1>1 DEF StopTaskOutcome, JoinInv, SameTasks, Ready, Free

LEMMA RestartTaskOutcomeJoin == ASSUME TypeInv, ServeInv, JoinInv, NEW h \in Handler, RestartTaskOutcome(h) PROVE JoinInv'
<1>1. SameTasks
  BY DEF RestartTaskOutcome, docVars, SameTasks, Existing
<1>2. Ready(frame[h]) /\ Ready(EmptyFrame) /\ UNCHANGED <<upDep, matched>>
  BY ReadyEmpty DEF JoinInv, RestartTaskOutcome, docVars
<1>3. Ready(frame'[h])
  BY <1>2, RestartTaskOutcomeTurn, ReadyEmpty DEF Ready, Goes, Begins, Same, SameRequest, SameTask, SameLists, SameLaunches
<1>. QED BY <1>1, <1>2, <1>3, ReadyStep, RestartTaskOutcomeTurn

LEMMA LaunchJobJoin == ASSUME TypeInv, ServeInv, JoinInv, NEW h \in Handler, LaunchJob(h) PROVE JoinInv'
<1>1. SameTasks
  BY DEF LaunchJob, docVars, SameTasks, Existing
<1>2. Ready(frame[h]) /\ Ready(EmptyFrame) /\ UNCHANGED <<upDep, matched>>
  BY ReadyEmpty DEF JoinInv, LaunchJob, docVars
<1>3. Ready(frame'[h])
  BY <1>2, LaunchJobTurn, ReadyEmpty DEF Ready, Goes, Begins, Same, SameRequest, SameTask, SameLists, SameLaunches
<1>. QED BY <1>1, <1>2, <1>3, ReadyStep, LaunchJobTurn

LEMMA ReportArrivesJoin == ASSUME TypeInv, ServeInv, JoinInv, NEW h \in Handler, ReportArrives(h) PROVE JoinInv'
<1>1. SameTasks
  BY DEF ReportArrives, docVars, SameTasks, Existing
<1>2. Ready(frame[h]) /\ Ready(EmptyFrame) /\ UNCHANGED <<upDep, matched>>
  BY ReadyEmpty DEF JoinInv, ReportArrives, docVars
<1>3. Ready(frame'[h])
  BY <1>2, ReportArrivesTurn, ReadyEmpty DEF Ready, Goes, Begins, Same, SameRequest, SameTask, SameLists, SameLaunches
<1>. QED BY <1>1, <1>2, <1>3, ReadyStep, ReportArrivesTurn

LEMMA AgentReturnsJoin == ASSUME TypeInv, ServeInv, JoinInv, NEW h \in Handler, AgentReturns(h) PROVE JoinInv'
<1>1. SameTasks
  BY DEF AgentReturns, docVars, SameTasks, Existing
<1>2. Ready(frame[h]) /\ Ready(EmptyFrame) /\ UNCHANGED <<upDep, matched>>
  BY ReadyEmpty DEF JoinInv, AgentReturns, docVars
<1>3. Ready(frame'[h])
  BY <1>2, AgentReturnsTurn, ReadyEmpty DEF Ready, Goes, Begins, Same, SameRequest, SameTask, SameLists, SameLaunches
<1>. QED BY <1>1, <1>2, <1>3, ReadyStep, AgentReturnsTurn

-----------------------------------------------------------------------------
LEMMA InitServes == Init => ServeInv /\ JoinInv
<1>. SUFFICES ASSUME Init PROVE ServeInv /\ JoinInv
  OBVIOUS
<1>1. ServeInv
  BY EmptyFields DEF Init, ServeInv, Serves
<1>2. JoinInv
  BY EmptyFields, ReadyEmpty DEF Init, JoinInv, Existing, NoDocument, Upstream
<1>. QED BY <1>1, <1>2

LEMMA StepServes == TypeInv /\ ServeInv /\ [Next]_vars => ServeInv'
<1>. SUFFICES ASSUME TypeInv, ServeInv, [Next]_vars PROVE ServeInv'
  OBVIOUS
<1>1. CASE UNCHANGED vars
  BY <1>1 DEF vars, ServeInv, Serves
<1>. SUFFICES ASSUME NEW h \in Handler,
                     Step(h) \/ LaunchJob(h) \/ ReportArrives(h) \/ AgentReturns(h) \/ UserRequest(h)
              PROVE ServeInv'
  BY <1>1 DEF Next
<1>2. CASE UpdateStep(h)
  BY <1>2,
     ReadJobServes, ReadOutcomesServes, ReadTasksServes, WriteJobServes, RereadJobServes
     DEF UpdateStep
<1>3. CASE PublishStep(h)
  BY <1>3,
     RouteToAgentServes, RouteFailsServes, CreateTaskOutcomeServes, RecheckTaskServes,
     CancelNewOutcomeServes, SendToAgentServes, PublishedServes
     DEF PublishStep
<1>4. CASE StartStep(h)
  BY <1>4,
     BeginTasksServes, SnapshotTasksServes, StartTaskServes, TasksStartedServes, StartEndsServes
     DEF StartStep
<1>5. CASE ReportStep(h)
  BY <1>5,
     PutReportServes, PutCancelledServes, ListWaitingTasksServes, ExamineWaitingTaskServes,
     TakeWaitingTaskServes, WaitingTasksDoneServes, BeginDownstreamServes, DescendServes,
     ReadSkippedServes, WriteSkippedServes, DescendEndsServes, LaunchRouteTargetServes,
     LaunchDownstreamTaskServes, LaunchEndsServes, AfterDownstreamServes, RepublishTaskServes,
     FinishReportServes
     DEF ReportStep
<1>6. CASE ActionStep(h)
  BY <1>6,
     ListTasksToStopServes, StopTaskServes, ListOutcomesToStopServes, StopNextOutcomeServes,
     JobStoppedServes, ListOutcomesToRestartServes, RestartOutcomeServes, ResetTaskServes,
     OutcomesRestartedServes
     DEF ActionStep
<1>7. CASE UserRequest(h)
  BY <1>7,
     RestartJobServes, CancelJobServes, InterruptJobServes, StopTaskOutcomeServes,
     RestartTaskOutcomeServes
     DEF UserRequest
<1>8. CASE LaunchJob(h) \/ ReportArrives(h) \/ AgentReturns(h)
  BY <1>8, LaunchJobServes, ReportArrivesServes, AgentReturnsServes
<1>. QED BY <1>2, <1>3, <1>4, <1>5, <1>6, <1>7, <1>8 DEF Step

LEMMA StepJoin == TypeInv /\ ServeInv /\ JoinInv /\ [Next]_vars => JoinInv'
<1>. SUFFICES ASSUME TypeInv, ServeInv, JoinInv, [Next]_vars PROVE JoinInv'
  OBVIOUS
<1>1. CASE UNCHANGED vars
  BY <1>1 DEF vars, JoinInv, Ready, Free, Existing
<1>. SUFFICES ASSUME NEW h \in Handler,
                     Step(h) \/ LaunchJob(h) \/ ReportArrives(h) \/ AgentReturns(h) \/ UserRequest(h)
              PROVE JoinInv'
  BY <1>1 DEF Next
<1>2. CASE UpdateStep(h)
  BY <1>2,
     ReadJobJoin, ReadOutcomesJoin, ReadTasksJoin, WriteJobJoin, RereadJobJoin
     DEF UpdateStep
<1>3. CASE PublishStep(h)
  BY <1>3,
     RouteToAgentJoin, RouteFailsJoin, CreateTaskOutcomeJoin, RecheckTaskJoin,
     CancelNewOutcomeJoin, SendToAgentJoin, PublishedJoin
     DEF PublishStep
<1>4. CASE StartStep(h)
  BY <1>4,
     BeginTasksJoin, SnapshotTasksJoin, StartTaskJoin, TasksStartedJoin, StartEndsJoin
     DEF StartStep
<1>5. CASE ReportStep(h)
  BY <1>5,
     PutReportJoin, PutCancelledJoin, ListWaitingTasksJoin, ExamineWaitingTaskJoin,
     TakeWaitingTaskJoin, WaitingTasksDoneJoin, BeginDownstreamJoin, DescendJoin,
     ReadSkippedJoin, WriteSkippedJoin, DescendEndsJoin, LaunchRouteTargetJoin,
     LaunchDownstreamTaskJoin, LaunchEndsJoin, AfterDownstreamJoin, RepublishTaskJoin,
     FinishReportJoin
     DEF ReportStep
<1>6. CASE ActionStep(h)
  BY <1>6,
     ListTasksToStopJoin, StopTaskJoin, ListOutcomesToStopJoin, StopNextOutcomeJoin,
     JobStoppedJoin, ListOutcomesToRestartJoin, RestartOutcomeJoin, ResetTaskJoin,
     OutcomesRestartedJoin
     DEF ActionStep
<1>7. CASE UserRequest(h)
  BY <1>7,
     RestartJobJoin, CancelJobJoin, InterruptJobJoin, StopTaskOutcomeJoin, RestartTaskOutcomeJoin
     DEF UserRequest
<1>8. CASE LaunchJob(h) \/ ReportArrives(h) \/ AgentReturns(h)
  BY <1>8, LaunchJobJoin, ReportArrivesJoin, AgentReturnsJoin
<1>. QED BY <1>2, <1>3, <1>4, <1>5, <1>6, <1>7, <1>8 DEF Step

\* A task that is not the target of a route has an outcome only when every task it
\* waits for has ended with a matching route, whatever the graph, the number of
\* reports handled at the same time and the requests of the users: up_dep is emptied
\* by matches alone, and no handler publishes a task it has not seen emptied.
THEOREM JoinStaysComplete == Spec => []JoinComplete
<1>1. TypeInv /\ JoinInv => JoinComplete
  <2>. SUFFICES ASSUME TypeInv, JoinInv, NEW t \in Task, OutcomesOf(t) # {}, t \notin RouteTargets,
                       NEW u \in Upstream(t)
                PROVE  <<u, t>> \in matched
    BY DEF JoinComplete
  <2>1. upDep[t] = {}
    BY DEF OutcomesOf, JoinInv, Free
  <2>. QED BY <2>1 DEF JoinInv
<1>. QED BY <1>1, InitType, InitServes, StepType, StepServes, StepJoin, PTL DEF Spec

-----------------------------------------------------------------------------
(***************************************************************************)
(* Reports and agents: ReportInv is inductive                              *)
(***************************************************************************)
\* No outcome gets a status that says it is over, but for one whose agent is done.
Mild(h) ==
    /\ \A o \in Outcome \ Existing : outcome'[o] = outcome[o]
    /\ \A o \in Outcome :
        \/ outcome'[o].status = outcome[o].status
        \/ outcome'[o].status \notin Over
        \/ /\ outcome'[o].status = CANCELLED /\ agent[o] = "done"
           /\ \A g \in Handler : g # h /\ Reports(g) /\ frame[g].of = o => pc[g] # "put"

\* The chain keeps its outcomes, and has sent what it sends.
Keeps(h) ==
    /\ frame'[h].op = "report" =>
         /\ Reports(h) /\ frame'[h].of = frame[h].of /\ pc[h] # "put"
         /\ frame'[h].new \in {frame[h].new, NULL} \/ (frame'[h].new = CANCELLED /\ frame[h].new = INTERRUPTED)
    /\ frame'[h].out \in {frame[h].out, NoOutcome}
    /\ pc'[h] \notin {"put", "cancelled"}
    /\ pc'[h] \in {"recheck", "cancelnew", "send"} \/ frame'[h].back = "send"
         => Sending(h) /\ frame'[h].out = frame[h].out

LEMMA ReportKept ==
    ASSUME TypeInv, ReportInv, NEW h \in Handler, Others(h), agent' = agent, SameTasks,
           Mild(h), Keeps(h)
    PROVE  ReportInv'
<1>0. \A q \in Handler : Reports(q)' => Reports(q) /\ frame'[q].of = frame[q].of
  BY DEF Reports, Others, Keeps
<1>1. \A g, q \in Handler : Reports(g)' /\ Reports(q)' /\ frame'[g].of = frame'[q].of => g = q
  BY <1>0 DEF ReportInv
<1>2. \A g, q \in Handler : frame'[g].out = frame'[q].out /\ frame'[q].out # NoOutcome => g = q
  BY DEF ReportInv, Others, Keeps
<1>3. ASSUME NEW q \in Handler PROVE Sound(q)'
  <2>1. Sound(q) /\ Existing' = Existing
    BY DEF ReportInv, SameTasks
  <2>2. Reports(q)' => Reports(q) /\ frame'[q].of = frame[q].of /\ frame[q].of \in Existing /\ Existing \subseteq Outcome
    BY ChainFits DEF Keeps, Reports, Others, Fits, Existing
  <2>3. CASE q # h
    <3>1. pc'[q] = pc[q] /\ frame'[q] = frame[q]
      BY <2>3 DEF Others
    <3>. QED BY <2>1, <2>2, <2>3, <3>1 DEF Sound, Sending, Reports, Mild, Over, CANCELLED, SUCCEEDED
  <2>4. CASE q = h
    <3>1. Reports(h)' => outcome'[frame[h].of].status # SUCCEEDED \/ outcome'[frame[h].of].status = outcome[frame[h].of].status
      BY <2>2, <2>4 DEF Mild, Over, CANCELLED, SUCCEEDED
    <3>. QED BY <2>1, <2>2, <2>4, <3>1 DEF Sound, Sending, Reports, Keeps, INTERRUPTED, RUNNING, NULL, CANCELLED, SUCCEEDED
  <2>. QED BY <2>3, <2>4
<1>4. \A o \in Outcome \ Existing' : agent'[o] = "none" /\ outcome'[o].status = NULL
  BY DEF ReportInv, SameTasks, Mild
<1>5. \A o \in Existing' : outcome'[o].status \in Over => agent'[o] = "done"
  BY DEF ReportInv, SameTasks, Mild, Existing
<1>. QED BY <1>1, <1>2, <1>3, <1>4, <1>5 DEF ReportInv

\* Steps that write no outcome.
LEMMA SameMild == ASSUME outcome' = outcome PROVE \A h : Mild(h)
BY DEF Mild

LEMMA SetMild ==
    ASSUME TypeInv, NEW o \in Existing, NEW s, NEW h,
           SetOutcome(o, s) \/ outcome' = [outcome EXCEPT ![o].status = s, ![o].route = ""],
           \/ s \notin Over
           \/ s = CANCELLED /\ agent[o] = "done"
              /\ \A g \in Handler : g # h /\ Reports(g) /\ frame[g].of = o => pc[g] # "put"
    PROVE  Mild(h)
<1>1. o \in Outcome /\ outcome[o] \in [task : Task \cup {NoTask}, status : TaskStatus, route : Route]
  BY DEF Existing, TypeInv, DocumentsOK
<1>2. outcome'[o].status = s /\ \A p \in Outcome : p # o => outcome'[p] = outcome[p]
  <2>1. CASE SetOutcome(o, s)
    BY <1>1, <2>1 DEF SetOutcome, TypeInv, DocumentsOK
  <2>2. CASE outcome' = [outcome EXCEPT ![o].status = s, ![o].route = ""]
    BY <1>1, <2>2 DEF TypeInv, DocumentsOK
  <2>. QED BY <2>1, <2>2
<1>. QED BY <1>1, <1>2 DEF Mild, Existing

LEMMA StopMild ==
    ASSUME TypeInv, NEW o \in Existing, NEW op, NEW h, StopOutcome(op, o)
    PROVE  Mild(h)
<1>1. CANCELING \notin Over /\ INTERRUPTING \notin Over
  BY DEF Over, CANCELING, INTERRUPTING, INTERRUPTED, SUCCEEDED, CANCELLED, FAILED
<1>. QED BY <1>1, SetMild, SameMild DEF StopOutcome

LEMMA ReadJobReports == ASSUME TypeInv, ServeInv, ReportInv, NEW h \in Handler, ReadJob(h) PROVE ReportInv'
<1>1. SameTasks /\ agent' = agent /\ outcome' = outcome
  BY DEF ReadJob, docVars, SameTasks, Existing
<1>2. Keeps(h)
  <2>1. Serves(pc[h], frame[h]) /\ Fits(pc[h], frame[h], Existing) /\ (Reports(h) /\ pc[h] = "cancelled" => frame[h].new = INTERRUPTED)
    BY ChainFits DEF ServeInv, ReportInv, Sound
  <2>. QED BY <2>1, EmptyFields, ReadJobTurn DEF ReadJob, Fits, ReportSteps, Backs, Thens, Serves,
       Keeps, Reports, Sending, Goes, Begins, Same, SameRequest, SameTask, Back
<1>. QED BY <1>1, <1>2, SameMild, ReportKept, ReadJobTurn

LEMMA ReadOutcomesReports == ASSUME TypeInv, ServeInv, ReportInv, NEW h \in Handler, ReadOutcomes(h) PROVE ReportInv'
<1>1. SameTasks /\ agent' = agent /\ outcome' = outcome
  BY DEF ReadOutcomes, docVars, SameTasks, Existing
<1>2. Keeps(h)
  <2>1. Serves(pc[h], frame[h]) /\ Fits(pc[h], frame[h], Existing) /\ (Reports(h) /\ pc[h] = "cancelled" => frame[h].new = INTERRUPTED)
    BY ChainFits DEF ServeInv, ReportInv, Sound
  <2>. QED BY <2>1, EmptyFields, ReadOutcomesTurn DEF ReadOutcomes, Fits, ReportSteps, Backs, Thens, Serves,
       Keeps, Reports, Sending, Goes, Begins, Same, SameRequest, SameTask, Back
<1>. QED BY <1>1, <1>2, SameMild, ReportKept, ReadOutcomesTurn

LEMMA ReadTasksReports == ASSUME TypeInv, ServeInv, ReportInv, NEW h \in Handler, ReadTasks(h) PROVE ReportInv'
<1>1. SameTasks /\ agent' = agent /\ outcome' = outcome
  BY DEF ReadTasks, docVars, SameTasks, Existing
<1>2. Keeps(h)
  <2>1. Serves(pc[h], frame[h]) /\ Fits(pc[h], frame[h], Existing) /\ (Reports(h) /\ pc[h] = "cancelled" => frame[h].new = INTERRUPTED)
    BY ChainFits DEF ServeInv, ReportInv, Sound
  <2>. QED BY <2>1, EmptyFields, ReadTasksTurn DEF ReadTasks, Fits, ReportSteps, Backs, Thens, Serves,
       Keeps, Reports, Sending, Goes, Begins, Same, SameRequest, SameTask, Back
<1>. QED BY <1>1, <1>2, SameMild, ReportKept, ReadTasksTurn

LEMMA WriteJobReports == ASSUME TypeInv, ServeInv, ReportInv, NEW h \in Handler, WriteJob(h) PROVE ReportInv'
<1>1. SameTasks /\ agent' = agent /\ outcome' = outcome
  BY DEF WriteJob, docVars, SameTasks, Existing
<1>2. Keeps(h)
  <2>1. Serves(pc[h], frame[h]) /\ Fits(pc[h], frame[h], Existing) /\ (Reports(h) /\ pc[h] = "cancelled" => frame[h].new = INTERRUPTED)
    BY ChainFits DEF ServeInv, ReportInv, Sound
  <2>. QED BY <2>1, EmptyFields, WriteJobTurn DEF WriteJob, Fits, ReportSteps, Backs, Thens, Serves,
       Keeps, Reports, Sending, Goes, Begins, Same, SameRequest, SameTask, Back
<1>. QED BY <1>1, <1>2, SameMild, ReportKept, WriteJobTurn

LEMMA RereadJobReports == ASSUME TypeInv, ServeInv, ReportInv, NEW h \in Handler, RereadJob(h) PROVE ReportInv'
<1>1. SameTasks /\ agent' = agent /\ outcome' = outcome
  BY DEF RereadJob, docVars, SameTasks, Existing
<1>2. Keeps(h)
  <2>1. Serves(pc[h], frame[h]) /\ Fits(pc[h], frame[h], Existing) /\ (Reports(h) /\ pc[h] = "cancelled" => frame[h].new = INTERRUPTED)
    BY ChainFits DEF ServeInv, ReportInv, Sound
  <2>. QED BY <2>1, EmptyFields, RereadJobTurn DEF RereadJob, Fits, ReportSteps, Backs, Thens, Serves,
       Keeps, Reports, Sending, Goes, Begins, Same, SameRequest, SameTask, Back
<1>. QED BY <1>1, <1>2, SameMild, ReportKept, RereadJobTurn

LEMMA RouteToAgentReports == ASSUME TypeInv, ServeInv, ReportInv, NEW h \in Handler, RouteToAgent(h) PROVE ReportInv'
<1>1. SameTasks /\ agent' = agent /\ outcome' = outcome
  BY DEF RouteToAgent, docVars, SameTasks, Existing
<1>2. Keeps(h)
  <2>1. Serves(pc[h], frame[h]) /\ Fits(pc[h], frame[h], Existing) /\ (Reports(h) /\ pc[h] = "cancelled" => frame[h].new = INTERRUPTED)
    BY ChainFits DEF ServeInv, ReportInv, Sound
  <2>. QED BY <2>1, EmptyFields, RouteToAgentTurn DEF RouteToAgent, Fits, ReportSteps, Backs, Thens, Serves,
       Keeps, Reports, Sending, Goes, Begins, Same, SameRequest, SameTask, Back
<1>. QED BY <1>1, <1>2, SameMild, ReportKept, RouteToAgentTurn

LEMMA RouteFailsReports == ASSUME TypeInv, ServeInv, ReportInv, NEW h \in Handler, RouteFails(h) PROVE ReportInv'
<1>1. SameTasks /\ agent' = agent /\ outcome' = outcome
  BY DEF RouteFails, docVars, SameTasks, Existing
<1>2. Keeps(h)
  <2>1. Serves(pc[h], frame[h]) /\ Fits(pc[h], frame[h], Existing) /\ (Reports(h) /\ pc[h] = "cancelled" => frame[h].new = INTERRUPTED)
    BY ChainFits DEF ServeInv, ReportInv, Sound
  <2>. QED BY <2>1, EmptyFields, RouteFailsTurn DEF RouteFails, Fits, ReportSteps, Backs, Thens, Serves,
       Keeps, Reports, Sending, Goes, Begins, Same, SameRequest, SameTask, Back
<1>. QED BY <1>1, <1>2, SameMild, ReportKept, RouteFailsTurn

LEMMA CreateTaskOutcomeReports == ASSUME TypeInv, ServeInv, ReportInv, NEW h \in Handler, CreateTaskOutcome(h) PROVE ReportInv'
<1>1. PICK o \in Unused :
        /\ frame'[h].out = o /\ o # NoOutcome
        /\ outcome' = [outcome EXCEPT ![o] = [task |-> frame[h].task, status |-> PUBLISHED, route |-> ""]]
  BY CreateTaskOutcomeTurn
<1>2. frame[h].task \in Task /\ agent' = agent /\ pc[h] = "save" /\ o \in Outcome \ Existing
  BY ChainFits DEF CreateTaskOutcome, Fits, Unused
<1>3. /\ Existing' = Existing \cup {o} /\ outcome'[o].status = PUBLISHED
      /\ \A p \in Outcome : p # o => outcome'[p] = outcome[p]
  BY <1>1, <1>2 DEF Existing, Unused, TypeInv, DocumentsOK, ConstantsAssumption, NoTask
<1>4. agent[o] = "none"
  BY <1>2 DEF ReportInv
<1>. DEFINE same(q) == /\ frame'[q].op = frame[q].op /\ frame'[q].of = frame[q].of
                       /\ frame'[q].new = frame[q].new /\ frame'[q].back = frame[q].back
<1>0. /\ \A q \in Handler : same(q)
      /\ \A q \in Handler : q # h => frame'[q].out = frame[q].out
      /\ pc'[h] = "recheck"
  BY CreateTaskOutcomeTurn DEF Others, SameRequest, Back
<1>5. \A g, q \in Handler : Reports(g)' /\ Reports(q)' /\ frame'[g].of = frame'[q].of => g = q
  BY <1>0 DEF ReportInv, Reports
<1>6. \A q \in Handler : frame[q].out # o
  BY <1>1, <1>2 DEF ReportInv, Sound
<1>7. ASSUME NEW g \in Handler, NEW q \in Handler, frame'[g].out = frame'[q].out, frame'[q].out # NoOutcome
      PROVE  g = q
  <2>1. CASE g # h /\ q # h
    BY <1>0, <1>7, <2>1 DEF ReportInv
  <2>2. CASE g = h /\ q # h
    BY <1>0, <1>1, <1>6, <1>7, <2>2
  <2>3. CASE g # h /\ q = h
    BY <1>0, <1>1, <1>6, <1>7, <2>3
  <2>. QED BY <2>1, <2>2, <2>3
<1>8. ASSUME NEW q \in Handler PROVE Sound(q)'
  <2>1. Sound(q) /\ (Reports(q) => frame[q].of \in Existing /\ frame[q].of # o)
    BY <1>2, ChainFits DEF ReportInv, Fits, Reports
  <2>2. CASE q # h
    <3>1. pc'[q] = pc[q] /\ frame'[q] = frame[q]
      BY <2>2, CreateTaskOutcomeTurn DEF Others
    <3>2. Existing \subseteq Outcome
      BY DEF Existing
    <3>. QED BY <1>2, <1>3, <2>1, <3>1, <3>2 DEF Sound, Sending, Reports
  <2>3. CASE q = h
    <3>1. Existing \subseteq Outcome
      BY DEF Existing
    <3>. QED BY <1>0, <1>1, <1>2, <1>3, <1>4, <2>1, <2>3, <3>1 DEF Sound, Sending, Reports
  <2>. QED BY <2>2, <2>3
<1>9. /\ \A p \in Outcome \ Existing' : agent'[p] = "none" /\ outcome'[p].status = NULL
      /\ \A p \in Existing' : outcome'[p].status \in Over => agent'[p] = "done"
  <2>1. PUBLISHED \notin Over /\ Existing \subseteq Outcome
    BY DEF Over, PUBLISHED, INTERRUPTED, SUCCEEDED, CANCELLED, FAILED, Existing
  <2>. QED BY <1>2, <1>3, <2>1 DEF ReportInv
<1>. QED BY <1>5, <1>7, <1>8, <1>9 DEF ReportInv

LEMMA RecheckTaskReports == ASSUME TypeInv, ServeInv, ReportInv, NEW h \in Handler, RecheckTask(h) PROVE ReportInv'
<1>1. SameTasks /\ agent' = agent /\ outcome' = outcome
  BY DEF RecheckTask, docVars, SameTasks, Existing
<1>2. Keeps(h)
  <2>1. Serves(pc[h], frame[h]) /\ Fits(pc[h], frame[h], Existing) /\ (Reports(h) /\ pc[h] = "cancelled" => frame[h].new = INTERRUPTED)
    BY ChainFits DEF ServeInv, ReportInv, Sound
  <2>. QED BY <2>1, EmptyFields, RecheckTaskTurn DEF RecheckTask, Fits, ReportSteps, Backs, Thens, Serves,
       Keeps, Reports, Sending, Goes, Begins, Same, SameRequest, SameTask, Back
<1>. QED BY <1>1, <1>2, SameMild, ReportKept, RecheckTaskTurn

LEMMA CancelNewOutcomeReports == ASSUME TypeInv, ServeInv, ReportInv, NEW h \in Handler, CancelNewOutcome(h) PROVE ReportInv'
<1>1. SameTasks /\ agent' = agent
  BY SetStatusKeepsTasks DEF CancelNewOutcome
<1>2. Keeps(h)
  <2>1. Serves(pc[h], frame[h]) /\ Fits(pc[h], frame[h], Existing) /\ (Reports(h) /\ pc[h] = "cancelled" => frame[h].new = INTERRUPTED)
    BY ChainFits DEF ServeInv, ReportInv, Sound
  <2>. QED BY <2>1, EmptyFields, CancelNewOutcomeTurn DEF CancelNewOutcome, Fits, ReportSteps, Backs, Thens, Serves,
       Keeps, Reports, Sending, Goes, Begins, Same, SameRequest, SameTask, Back
<1>3. Mild(h)
  <2>1. frame[h].out \in Existing /\ CANCELING \notin Over
    BY DEF CancelNewOutcome, ReportInv, Sound, Sending, Over, CANCELING, INTERRUPTED, SUCCEEDED, CANCELLED, FAILED
  <2>. QED BY <2>1, SetMild, SameMild DEF CancelNewOutcome
<1>. QED BY <1>1, <1>2, <1>3, ReportKept, CancelNewOutcomeTurn

LEMMA SendToAgentReports == ASSUME TypeInv, ServeInv, ReportInv, NEW h \in Handler, SendToAgent(h) PROVE ReportInv'
<1>. DEFINE o == frame[h].out
<1>1. /\ agent' = [agent EXCEPT ![o] = "queued"] /\ UNCHANGED outcome /\ Existing' = Existing
      /\ pc[h] = "send" /\ o \in Existing /\ agent[o] = "none" /\ o \in Outcome
  BY SameOutcomes DEF SendToAgent, docVars, ReportInv, Sound, Sending, Existing
<1>2. agent'[o] = "queued" /\ \A p \in Outcome : p # o => agent'[p] = agent[p]
  BY <1>1 DEF TypeInv, DocumentsOK
<1>3. ASSUME NEW q \in Handler PROVE Sound(q)'
  <2>1. Sound(q) /\ (Reports(q) => frame[q].of \in Outcome /\ frame[q].of # o)
    BY <1>1, ChainFits DEF ReportInv, Sound, Fits, Reports, Existing
  <2>2. CASE q # h
    <3>1. pc'[q] = pc[q] /\ frame'[q] = frame[q] /\ (Sending(q) => frame[q].out # o /\ frame[q].out \in Outcome)
      BY <2>2, <2>1, <1>1, SendToAgentTurn DEF Others, ReportInv, Sound, Existing, ConstantsAssumption, NoOutcome
    <3>. QED BY <1>1, <1>2, <2>1, <3>1 DEF Sound, Sending, Reports
  <2>3. CASE q = h
    BY <1>1, <1>2, <2>1, <2>3, SendToAgentTurn DEF Sound, Sending, Reports, Same, SameRequest, SameTask, Back
  <2>. QED BY <2>2, <2>3
<1>4. \A g, q \in Handler : Reports(g)' /\ Reports(q)' /\ frame'[g].of = frame'[q].of => g = q
  BY SendToAgentTurn DEF ReportInv, Reports, Others, Same, SameRequest
<1>5. \A g, q \in Handler : frame'[g].out = frame'[q].out /\ frame'[q].out # NoOutcome => g = q
  BY SendToAgentTurn DEF ReportInv, Others, Same, SameTask
<1>6. /\ \A p \in Outcome \ Existing' : agent'[p] = "none" /\ outcome'[p].status = NULL
      /\ \A p \in Existing' : outcome'[p].status \in Over => agent'[p] = "done"
  BY <1>1, <1>2 DEF ReportInv, Existing
<1>. QED BY <1>3, <1>4, <1>5, <1>6 DEF ReportInv

LEMMA PublishedReports == ASSUME TypeInv, ServeInv, ReportInv, NEW h \in Handler, Published(h) PROVE ReportInv'
<1>1. SameTasks /\ agent' = agent /\ outcome' = outcome
  BY DEF Published, docVars, SameTasks, Existing
<1>2. Keeps(h)
  <2>1. Serves(pc[h], frame[h]) /\ Fits(pc[h], frame[h], Existing) /\ (Reports(h) /\ pc[h] = "cancelled" => frame[h].new = INTERRUPTED)
    BY ChainFits DEF ServeInv, ReportInv, Sound
  <2>. QED BY <2>1, EmptyFields, PublishedTurn DEF Published, Fits, ReportSteps, Backs, Thens, Serves,
       Keeps, Reports, Sending, Goes, Begins, Same, SameRequest, SameTask, Back
<1>. QED BY <1>1, <1>2, SameMild, ReportKept, PublishedTurn

LEMMA BeginTasksReports == ASSUME TypeInv, ServeInv, ReportInv, NEW h \in Handler, BeginTasks(h) PROVE ReportInv'
<1>1. SameTasks /\ agent' = agent /\ outcome' = outcome
  BY DEF BeginTasks, docVars, SameTasks, Existing
<1>2. Keeps(h)
  <2>1. Serves(pc[h], frame[h]) /\ Fits(pc[h], frame[h], Existing) /\ (Reports(h) /\ pc[h] = "cancelled" => frame[h].new = INTERRUPTED)
    BY ChainFits DEF ServeInv, ReportInv, Sound
  <2>. QED BY <2>1, EmptyFields, BeginTasksTurn DEF BeginTasks, Fits, ReportSteps, Backs, Thens, Serves,
       Keeps, Reports, Sending, Goes, Begins, Same, SameRequest, SameTask, Back
<1>. QED BY <1>1, <1>2, SameMild, ReportKept, BeginTasksTurn

LEMMA SnapshotTasksReports == ASSUME TypeInv, ServeInv, ReportInv, NEW h \in Handler, SnapshotTasks(h) PROVE ReportInv'
<1>1. SameTasks /\ agent' = agent /\ outcome' = outcome
  BY DEF SnapshotTasks, docVars, SameTasks, Existing
<1>2. Keeps(h)
  <2>1. Serves(pc[h], frame[h]) /\ Fits(pc[h], frame[h], Existing) /\ (Reports(h) /\ pc[h] = "cancelled" => frame[h].new = INTERRUPTED)
    BY ChainFits DEF ServeInv, ReportInv, Sound
  <2>. QED BY <2>1, EmptyFields, SnapshotTasksTurn DEF SnapshotTasks, Fits, ReportSteps, Backs, Thens, Serves,
       Keeps, Reports, Sending, Goes, Begins, Same, SameRequest, SameTask, Back
<1>. QED BY <1>1, <1>2, SameMild, ReportKept, SnapshotTasksTurn

LEMMA StartTaskReports == ASSUME TypeInv, ServeInv, ReportInv, NEW h \in Handler, StartTask(h) PROVE ReportInv'
<1>1. SameTasks /\ agent' = agent /\ outcome' = outcome
  BY DEF StartTask, docVars, SameTasks, Existing
<1>2. Keeps(h)
  <2>1. Serves(pc[h], frame[h]) /\ Fits(pc[h], frame[h], Existing) /\ (Reports(h) /\ pc[h] = "cancelled" => frame[h].new = INTERRUPTED)
    BY ChainFits DEF ServeInv, ReportInv, Sound
  <2>. QED BY <2>1, EmptyFields, StartTaskTurn DEF StartTask, Fits, ReportSteps, Backs, Thens, Serves,
       Keeps, Reports, Sending, Goes, Begins, Same, SameRequest, SameTask, Back
<1>. QED BY <1>1, <1>2, SameMild, ReportKept, StartTaskTurn

LEMMA TasksStartedReports == ASSUME TypeInv, ServeInv, ReportInv, NEW h \in Handler, TasksStarted(h) PROVE ReportInv'
<1>1. SameTasks /\ agent' = agent /\ outcome' = outcome
  BY DEF TasksStarted, docVars, SameTasks, Existing
<1>2. Keeps(h)
  <2>1. Serves(pc[h], frame[h]) /\ Fits(pc[h], frame[h], Existing) /\ (Reports(h) /\ pc[h] = "cancelled" => frame[h].new = INTERRUPTED)
    BY ChainFits DEF ServeInv, ReportInv, Sound
  <2>. QED BY <2>1, EmptyFields, TasksStartedTurn DEF TasksStarted, Fits, ReportSteps, Backs, Thens, Serves,
       Keeps, Reports, Sending, Goes, Begins, Same, SameRequest, SameTask, Back
<1>. QED BY <1>1, <1>2, SameMild, ReportKept, TasksStartedTurn

LEMMA StartEndsReports == ASSUME TypeInv, ServeInv, ReportInv, NEW h \in Handler, StartEnds(h) PROVE ReportInv'
<1>1. SameTasks /\ agent' = agent /\ outcome' = outcome
  BY DEF StartEnds, docVars, SameTasks, Existing
<1>2. Keeps(h)
  <2>1. Serves(pc[h], frame[h]) /\ Fits(pc[h], frame[h], Existing) /\ (Reports(h) /\ pc[h] = "cancelled" => frame[h].new = INTERRUPTED)
    BY ChainFits DEF ServeInv, ReportInv, Sound
  <2>. QED BY <2>1, EmptyFields, StartEndsTurn DEF StartEnds, Fits, ReportSteps, Backs, Thens, Serves,
       Keeps, Reports, Sending, Goes, Begins, Same, SameRequest, SameTask, Back
<1>. QED BY <1>1, <1>2, SameMild, ReportKept, StartEndsTurn

LEMMA PutReportReports == ASSUME TypeInv, ServeInv, ReportInv, NEW h \in Handler, PutReport(h) PROVE ReportInv'
<1>. DEFINE o == frame[h].of
<1>1. /\ outcome' = [outcome EXCEPT ![o].status = frame[h].new, ![o].route = frame[h].route]
      /\ agent' = agent /\ pc[h] = "put" /\ Reports(h) /\ o \in Existing /\ o \in Outcome /\ SameTasks
  BY ChainFits, SetRouteKeepsTasks DEF PutReport, Fits, ReportSteps, Reports, Existing
<1>2. outcome'[o].status = frame[h].new /\ \A p \in Outcome : p # o => outcome'[p] = outcome[p]
  BY <1>1 DEF TypeInv, DocumentsOK
<1>3. ASSUME NEW q \in Handler PROVE Sound(q)'
  <2>1. Sound(q) /\ (Reports(q) => frame[q].of \in Outcome) /\ Existing' = Existing
    BY <1>1, ChainFits DEF ReportInv, Fits, Reports, Existing, SameTasks
  <2>2. CASE q # h
    <3>1. pc'[q] = pc[q] /\ frame'[q] = frame[q] /\ (Reports(q) => frame[q].of # o)
      BY <1>1, <2>2, PutReportTurn DEF Others, ReportInv
    <3>. QED BY <1>1, <1>2, <2>1, <3>1 DEF Sound, Sending, Reports
  <2>3. CASE q = h
    <3>1. /\ Reports(h)' /\ frame'[h].of = o /\ frame'[h].new = frame[h].new /\ frame'[h].out = frame[h].out
          /\ pc'[h] \in {"finish", "cancelled", "readjob"} /\ (pc'[h] = "cancelled" => frame[h].new = INTERRUPTED)
          /\ frame'[h].back \in {"waitlist", frame[h].back}
      BY <1>1, PutReportTurn DEF Same, SameRequest, SameTask, Back, Reports
    <3>. QED BY <1>1, <1>2, <2>1, <2>3, <3>1 DEF Sound, Sending, Reports
  <2>. QED BY <2>2, <2>3
<1>4. \A g, q \in Handler : Reports(g)' /\ Reports(q)' /\ frame'[g].of = frame'[q].of => g = q
  BY PutReportTurn DEF ReportInv, Reports, Others, Same, SameRequest
<1>5. \A g, q \in Handler : frame'[g].out = frame'[q].out /\ frame'[q].out # NoOutcome => g = q
  BY PutReportTurn DEF ReportInv, Others, Same, SameTask
<1>6. /\ \A p \in Outcome \ Existing' : agent'[p] = "none" /\ outcome'[p].status = NULL
      /\ \A p \in Existing' : outcome'[p].status \in Over => agent'[p] = "done"
  <2>1. frame[h].new \in Over => agent[o] = "done"
    BY <1>1 DEF ReportInv, Sound, Over, RUNNING, NULL, INTERRUPTED, SUCCEEDED, CANCELLED, FAILED
  <2>. QED BY <1>1, <1>2, <2>1 DEF ReportInv, Existing, SameTasks
<1>. QED BY <1>3, <1>4, <1>5, <1>6 DEF ReportInv

LEMMA PutCancelledReports == ASSUME TypeInv, ServeInv, ReportInv, NEW h \in Handler, PutCancelled(h) PROVE ReportInv'
<1>1. SameTasks /\ agent' = agent
  BY SetStatusKeepsTasks DEF PutCancelled
<1>2. Keeps(h)
  <2>1. Serves(pc[h], frame[h]) /\ Fits(pc[h], frame[h], Existing) /\ (Reports(h) /\ pc[h] = "cancelled" => frame[h].new = INTERRUPTED)
    BY ChainFits DEF ServeInv, ReportInv, Sound
  <2>. QED BY <2>1, EmptyFields, PutCancelledTurn DEF PutCancelled, Fits, ReportSteps, Backs, Thens, Serves,
       Keeps, Reports, Sending, Goes, Begins, Same, SameRequest, SameTask, Back
<1>3. Mild(h)
  <2>1. frame[h].of \in Existing /\ Reports(h) /\ agent[frame[h].of] = "done"
    BY ChainFits DEF PutCancelled, ReportInv, Sound, Fits, ReportSteps, Reports, INTERRUPTED, RUNNING, NULL
  <2>2. \A g \in Handler : g # h /\ Reports(g) => frame[g].of # frame[h].of
    BY <2>1 DEF ReportInv
  <2>. QED BY <2>1, <2>2, SetMild DEF PutCancelled
<1>. QED BY <1>1, <1>2, <1>3, ReportKept, PutCancelledTurn

LEMMA ListWaitingTasksReports == ASSUME TypeInv, ServeInv, ReportInv, NEW h \in Handler, ListWaitingTasks(h) PROVE ReportInv'
<1>1. SameTasks /\ agent' = agent /\ outcome' = outcome
  BY DEF ListWaitingTasks, docVars, SameTasks, Existing
<1>2. Keeps(h)
  <2>1. Serves(pc[h], frame[h]) /\ Fits(pc[h], frame[h], Existing) /\ (Reports(h) /\ pc[h] = "cancelled" => frame[h].new = INTERRUPTED)
    BY ChainFits DEF ServeInv, ReportInv, Sound
  <2>. QED BY <2>1, EmptyFields, ListWaitingTasksTurn DEF ListWaitingTasks, Fits, ReportSteps, Backs, Thens, Serves,
       Keeps, Reports, Sending, Goes, Begins, Same, SameRequest, SameTask, Back
<1>. QED BY <1>1, <1>2, SameMild, ReportKept, ListWaitingTasksTurn

LEMMA ExamineWaitingTaskReports == ASSUME TypeInv, ServeInv, ReportInv, NEW h \in Handler, ExamineWaitingTask(h) PROVE ReportInv'
<1>1. SameTasks /\ agent' = agent /\ outcome' = outcome
  BY DEF ExamineWaitingTask, docVars, SameTasks, Existing
<1>2. Keeps(h)
  <2>1. Serves(pc[h], frame[h]) /\ Fits(pc[h], frame[h], Existing) /\ (Reports(h) /\ pc[h] = "cancelled" => frame[h].new = INTERRUPTED)
    BY ChainFits DEF ServeInv, ReportInv, Sound
  <2>. QED BY <2>1, EmptyFields, ExamineWaitingTaskTurn DEF ExamineWaitingTask, Fits, ReportSteps, Backs, Thens, Serves,
       Keeps, Reports, Sending, Goes, Begins, Same, SameRequest, SameTask, Back
<1>. QED BY <1>1, <1>2, SameMild, ReportKept, ExamineWaitingTaskTurn

LEMMA TakeWaitingTaskReports == ASSUME TypeInv, ServeInv, ReportInv, NEW h \in Handler, TakeWaitingTask(h) PROVE ReportInv'
<1>1. SameTasks /\ agent' = agent /\ outcome' = outcome
  BY DEF TakeWaitingTask, docVars, SameTasks, Existing
<1>2. Keeps(h)
  <2>1. Serves(pc[h], frame[h]) /\ Fits(pc[h], frame[h], Existing) /\ (Reports(h) /\ pc[h] = "cancelled" => frame[h].new = INTERRUPTED)
    BY ChainFits DEF ServeInv, ReportInv, Sound
  <2>. QED BY <2>1, EmptyFields, TakeWaitingTaskTurn DEF TakeWaitingTask, Fits, ReportSteps, Backs, Thens, Serves,
       Keeps, Reports, Sending, Goes, Begins, Same, SameRequest, SameTask, Back
<1>. QED BY <1>1, <1>2, SameMild, ReportKept, TakeWaitingTaskTurn

LEMMA WaitingTasksDoneReports == ASSUME TypeInv, ServeInv, ReportInv, NEW h \in Handler, WaitingTasksDone(h) PROVE ReportInv'
<1>1. SameTasks /\ agent' = agent /\ outcome' = outcome
  BY DEF WaitingTasksDone, docVars, SameTasks, Existing
<1>2. Keeps(h)
  <2>1. Serves(pc[h], frame[h]) /\ Fits(pc[h], frame[h], Existing) /\ (Reports(h) /\ pc[h] = "cancelled" => frame[h].new = INTERRUPTED)
    BY ChainFits DEF ServeInv, ReportInv, Sound
  <2>. QED BY <2>1, EmptyFields, WaitingTasksDoneTurn DEF WaitingTasksDone, Fits, ReportSteps, Backs, Thens, Serves,
       Keeps, Reports, Sending, Goes, Begins, Same, SameRequest, SameTask, Back
<1>. QED BY <1>1, <1>2, SameMild, ReportKept, WaitingTasksDoneTurn

LEMMA BeginDownstreamReports == ASSUME TypeInv, ServeInv, ReportInv, NEW h \in Handler, BeginDownstream(h) PROVE ReportInv'
<1>1. SameTasks /\ agent' = agent /\ outcome' = outcome
  BY DEF BeginDownstream, docVars, SameTasks, Existing
<1>2. Keeps(h)
  <2>1. Serves(pc[h], frame[h]) /\ Fits(pc[h], frame[h], Existing) /\ (Reports(h) /\ pc[h] = "cancelled" => frame[h].new = INTERRUPTED)
    BY ChainFits DEF ServeInv, ReportInv, Sound
  <2>. QED BY <2>1, EmptyFields, BeginDownstreamTurn DEF BeginDownstream, Fits, ReportSteps, Backs, Thens, Serves,
       Keeps, Reports, Sending, Goes, Begins, Same, SameRequest, SameTask, Back
<1>. QED BY <1>1, <1>2, SameMild, ReportKept, BeginDownstreamTurn

LEMMA DescendReports == ASSUME TypeInv, ServeInv, ReportInv, NEW h \in Handler, Descend(h) PROVE ReportInv'
<1>1. SameTasks /\ agent' = agent /\ outcome' = outcome
  BY DEF Descend, docVars, SameTasks, Existing
<1>2. Keeps(h)
  <2>1. Serves(pc[h], frame[h]) /\ Fits(pc[h], frame[h], Existing) /\ (Reports(h) /\ pc[h] = "cancelled" => frame[h].new = INTERRUPTED)
    BY ChainFits DEF ServeInv, ReportInv, Sound
  <2>. QED BY <2>1, EmptyFields, DescendTurn DEF Descend, Fits, ReportSteps, Backs, Thens, Serves,
       Keeps, Reports, Sending, Goes, Begins, Same, SameRequest, SameTask, Back
<1>. QED BY <1>1, <1>2, SameMild, ReportKept, DescendTurn

LEMMA ReadSkippedReports == ASSUME TypeInv, ServeInv, ReportInv, NEW h \in Handler, ReadSkipped(h) PROVE ReportInv'
<1>1. SameTasks /\ agent' = agent /\ outcome' = outcome
  BY DEF ReadSkipped, docVars, SameTasks, Existing
<1>2. Keeps(h)
  <2>1. Serves(pc[h], frame[h]) /\ Fits(pc[h], frame[h], Existing) /\ (Reports(h) /\ pc[h] = "cancelled" => frame[h].new = INTERRUPTED)
    BY ChainFits DEF ServeInv, ReportInv, Sound
  <2>. QED BY <2>1, EmptyFields, ReadSkippedTurn DEF ReadSkipped, Fits, ReportSteps, Backs, Thens, Serves,
       Keeps, Reports, Sending, Goes, Begins, Same, SameRequest, SameTask, Back
<1>. QED BY <1>1, <1>2, SameMild, ReportKept, ReadSkippedTurn

LEMMA WriteSkippedReports == ASSUME TypeInv, ServeInv, ReportInv, NEW h \in Handler, WriteSkipped(h) PROVE ReportInv'
<1>1. SameTasks /\ agent' = agent /\ outcome' = outcome
  BY DEF WriteSkipped, docVars, SameTasks, Existing
<1>2. Keeps(h)
  <2>1. Serves(pc[h], frame[h]) /\ Fits(pc[h], frame[h], Existing) /\ (Reports(h) /\ pc[h] = "cancelled" => frame[h].new = INTERRUPTED)
    BY ChainFits DEF ServeInv, ReportInv, Sound
  <2>. QED BY <2>1, EmptyFields, WriteSkippedTurn DEF WriteSkipped, Fits, ReportSteps, Backs, Thens, Serves,
       Keeps, Reports, Sending, Goes, Begins, Same, SameRequest, SameTask, Back
<1>. QED BY <1>1, <1>2, SameMild, ReportKept, WriteSkippedTurn

LEMMA DescendEndsReports == ASSUME TypeInv, ServeInv, ReportInv, NEW h \in Handler, DescendEnds(h) PROVE ReportInv'
<1>1. SameTasks /\ agent' = agent /\ outcome' = outcome
  BY DEF DescendEnds, docVars, SameTasks, Existing
<1>2. Keeps(h)
  <2>1. Serves(pc[h], frame[h]) /\ Fits(pc[h], frame[h], Existing) /\ (Reports(h) /\ pc[h] = "cancelled" => frame[h].new = INTERRUPTED)
    BY ChainFits DEF ServeInv, ReportInv, Sound
  <2>. QED BY <2>1, EmptyFields, DescendEndsTurn DEF DescendEnds, Fits, ReportSteps, Backs, Thens, Serves,
       Keeps, Reports, Sending, Goes, Begins, Same, SameRequest, SameTask, Back
<1>. QED BY <1>1, <1>2, SameMild, ReportKept, DescendEndsTurn

LEMMA LaunchRouteTargetReports == ASSUME TypeInv, ServeInv, ReportInv, NEW h \in Handler, LaunchRouteTarget(h) PROVE ReportInv'
<1>1. SameTasks /\ agent' = agent /\ outcome' = outcome
  BY DEF LaunchRouteTarget, docVars, SameTasks, Existing
<1>2. Keeps(h)
  <2>1. Serves(pc[h], frame[h]) /\ Fits(pc[h], frame[h], Existing) /\ (Reports(h) /\ pc[h] = "cancelled" => frame[h].new = INTERRUPTED)
    BY ChainFits DEF ServeInv, ReportInv, Sound
  <2>. QED BY <2>1, EmptyFields, LaunchRouteTargetTurn DEF LaunchRouteTarget, Fits, ReportSteps, Backs, Thens, Serves,
       Keeps, Reports, Sending, Goes, Begins, Same, SameRequest, SameTask, Back
<1>. QED BY <1>1, <1>2, SameMild, ReportKept, LaunchRouteTargetTurn

LEMMA LaunchDownstreamTaskReports == ASSUME TypeInv, ServeInv, ReportInv, NEW h \in Handler, LaunchDownstreamTask(h) PROVE ReportInv'
<1>1. SameTasks /\ agent' = agent /\ outcome' = outcome
  BY DEF LaunchDownstreamTask, docVars, SameTasks, Existing
<1>2. Keeps(h)
  <2>1. Serves(pc[h], frame[h]) /\ Fits(pc[h], frame[h], Existing) /\ (Reports(h) /\ pc[h] = "cancelled" => frame[h].new = INTERRUPTED)
    BY ChainFits DEF ServeInv, ReportInv, Sound
  <2>. QED BY <2>1, EmptyFields, LaunchDownstreamTaskTurn DEF LaunchDownstreamTask, Fits, ReportSteps, Backs, Thens, Serves,
       Keeps, Reports, Sending, Goes, Begins, Same, SameRequest, SameTask, Back
<1>. QED BY <1>1, <1>2, SameMild, ReportKept, LaunchDownstreamTaskTurn

LEMMA LaunchEndsReports == ASSUME TypeInv, ServeInv, ReportInv, NEW h \in Handler, LaunchEnds(h) PROVE ReportInv'
<1>1. SameTasks /\ agent' = agent /\ outcome' = outcome
  BY DEF LaunchEnds, docVars, SameTasks, Existing
<1>2. Keeps(h)
  <2>1. Serves(pc[h], frame[h]) /\ Fits(pc[h], frame[h], Existing) /\ (Reports(h) /\ pc[h] = "cancelled" => frame[h].new = INTERRUPTED)
    BY ChainFits DEF ServeInv, ReportInv, Sound
  <2>. QED BY <2>1, EmptyFields, LaunchEndsTurn DEF LaunchEnds, Fits, ReportSteps, Backs, Thens, Serves,
       Keeps, Reports, Sending, Goes, Begins, Same, SameRequest, SameTask, Back
<1>. QED BY <1>1, <1>2, SameMild, ReportKept, LaunchEndsTurn

LEMMA AfterDownstreamReports == ASSUME TypeInv, ServeInv, ReportInv, NEW h \in Handler, AfterDownstream(h) PROVE ReportInv'
<1>1. SameTasks /\ agent' = agent
  BY SetStatusKeepsTasks DEF AfterDownstream
<1>2. Keeps(h)
  <2>1. Serves(pc[h], frame[h]) /\ Fits(pc[h], frame[h], Existing) /\ (Reports(h) /\ pc[h] = "cancelled" => frame[h].new = INTERRUPTED)
    BY ChainFits DEF ServeInv, ReportInv, Sound
  <2>. QED BY <2>1, EmptyFields, AfterDownstreamTurn DEF AfterDownstream, Fits, ReportSteps, Backs, Thens, Serves,
       Keeps, Reports, Sending, Goes, Begins, Same, SameRequest, SameTask, Back
<1>3. Mild(h)
  <2>1. frame[h].of \in Existing /\ Reports(h) /\ (frame[h].new = INTERRUPTED => agent[frame[h].of] = "done")
    BY ChainFits DEF AfterDownstream, ReportInv, Sound, Fits, ReportSteps, Reports, INTERRUPTED, RUNNING, NULL
  <2>2. \A g \in Handler : g # h /\ Reports(g) => frame[g].of # frame[h].of
    BY <2>1 DEF ReportInv
  <2>. QED BY <2>1, <2>2, SetMild, SameMild DEF AfterDownstream
<1>. QED BY <1>1, <1>2, <1>3, ReportKept, AfterDownstreamTurn

LEMMA RepublishTaskReports == ASSUME TypeInv, ServeInv, ReportInv, NEW h \in Handler, RepublishTask(h) PROVE ReportInv'
<1>1. SameTasks /\ agent' = agent /\ outcome' = outcome
  BY DEF RepublishTask, docVars, SameTasks, Existing
<1>2. Keeps(h)
  <2>1. Serves(pc[h], frame[h]) /\ Fits(pc[h], frame[h], Existing) /\ (Reports(h) /\ pc[h] = "cancelled" => frame[h].new = INTERRUPTED)
    BY ChainFits DEF ServeInv, ReportInv, Sound
  <2>. QED BY <2>1, EmptyFields, RepublishTaskTurn DEF RepublishTask, Fits, ReportSteps, Backs, Thens, Serves,
       Keeps, Reports, Sending, Goes, Begins, Same, SameRequest, SameTask, Back
<1>. QED BY <1>1, <1>2, SameMild, ReportKept, RepublishTaskTurn

LEMMA FinishReportReports == ASSUME TypeInv, ServeInv, ReportInv, NEW h \in Handler, FinishReport(h) PROVE ReportInv'
<1>1. SameTasks /\ agent' = agent /\ outcome' = outcome
  BY DEF FinishReport, docVars, SameTasks, Existing
<1>2. Keeps(h)
  <2>1. Serves(pc[h], frame[h]) /\ Fits(pc[h], frame[h], Existing) /\ (Reports(h) /\ pc[h] = "cancelled" => frame[h].new = INTERRUPTED)
    BY ChainFits DEF ServeInv, ReportInv, Sound
  <2>. QED BY <2>1, EmptyFields, FinishReportTurn DEF FinishReport, Fits, ReportSteps, Backs, Thens, Serves,
       Keeps, Reports, Sending, Goes, Begins, Same, SameRequest, SameTask, Back
<1>. QED BY <1>1, <1>2, SameMild, ReportKept, FinishReportTurn

LEMMA ListTasksToStopReports == ASSUME TypeInv, ServeInv, ReportInv, NEW h \in Handler, ListTasksToStop(h) PROVE ReportInv'
<1>1. SameTasks /\ agent' = agent /\ outcome' = outcome
  BY DEF ListTasksToStop, docVars, SameTasks, Existing
<1>2. Keeps(h)
  <2>1. Serves(pc[h], frame[h]) /\ Fits(pc[h], frame[h], Existing) /\ (Reports(h) /\ pc[h] = "cancelled" => frame[h].new = INTERRUPTED)
    BY ChainFits DEF ServeInv, ReportInv, Sound
  <2>. QED BY <2>1, EmptyFields, ListTasksToStopTurn DEF ListTasksToStop, Fits, ReportSteps, Backs, Thens, Serves,
       Keeps, Reports, Sending, Goes, Begins, Same, SameRequest, SameTask, Back
<1>. QED BY <1>1, <1>2, SameMild, ReportKept, ListTasksToStopTurn

LEMMA StopTaskReports == ASSUME TypeInv, ServeInv, ReportInv, NEW h \in Handler, StopTask(h) PROVE ReportInv'
<1>1. SameTasks /\ agent' = agent /\ outcome' = outcome
  BY DEF StopTask, docVars, SameTasks, Existing
<1>2. Keeps(h)
  <2>1. Serves(pc[h], frame[h]) /\ Fits(pc[h], frame[h], Existing) /\ (Reports(h) /\ pc[h] = "cancelled" => frame[h].new = INTERRUPTED)
    BY ChainFits DEF ServeInv, ReportInv, Sound
  <2>. QED BY <2>1, EmptyFields, StopTaskTurn DEF StopTask, Fits, ReportSteps, Backs, Thens, Serves,
       Keeps, Reports, Sending, Goes, Begins, Same, SameRequest, SameTask, Back
<1>. QED BY <1>1, <1>2, SameMild, ReportKept, StopTaskTurn

LEMMA ListOutcomesToStopReports == ASSUME TypeInv, ServeInv, ReportInv, NEW h \in Handler, ListOutcomesToStop(h) PROVE ReportInv'
<1>1. SameTasks /\ agent' = agent /\ outcome' = outcome
  BY DEF ListOutcomesToStop, docVars, SameTasks, Existing
<1>2. Keeps(h)
  <2>1. Serves(pc[h], frame[h]) /\ Fits(pc[h], frame[h], Existing) /\ (Reports(h) /\ pc[h] = "cancelled" => frame[h].new = INTERRUPTED)
    BY ChainFits DEF ServeInv, ReportInv, Sound
  <2>. QED BY <2>1, EmptyFields, ListOutcomesToStopTurn DEF ListOutcomesToStop, Fits, ReportSteps, Backs, Thens, Serves,
       Keeps, Reports, Sending, Goes, Begins, Same, SameRequest, SameTask, Back
<1>. QED BY <1>1, <1>2, SameMild, ReportKept, ListOutcomesToStopTurn

LEMMA StopNextOutcomeReports == ASSUME TypeInv, ServeInv, ReportInv, NEW h \in Handler, StopNextOutcome(h) PROVE ReportInv'
<1>1. SameTasks /\ agent' = agent
  BY StopKeepsTasks DEF StopNextOutcome
<1>2. Keeps(h)
  <2>1. Serves(pc[h], frame[h]) /\ Fits(pc[h], frame[h], Existing) /\ (Reports(h) /\ pc[h] = "cancelled" => frame[h].new = INTERRUPTED)
    BY ChainFits DEF ServeInv, ReportInv, Sound
  <2>. QED BY <2>1, EmptyFields, StopNextOutcomeTurn DEF StopNextOutcome, Fits, ReportSteps, Backs, Thens, Serves,
       Keeps, Reports, Sending, Goes, Begins, Same, SameRequest, SameTask, Back
<1>3. Mild(h)
  BY ChainFits, StopMild DEF StopNextOutcome, Fits
<1>. QED BY <1>1, <1>2, <1>3, ReportKept, StopNextOutcomeTurn

LEMMA JobStoppedReports == ASSUME TypeInv, ServeInv, ReportInv, NEW h \in Handler, JobStopped(h) PROVE ReportInv'
<1>1. SameTasks /\ agent' = agent /\ outcome' = outcome
  BY DEF JobStopped, docVars, SameTasks, Existing
<1>2. Keeps(h)
  <2>1. Serves(pc[h], frame[h]) /\ Fits(pc[h], frame[h], Existing) /\ (Reports(h) /\ pc[h] = "cancelled" => frame[h].new = INTERRUPTED)
    BY ChainFits DEF ServeInv, ReportInv, Sound
  <2>. QED BY <2>1, EmptyFields, JobStoppedTurn DEF JobStopped, Fits, ReportSteps, Backs, Thens, Serves,
       Keeps, Reports, Sending, Goes, Begins, Same, SameRequest, SameTask, Back
<1>. QED BY <1>1, <1>2, SameMild, ReportKept, JobStoppedTurn

LEMMA ListOutcomesToRestartReports == ASSUME TypeInv, ServeInv, ReportInv, NEW h \in Handler, ListOutcomesToRestart(h) PROVE ReportInv'
<1>1. SameTasks /\ agent' = agent /\ outcome' = outcome
  BY DEF ListOutcomesToRestart, docVars, SameTasks, Existing
<1>2. Keeps(h)
  <2>1. Serves(pc[h], frame[h]) /\ Fits(pc[h], frame[h], Existing) /\ (Reports(h) /\ pc[h] = "cancelled" => frame[h].new = INTERRUPTED)
    BY ChainFits DEF ServeInv, ReportInv, Sound
  <2>. QED BY <2>1, EmptyFields, ListOutcomesToRestartTurn DEF ListOutcomesToRestart, Fits, ReportSteps, Backs, Thens, Serves,
       Keeps, Reports, Sending, Goes, Begins, Same, SameRequest, SameTask, Back
<1>. QED BY <1>1, <1>2, SameMild, ReportKept, ListOutcomesToRestartTurn

LEMMA RestartOutcomeReports == ASSUME TypeInv, ServeInv, ReportInv, NEW h \in Handler, RestartOutcome(h) PROVE ReportInv'
<1>1. SameTasks /\ agent' = agent
  BY SetRouteKeepsTasks, SetStatusKeepsTasks DEF RestartOutcome
<1>2. Keeps(h)
  <2>1. Serves(pc[h], frame[h]) /\ Fits(pc[h], frame[h], Existing) /\ (Reports(h) /\ pc[h] = "cancelled" => frame[h].new = INTERRUPTED)
    BY ChainFits DEF ServeInv, ReportInv, Sound
  <2>. QED BY <2>1, EmptyFields, RestartOutcomeTurn DEF RestartOutcome, Fits, ReportSteps, Backs, Thens, Serves,
       Keeps, Reports, Sending, Goes, Begins, Same, SameRequest, SameTask, Back
<1>3. Mild(h)
  <2>1. CASE UNCHANGED outcome
    BY <2>1, SameMild
  <2>2. CASE ~UNCHANGED outcome
    <3>1. PICK o \in frame[h].todoOut :
            /\ outcome[o].status \in {INTERRUPTED, FAILED}
            /\ outcome' = [outcome EXCEPT ![o].status = CANCELLED, ![o].route = ""]
      BY <2>2, RestartOutcomeTurn
    <3>2. o \in Existing /\ agent[o] = "done" /\ \A g \in Handler : Reports(g) /\ frame[g].of = o => pc[g] # "put"
      BY <3>1, ChainFits DEF Fits, ReportInv, Over, Sound
    <3>. QED BY <3>1, <3>2, SetMild
  <2>. QED BY <2>1, <2>2
<1>. QED BY <1>1, <1>2, <1>3, ReportKept, RestartOutcomeTurn

LEMMA ResetTaskReports == ASSUME TypeInv, ServeInv, ReportInv, NEW h \in Handler, ResetTask(h) PROVE ReportInv'
<1>1. SameTasks /\ agent' = agent /\ outcome' = outcome
  BY DEF ResetTask, docVars, SameTasks, Existing
<1>2. Keeps(h)
  <2>1. Serves(pc[h], frame[h]) /\ Fits(pc[h], frame[h], Existing) /\ (Reports(h) /\ pc[h] = "cancelled" => frame[h].new = INTERRUPTED)
    BY ChainFits DEF ServeInv, ReportInv, Sound
  <2>. QED BY <2>1, EmptyFields, ResetTaskTurn DEF ResetTask, Fits, ReportSteps, Backs, Thens, Serves,
       Keeps, Reports, Sending, Goes, Begins, Same, SameRequest, SameTask, Back
<1>. QED BY <1>1, <1>2, SameMild, ReportKept, ResetTaskTurn

LEMMA OutcomesRestartedReports == ASSUME TypeInv, ServeInv, ReportInv, NEW h \in Handler, OutcomesRestarted(h) PROVE ReportInv'
<1>1. SameTasks /\ agent' = agent /\ outcome' = outcome
  BY DEF OutcomesRestarted, docVars, SameTasks, Existing
<1>2. Keeps(h)
  <2>1. Serves(pc[h], frame[h]) /\ Fits(pc[h], frame[h], Existing) /\ (Reports(h) /\ pc[h] = "cancelled" => frame[h].new = INTERRUPTED)
    BY ChainFits DEF ServeInv, ReportInv, Sound
  <2>. QED BY <2>1, EmptyFields, OutcomesRestartedTurn DEF OutcomesRestarted, Fits, ReportSteps, Backs, Thens, Serves,
       Keeps, Reports, Sending, Goes, Begins, Same, SameRequest, SameTask, Back
<1>. QED BY <1>1, <1>2, SameMild, ReportKept, OutcomesRestartedTurn

LEMMA RestartJobReports == ASSUME TypeInv, ServeInv, ReportInv, NEW h \in Handler, RestartJob(h) PROVE ReportInv'
<1>1. SameTasks /\ agent' = agent /\ outcome' = outcome
  BY DEF RestartJob, docVars, SameTasks, Existing, JobAction
<1>2. Keeps(h)
  <2>1. Serves(pc[h], frame[h]) /\ Fits(pc[h], frame[h], Existing) /\ (Reports(h) /\ pc[h] = "cancelled" => frame[h].new = INTERRUPTED)
    BY ChainFits DEF ServeInv, ReportInv, Sound
  <2>. QED BY <2>1, EmptyFields, RestartJobTurn DEF RestartJob, JobAction, Fits, ReportSteps, Backs, Thens, Serves,
       Keeps, Reports, Sending, Goes, Begins, Same, SameRequest, SameTask, Back
<1>. QED BY <1>1, <1>2, SameMild, ReportKept, RestartJobTurn

LEMMA CancelJobReports == ASSUME TypeInv, ServeInv, ReportInv, NEW h \in Handler, CancelJob(h) PROVE ReportInv'
<1>1. SameTasks /\ agent' = agent /\ outcome' = outcome
  BY DEF CancelJob, docVars, SameTasks, Existing, JobAction
<1>2. Keeps(h)
  <2>1. Serves(pc[h], frame[h]) /\ Fits(pc[h], frame[h], Existing) /\ (Reports(h) /\ pc[h] = "cancelled" => frame[h].new = INTERRUPTED)
    BY ChainFits DEF ServeInv, ReportInv, Sound
  <2>. QED BY <2>1, EmptyFields, CancelJobTurn DEF CancelJob, JobAction, Fits, ReportSteps, Backs, Thens, Serves,
       Keeps, Reports, Sending, Goes, Begins, Same, SameRequest, SameTask, Back
<1>. QED BY <1>1, <1>2, SameMild, ReportKept, CancelJobTurn

LEMMA InterruptJobReports == ASSUME TypeInv, ServeInv, ReportInv, NEW h \in Handler, InterruptJob(h) PROVE ReportInv'
<1>1. SameTasks /\ agent' = agent /\ outcome' = outcome
  BY DEF InterruptJob, docVars, SameTasks, Existing, JobAction
<1>2. Keeps(h)
  <2>1. Serves(pc[h], frame[h]) /\ Fits(pc[h], frame[h], Existing) /\ (Reports(h) /\ pc[h] = "cancelled" => frame[h].new = INTERRUPTED)
    BY ChainFits DEF ServeInv, ReportInv, Sound
  <2>. QED BY <2>1, EmptyFields, InterruptJobTurn DEF InterruptJob, JobAction, Fits, ReportSteps, Backs, Thens, Serves,
       Keeps, Reports, Sending, Goes, Begins, Same, SameRequest, SameTask, Back
<1>. QED BY <1>1, <1>2, SameMild, ReportKept, InterruptJobTurn

LEMMA StopTaskOutcomeReports == ASSUME TypeInv, ServeInv, ReportInv, NEW h \in Handler, StopTaskOutcome(h) PROVE ReportInv'
<1>1. PICK o \in Existing, op \in {"cancel", "interrupt"} : StopOutcome(op, o)
  BY DEF StopTaskOutcome
<1>2. SameTasks /\ Mild(h)
  BY <1>1, StopKeepsTasks, StopMild
<1>3. pc[h] = "idle" /\ frame[h].op # "report"
  BY DEF StopTaskOutcome, ServeInv, Serves
<1>4. Keeps(h) /\ Others(h)
  BY <1>3 DEF StopTaskOutcome, Keeps, Others, Reports, Sending
<1>. QED BY <1>2, <1>4, ReportKept DEF StopTaskOutcome

LEMMA RestartTaskOutcomeReports == ASSUME TypeInv, ServeInv, ReportInv, NEW h \in Handler, RestartTaskOutcome(h) PROVE ReportInv'
<1>1. SameTasks /\ agent' = agent /\ outcome' = outcome
  BY DEF RestartTaskOutcome, docVars, SameTasks, Existing
<1>2. Keeps(h)
  <2>1. Serves(pc[h], frame[h]) /\ Fits(pc[h], frame[h], Existing) /\ (Reports(h) /\ pc[h] = "cancelled" => frame[h].new = INTERRUPTED)
    BY ChainFits DEF ServeInv, ReportInv, Sound
  <2>. QED BY <2>1, EmptyFields, RestartTaskOutcomeTurn DEF RestartTaskOutcome, Fits, ReportSteps, Backs, Thens, Serves,
       Keeps, Reports, Sending, Goes, Begins, Same, SameRequest, SameTask, Back
<1>. QED BY <1>1, <1>2, SameMild, ReportKept, RestartTaskOutcomeTurn

LEMMA LaunchJobReports == ASSUME TypeInv, ServeInv, ReportInv, NEW h \in Handler, LaunchJob(h) PROVE ReportInv'
<1>1. SameTasks /\ agent' = agent /\ outcome' = outcome
  BY DEF LaunchJob, docVars, SameTasks, Existing
<1>2. Keeps(h)
  <2>1. Serves(pc[h], frame[h]) /\ Fits(pc[h], frame[h], Existing) /\ (Reports(h) /\ pc[h] = "cancelled" => frame[h].new = INTERRUPTED)
    BY ChainFits DEF ServeInv, ReportInv, Sound
  <2>. QED BY <2>1, EmptyFields, LaunchJobTurn DEF LaunchJob, Fits, ReportSteps, Backs, Thens, Serves,
       Keeps, Reports, Sending, Goes, Begins, Same, SameRequest, SameTask, Back
<1>. QED BY <1>1, <1>2, SameMild, ReportKept, LaunchJobTurn

LEMMA ReportArrivesReports == ASSUME TypeInv, ServeInv, ReportInv, NEW h \in Handler, ReportArrives(h) PROVE ReportInv'
<1>1. PICK o \in Existing : \E r \in Report(o) :
        /\ ~Reporting(o)
        /\ agent' = [agent EXCEPT ![o] = IF r[1] = RUNNING THEN "running" ELSE "done"]
        /\ \/ pc'[h] = "idle" /\ frame'[h] = EmptyFrame
           \/ /\ pc'[h] = "put" /\ Begins(h, "report")
              /\ frame'[h].of = o /\ frame'[h].new = r[1]
  BY ReportArrivesTurn
<1>2. PICK r \in Report(o) :
        /\ ~Reporting(o)
        /\ agent' = [agent EXCEPT ![o] = IF r[1] = RUNNING THEN "running" ELSE "done"]
        /\ \/ pc'[h] = "idle" /\ frame'[h] = EmptyFrame
           \/ /\ pc'[h] = "put" /\ Begins(h, "report")
              /\ frame'[h].of = o /\ frame'[h].new = r[1]
  BY <1>1
<1>3. /\ agent[o] \in {"queued", "running"} /\ o \in Outcome /\ UNCHANGED outcome /\ Existing' = Existing
      /\ \/ r[1] = RUNNING /\ agent[o] = "queued"
         \/ r[1] \in {FAILED, SUCCEEDED, INTERRUPTED} /\ agent[o] = "running"
  BY ReportValues, SameOutcomes DEF Existing, ReportArrives, docVars
<1>4. /\ agent'[o] = IF r[1] = RUNNING THEN "running" ELSE "done"
      /\ \A p \in Outcome : p # o => agent'[p] = agent[p]
  BY <1>2, <1>3 DEF TypeInv, DocumentsOK
<1>5. outcome[o].status \notin Over
  BY <1>3 DEF ReportInv
<1>6. \A q \in Handler : Reports(q) => frame[q].of # o
  BY <1>2 DEF Reporting, Reports
<1>7. ASSUME NEW q \in Handler PROVE Sound(q)'
  <2>1. Sound(q) /\ (Reports(q) => frame[q].of \in Outcome)
    BY ChainFits DEF ReportInv, Fits, Reports, Existing
  <2>2. CASE q # h
    <3>1. pc'[q] = pc[q] /\ frame'[q] = frame[q] /\ (Sending(q) => frame[q].out # o /\ frame[q].out \in Outcome)
      BY <1>3, <2>1, <2>2, ReportArrivesTurn DEF Others, Sound, Existing
    <3>. QED BY <1>3, <1>4, <1>6, <2>1, <3>1 DEF Sound, Sending, Reports
  <2>3. CASE q = h
    <3>1. CASE pc'[h] = "idle" /\ frame'[h] = EmptyFrame
      BY <2>3, <3>1, EmptyFields DEF Sound, Sending, Reports
    <3>2. CASE pc'[h] = "put" /\ Begins(h, "report") /\ frame'[h].of = o /\ frame'[h].new = r[1]
      <4>1. agent'[o] \in {"running", "done"} /\ (r[1] \notin {RUNNING, NULL} => agent'[o] = "done")
        BY <1>4
      <4>. QED BY <1>3, <1>5, <2>3, <3>2, <4>1 DEF Sound, Sending, Reports, Begins
    <3>. QED BY <1>2, <3>1, <3>2
  <2>. QED BY <2>2, <2>3
<1>8. \A g, q \in Handler : Reports(g)' /\ Reports(q)' /\ frame'[g].of = frame'[q].of => g = q
  BY <1>2, <1>6, EmptyFields, ReportArrivesTurn DEF ReportInv, Reports, Others
<1>9. \A g, q \in Handler : frame'[g].out = frame'[q].out /\ frame'[q].out # NoOutcome => g = q
  BY <1>2, EmptyFields, ReportArrivesTurn DEF ReportInv, Others, Begins
<1>10. /\ \A p \in Outcome \ Existing' : agent'[p] = "none" /\ outcome'[p].status = NULL
       /\ \A p \in Existing' : outcome'[p].status \in Over => agent'[p] = "done"
  BY <1>3, <1>4, <1>5 DEF ReportInv, Existing
<1>. QED BY <1>7, <1>8, <1>9, <1>10 DEF ReportInv

LEMMA AgentReturnsReports == ASSUME TypeInv, ServeInv, ReportInv, NEW h \in Handler, AgentReturns(h) PROVE ReportInv'
<1>1. SameTasks /\ agent' = agent /\ outcome' = outcome
  BY DEF AgentReturns, docVars, SameTasks, Existing
<1>2. Keeps(h)
  <2>1. Serves(pc[h], frame[h]) /\ Fits(pc[h], frame[h], Existing) /\ (Reports(h) /\ pc[h] = "cancelled" => frame[h].new = INTERRUPTED)
    BY ChainFits DEF ServeInv, ReportInv, Sound
  <2>. QED BY <2>1, EmptyFields, AgentReturnsTurn DEF AgentReturns, Fits, ReportSteps, Backs, Thens, Serves,
       Keeps, Reports, Sending, Goes, Begins, Same, SameRequest, SameTask, Back
<1>. QED BY <1>1, <1>2, SameMild, ReportKept, AgentReturnsTurn

LEMMA InitReports == Init => ReportInv
<1>. SUFFICES ASSUME Init PROVE ReportInv
  OBVIOUS
<1>1. Existing = {}
  BY DEF Init, Existing, NoDocument
<1>2. /\ \A h \in Handler : pc[h] = "idle" /\ frame[h] = EmptyFrame
      /\ \A o \in Outcome : agent[o] = "none" /\ outcome[o].status = NULL
  BY DEF Init, NoDocument
<1>3. \A h \in Handler : ~Reports(h) /\ ~Sending(h) /\ frame[h].out = NoOutcome
  BY <1>2, EmptyFields DEF Reports, Sending
<1>. QED BY <1>1, <1>2, <1>3 DEF ReportInv, Sound

LEMMA StepReports == TypeInv /\ ServeInv /\ ReportInv /\ [Next]_vars => ReportInv'
<1>. SUFFICES ASSUME TypeInv, ServeInv, ReportInv, [Next]_vars PROVE ReportInv'
  OBVIOUS
<1>1. CASE UNCHANGED vars
  BY <1>1 DEF vars, ReportInv, Sound, Reports, Sending, Existing
<1>. SUFFICES ASSUME NEW h \in Handler,
                     Step(h) \/ LaunchJob(h) \/ ReportArrives(h) \/ AgentReturns(h) \/ UserRequest(h)
              PROVE ReportInv'
  BY <1>1 DEF Next
<1>2. CASE UpdateStep(h)
  BY <1>2,
     ReadJobReports, ReadOutcomesReports, ReadTasksReports, WriteJobReports, RereadJobReports
     DEF UpdateStep
<1>3. CASE PublishStep(h)
  BY <1>3,
     RouteToAgentReports, RouteFailsReports, CreateTaskOutcomeReports, RecheckTaskReports,
     CancelNewOutcomeReports, SendToAgentReports, PublishedReports
     DEF PublishStep
<1>4. CASE StartStep(h)
  BY <1>4,
     BeginTasksReports, SnapshotTasksReports, StartTaskReports, TasksStartedReports,
     StartEndsReports
     DEF StartStep
<1>5. CASE ReportStep(h)
  BY <1>5,
     PutReportReports, PutCancelledReports, ListWaitingTasksReports, ExamineWaitingTaskReports,
     TakeWaitingTaskReports, WaitingTasksDoneReports, BeginDownstreamReports, DescendReports,
     ReadSkippedReports, WriteSkippedReports, DescendEndsReports, LaunchRouteTargetReports,
     LaunchDownstreamTaskReports, LaunchEndsReports, AfterDownstreamReports,
     RepublishTaskReports, FinishReportReports
     DEF ReportStep
<1>6. CASE ActionStep(h)
  BY <1>6,
     ListTasksToStopReports, StopTaskReports, ListOutcomesToStopReports, StopNextOutcomeReports,
     JobStoppedReports, ListOutcomesToRestartReports, RestartOutcomeReports, ResetTaskReports,
     OutcomesRestartedReports
     DEF ActionStep
<1>7. CASE UserRequest(h)
  BY <1>7,
     RestartJobReports, CancelJobReports, InterruptJobReports, StopTaskOutcomeReports,
     RestartTaskOutcomeReports
     DEF UserRequest
<1>8. CASE LaunchJob(h) \/ ReportArrives(h) \/ AgentReturns(h)
  BY <1>8, LaunchJobReports, ReportArrivesReports, AgentReturnsReports
<1>. QED BY <1>2, <1>3, <1>4, <1>5, <1>6, <1>7, <1>8 DEF Step

-----------------------------------------------------------------------------
(***************************************************************************)
(* SuccessIsFinal                                                          *)
(***************************************************************************)
SuccessKept == \A o \in Outcome : outcome[o].status = SUCCEEDED => outcome'[o].status = SUCCEEDED

\* A conditional write of another status.
LEMMA SetKeepsSuccess ==
    ASSUME TypeInv, NEW o \in Outcome, NEW s, NEW r, outcome[o].status # SUCCEEDED,
           SetOutcome(o, s) \/ outcome' = [outcome EXCEPT ![o].status = s, ![o].route = r]
    PROVE  SuccessKept
<1>1. \A p \in Outcome : p # o => outcome'[p] = outcome[p]
  BY DEF SetOutcome, TypeInv, DocumentsOK
<1>. QED BY <1>1 DEF SuccessKept

LEMMA StopKeepsSuccess ==
    ASSUME TypeInv, NEW o \in Existing, NEW op, StopOutcome(op, o)
    PROVE  SuccessKept
<1>1. CASE UNCHANGED outcome
  BY <1>1 DEF SuccessKept
<1>2. CASE ~UNCHANGED outcome
  <2>1. outcome[o].status # SUCCEEDED /\ o \in Outcome
    BY <1>2 DEF StopOutcome, Cancellable, Interruptible, SUCCEEDED, FAILED, CANCELING, RUNNING, Existing
  <2>2. PICK s : SetOutcome(o, s)
    BY <1>2 DEF StopOutcome
  <2>. QED BY <2>1, <2>2, SetKeepsSuccess
<1>. QED BY <1>1, <1>2

LEMMA CreateTaskOutcomeSuccess == ASSUME TypeInv, ReportInv, NEW h \in Handler, CreateTaskOutcome(h) PROVE SuccessKept
<1>1. PICK o \in Unused :
        outcome' = [outcome EXCEPT ![o] = [task |-> frame[h].task, status |-> PUBLISHED, route |-> ""]]
  BY CreateTaskOutcomeTurn
<1>2. outcome[o].status # SUCCEEDED /\ o \in Outcome
  BY DEF ReportInv, Unused, NULL, SUCCEEDED
<1>3. \A p \in Outcome : p # o => outcome'[p] = outcome[p]
  BY <1>1 DEF TypeInv, DocumentsOK
<1>. QED BY <1>2, <1>3 DEF SuccessKept

LEMMA CancelNewOutcomeSuccess == ASSUME TypeInv, ReportInv, NEW h \in Handler, CancelNewOutcome(h) PROVE SuccessKept
<1>1. CASE UNCHANGED outcome
  BY <1>1 DEF SuccessKept
<1>2. CASE ~UNCHANGED outcome
  <2>1. SetOutcome(frame[h].out, CANCELING) /\ outcome[frame[h].out].status # SUCCEEDED
    BY <1>2 DEF CancelNewOutcome, Cancellable, SUCCEEDED, FAILED, CANCELING
  <2>2. frame[h].out \in Outcome
    BY DEF CancelNewOutcome, ReportInv, Sound, Sending, Existing
  <2>. QED BY <2>1, <2>2, SetKeepsSuccess
<1>. QED BY <1>1, <1>2

LEMMA PutReportSuccess == ASSUME TypeInv, ReportInv, NEW h \in Handler, PutReport(h) PROVE SuccessKept
<1>1. frame[h].of \in Outcome /\ outcome[frame[h].of].status # SUCCEEDED
  BY ChainFits DEF PutReport, Fits, ReportSteps, ReportInv, Sound, Reports, Over, Existing
<1>. QED BY <1>1, SetKeepsSuccess DEF PutReport

LEMMA PutCancelledSuccess == ASSUME TypeInv, ReportInv, NEW h \in Handler, PutCancelled(h) PROVE SuccessKept
<1>1. frame[h].of \in Outcome /\ outcome[frame[h].of].status # SUCCEEDED
  BY ChainFits DEF PutCancelled, Fits, ReportSteps, ReportInv, Sound, Reports, Existing, INTERRUPTED,
     SUCCEEDED, NULL
<1>. QED BY <1>1, SetKeepsSuccess DEF PutCancelled

LEMMA AfterDownstreamSuccess == ASSUME TypeInv, ReportInv, NEW h \in Handler, AfterDownstream(h) PROVE SuccessKept
<1>1. CASE frame[h].new = INTERRUPTED
  <2>1. frame[h].of \in Outcome /\ outcome[frame[h].of].status # SUCCEEDED
    BY <1>1, ChainFits DEF AfterDownstream, Fits, ReportSteps, ReportInv, Sound, Reports, Existing,
       INTERRUPTED, SUCCEEDED, NULL
  <2>. QED BY <2>1, SetKeepsSuccess DEF AfterDownstream, SuccessKept
<1>2. CASE frame[h].new # INTERRUPTED
  BY <1>2 DEF AfterDownstream, SuccessKept
<1>. QED BY <1>1, <1>2

LEMMA StopNextOutcomeSuccess == ASSUME TypeInv, ReportInv, NEW h \in Handler, StopNextOutcome(h) PROVE SuccessKept
BY ChainFits, StopKeepsSuccess DEF StopNextOutcome, Fits

LEMMA RestartOutcomeSuccess == ASSUME TypeInv, ReportInv, NEW h \in Handler, RestartOutcome(h) PROVE SuccessKept
<1>1. CASE UNCHANGED outcome
  BY <1>1 DEF SuccessKept
<1>2. CASE ~UNCHANGED outcome
  <2>1. PICK o \in frame[h].todoOut :
          /\ outcome[o].status \in {INTERRUPTED, FAILED}
          /\ outcome' = [outcome EXCEPT ![o].status = CANCELLED, ![o].route = ""]
    BY <1>2, RestartOutcomeTurn
  <2>2. o \in Outcome
    BY <2>1, ChainFits DEF Fits, Existing
  <2>3. outcome[o].status # SUCCEEDED
    <3>1. outcome[o].status = INTERRUPTED \/ outcome[o].status = FAILED
      BY <2>1
    <3>. QED BY <3>1 DEF INTERRUPTED, FAILED, SUCCEEDED
  <2>. QED BY <2>1, <2>2, <2>3, SetKeepsSuccess
<1>. QED BY <1>1, <1>2

LEMMA StopTaskOutcomeSuccess == ASSUME TypeInv, ReportInv, NEW h \in Handler, StopTaskOutcome(h) PROVE SuccessKept
BY StopKeepsSuccess DEF StopTaskOutcome

LEMMA StepSuccess == TypeInv /\ ReportInv /\ [Next]_vars => SuccessKept
<1>. SUFFICES ASSUME TypeInv, ReportInv, [Next]_vars PROVE SuccessKept
  OBVIOUS
<1>1. CASE UNCHANGED outcome
  BY <1>1 DEF SuccessKept
<1>2. CASE ~UNCHANGED outcome
  <2>. SUFFICES ASSUME NEW h \in Handler,
                       Step(h) \/ LaunchJob(h) \/ ReportArrives(h) \/ AgentReturns(h) \/ UserRequest(h)
                PROVE SuccessKept
    BY <1>2 DEF Next, vars
  <2>1. CASE UpdateStep(h)
    BY <1>2, <2>1
       DEF UpdateStep, ReadJob, ReadOutcomes, ReadTasks, WriteJob, RereadJob, docVars
  <2>2. CASE PublishStep(h)
    BY <1>2, <2>2, CreateTaskOutcomeSuccess, CancelNewOutcomeSuccess
       DEF PublishStep, RouteToAgent, RouteFails, RecheckTask, SendToAgent, Published, docVars
  <2>3. CASE StartStep(h)
    BY <1>2, <2>3
       DEF StartStep, BeginTasks, SnapshotTasks, StartTask, TasksStarted, StartEnds, docVars
  <2>4. CASE ReportStep(h)
    BY <1>2, <2>4, PutReportSuccess, PutCancelledSuccess, AfterDownstreamSuccess
       DEF ReportStep, ListWaitingTasks, ExamineWaitingTask, TakeWaitingTask, WaitingTasksDone, BeginDownstream, Descend, ReadSkipped, WriteSkipped, DescendEnds, LaunchRouteTarget, LaunchDownstreamTask, LaunchEnds, RepublishTask, FinishReport, docVars
  <2>5. CASE ActionStep(h)
    BY <1>2, <2>5, StopNextOutcomeSuccess, RestartOutcomeSuccess
       DEF ActionStep, ListTasksToStop, StopTask, ListOutcomesToStop, JobStopped, ListOutcomesToRestart, ResetTask, OutcomesRestarted, docVars
  <2>6. CASE UserRequest(h)
    BY <1>2, <2>6, StopTaskOutcomeSuccess
       DEF UserRequest, RestartJob, CancelJob, InterruptJob, RestartTaskOutcome, JobAction, docVars
  <2>7. CASE LaunchJob(h) \/ ReportArrives(h) \/ AgentReturns(h)
    BY <1>2, <2>7 DEF LaunchJob, ReportArrives, AgentReturns, docVars
  <2>. QED BY <2>1, <2>2, <2>3, <2>4, <2>5, <2>6, <2>7 DEF Step
<1>. QED BY <1>1, <1>2

\* A task outcome that SUCCEEDED keeps that status, although a report checks the old
\* status and writes in a later step, and requests to stop or restart outcomes work
\* through lists made before: only one report on an outcome is handled at a time, an
\* agent that is done does not report again, and every other write is conditional.
THEOREM SuccessStays == Spec => SuccessIsFinal
<1>1. TypeInv /\ ReportInv /\ [Next]_vars => [SuccessKept]_vars
  BY StepSuccess
<1>2. Spec => [][SuccessKept]_vars
  BY <1>1, InitType, InitServes, InitReports, StepType, StepServes, StepReports, PTL DEF Spec
<1>. QED BY <1>2 DEF SuccessKept, SuccessIsFinal

-----------------------------------------------------------------------------
(***************************************************************************)
(* Claims: no task of a job runs twice at the same time, and a job that    *)
(* nobody stops runs as DagRun says.                                       *)
(*                                                                         *)
(* A claim on a task is whatever entitles somebody to publish it once, now *)
(* or later: a job not yet started, tasks it still awaits, its name on a   *)
(* chain's list, a chain that publishes it, its status that says it waits  *)
(* for an agent; and its live outcome.  A task has one claim at most,      *)
(* because every step keeps the claims, drops some, or turns one into      *)
(* another.                                                                *)
(***************************************************************************)

-----------------------------------------------------------------------------
(***************************************************************************)
(* The invariant                                                           *)
(***************************************************************************)
\* The job is not restarted by hand, and an outcome only if its task is not restarted by
\* itself.
RestartsApart == "restart" \notin Events /\ ("restartoutcome" \in Events => AutoRestart = {})

\* The launcher has not yet listed the tasks to start with.
Fresh == ~started \/ \E h \in Handler : frame[h].op = "start" /\ pc[h] \in {"begin", "snapshot"}

\* While `then' is set a task is being published.
Publishes(at, f) ==
    \/ at \in {"route", "save", "recheck", "cancelnew", "send", "published"}
    \/ at \in {"readjob", "outcomes", "tasks", "write"} /\ f.back \in {"send", "published"}

Placed(at, f) ==
    /\ f.op # "restart" /\ at # "restartlist"
    /\ f.op = "restartoutcome" => AutoRestart = {}
    /\ f.op \in {"none", "cancel", "interrupt"} => f.task = NoTask
    /\ f.then # "idle" => Publishes(at, f)
    /\ f.launchTo \subseteq RouteTargets

\* An interrupted outcome whose task restarts by itself has not been cancelled yet.
BeforeRestart(at, f) ==
    /\ f.op = "report" /\ f.new = INTERRUPTED /\ f.then # "finish"
    /\ at \notin {"put", "cancelled", "republish", "finish"}
Spared(at, f, outs) ==
    BeforeRestart(at, f) /\ outs[f.of].task \in AutoRestart => outs[f.of].status # CANCELLED

StartInv ==
    /\ \A g, h \in Handler : frame[g].op = "start" /\ frame[h].op = "start" => g = h
    /\ ~started => \A h \in Handler : frame[h].op # "start"
    /\ Fresh => /\ Existing = {} /\ matched = {}
                /\ \A t \in Task : taskStatus[t] \in {NULL, CANCELLED}
                /\ \A h \in Handler : frame[h].op \in {"none", "start", "cancel", "interrupt"}

\* How a chain at a point, with the locals f, may hold a claim on the task t.
Carried(k, at, f, outs, t) ==
    \/ k = "publish" /\ at \in {"route", "save"} /\ f.task = t
    \/ k = "todo" /\ f.op = "start" /\ t \in f.todo
    \/ k = "launch" /\ t \in f.launch
    \/ k = "republish" /\ at = "republish" /\ outs[f.of].task = t
    \/ k = "reset" /\ at = "reset" /\ f.task = t

\* The claims on t: one of the kind k, held by x.
DocClaim(k, x, t) ==
    \/ k = "outcome" /\ x \in Existing /\ outcome[x].task = t /\ outcome[x].status # CANCELLED
    \/ k = "waiting" /\ x = 0 /\ taskStatus[t] = WAITING_FOR_AGENT
    \/ k = "awaits" /\ x = 0 /\ upDep[t] # {}
    \/ k = "fresh" /\ x = 0 /\ Upstream(t) = {} /\ Fresh

Claim(k, x, t) == DocClaim(k, x, t) \/ (x \in Handler /\ Carried(k, pc[x], frame[x], outcome, t))

Single(t) == \A k, x, j, y : Claim(k, x, t) /\ Claim(j, y, t) => k = j /\ x = y

\* The tasks that are published by claims: the target of a route is published whenever
\* it is routed to.
Claimed == Task \ RouteTargets

PlacedInv == \A h \in Handler : Placed(pc[h], frame[h]) /\ Spared(pc[h], frame[h], outcome)
ClaimInv == \A t \in Claimed : Single(t)
OnceInv == PlacedInv /\ StartInv /\ ClaimInv

-----------------------------------------------------------------------------
(***************************************************************************)
(* What a step has to do with the three                                    *)
(***************************************************************************)
\* The chain's locals, with its request, say no more than before of what it may do.
Turns(h) ==
    /\ Placed(pc'[h], frame'[h])
    /\ frame'[h].op \in {frame[h].op, "none", "cancel", "interrupt"}
         \/ (~Fresh /\ frame'[h].op # "start")
    /\ frame'[h].op = "start" /\ pc'[h] \in {"begin", "snapshot"} => pc[h] \in {"begin", "snapshot"}

\* The outcomes stay with their tasks, and of those whose task restarts by itself only the
\* chain's own is cancelled.
CancelsOwn(h) ==
    \A o \in Existing :
        /\ outcome'[o].task = outcome[o].task
        /\ outcome'[o].status = CANCELLED /\ outcome[o].task \in AutoRestart
             => outcome[o].status = CANCELLED \/ (Reports(h) /\ frame[h].of = o)

\* No document of a fresh job is touched.
StaysFresh ==
    Fresh => /\ Existing' = {} /\ matched' = {}
             /\ \A t \in Task : taskStatus'[t] \in {NULL, CANCELLED}

LEMMA PlacedStep ==
    ASSUME TypeInv, ReportInv, PlacedInv, NEW h \in Handler, Others(h), CancelsOwn(h),
           Placed(pc'[h], frame'[h]), Spared(pc'[h], frame'[h], outcome')
    PROVE  PlacedInv'
<1>1. ASSUME NEW q \in Handler, q # h
      PROVE  Placed(pc'[q], frame'[q]) /\ Spared(pc'[q], frame'[q], outcome')
  <2>1. /\ pc'[q] = pc[q] /\ frame'[q] = frame[q]
        /\ Placed(pc[q], frame[q]) /\ Spared(pc[q], frame[q], outcome)
    BY <1>1 DEF Others, PlacedInv
  <2>2. Reports(q) => frame[q].of \in Existing /\ (Reports(h) => frame[h].of # frame[q].of)
    BY <1>1, ChainFits DEF Reports, Fits, ReportInv
  <2>. QED BY <2>1, <2>2 DEF Spared, BeforeRestart, Reports, CancelsOwn
<1>. QED BY <1>1 DEF PlacedInv

LEMMA FreshKept ==
    ASSUME NEW h \in Handler, Others(h), started' = started, Turns(h), Fresh'
    PROVE  Fresh
<1>1. CASE ~started
  BY <1>1 DEF Fresh
<1>2. CASE started
  <2>1. PICK q \in Handler : frame'[q].op = "start" /\ pc'[q] \in {"begin", "snapshot"}
    BY <1>2 DEF Fresh
  <2>2. CASE q # h
    BY <2>1, <2>2 DEF Others, Fresh
  <2>3. CASE q = h
    BY <2>1, <2>3 DEF Turns, Fresh
  <2>. QED BY <2>2, <2>3
<1>. QED BY <1>1, <1>2

LEMMA StartKept ==
    ASSUME StartInv, NEW h \in Handler, Others(h), started' = started, Turns(h), StaysFresh
    PROVE  StartInv'
<1>1. \A q \in Handler : frame'[q].op = "start" => frame[q].op = "start"
  BY DEF Others, Turns
<1>2. Fresh' => Fresh
  BY FreshKept
<1>3. Fresh => \A q \in Handler : frame'[q].op \in {"none", "start", "cancel", "interrupt"}
  BY DEF Others, Turns, StartInv
<1>4. Fresh' => /\ Existing' = {} /\ matched' = {}
                /\ \A t \in Task : taskStatus'[t] \in {NULL, CANCELLED}
                /\ \A q \in Handler : frame'[q].op \in {"none", "start", "cancel", "interrupt"}
  BY <1>2, <1>3 DEF StaysFresh
<1>. QED BY <1>1, <1>4 DEF StartInv

\* A step keeps the claims on t, or turns one of them into another.
Kept(t) == \A k, x : Claim(k, x, t)' => Claim(k, x, t)
Turned(t, k, x, j, y) ==
    /\ Claim(k, x, t) /\ ~Claim(k, x, t)'
    /\ \A i, z : Claim(i, z, t)' => Claim(i, z, t) \/ (i = j /\ z = y)

LEMMA KeptSingle == ASSUME NEW t, Single(t), Kept(t) PROVE Single(t)'
BY DEF Single, Kept

LEMMA TurnedSingle ==
    ASSUME NEW t, NEW k, NEW x, NEW j, NEW y, Single(t), Turned(t, k, x, j, y)
    PROVE  Single(t)'
<1>1. ASSUME NEW i, NEW z, Claim(i, z, t)' PROVE i = j /\ z = y
  <2>1. CASE Claim(i, z, t)
    <3>1. i = k /\ z = x
      BY <2>1 DEF Single, Turned
    <3>. QED BY <1>1, <3>1 DEF Turned
  <2>. QED BY <1>1, <2>1 DEF Turned
<1>. QED BY <1>1 DEF Single

\* What the documents claim for t stays or is dropped.
Lessens(t) ==
    /\ \A o \in Existing' : outcome'[o].task = t /\ outcome'[o].status # CANCELLED
         => o \in Existing /\ outcome[o].task = t /\ outcome[o].status # CANCELLED
    /\ taskStatus'[t] = WAITING_FOR_AGENT => taskStatus[t] = WAITING_FOR_AGENT
    /\ upDep'[t] # {} => upDep[t] # {}
    /\ Fresh' => Fresh

KeepsTasks == \A o \in Existing : outcome'[o].task = outcome[o].task

LEMMA LessClaims ==
    ASSUME NEW t, Lessens(t), NEW k, NEW x, DocClaim(k, x, t)'
    PROVE  DocClaim(k, x, t)
<1>1. Upstream(t)' = Upstream(t)
  BY DEF Upstream
<1>. QED BY <1>1 DEF DocClaim, Lessens

\* A claim that is new is the chain's, or a document's.
LEMMA NewClaim ==
    ASSUME TypeInv, NEW h \in Handler, Others(h), KeepsTasks, NEW t, NEW k, NEW x, Claim(k, x, t)'
    PROVE  \/ Claim(k, x, t)
           \/ x = h /\ Carried(k, pc'[h], frame'[h], outcome', t)
           \/ DocClaim(k, x, t)'
<1>1. CASE x \in Handler /\ Carried(k, pc'[x], frame'[x], outcome', t) /\ x # h
  <2>1. pc'[x] = pc[x] /\ frame'[x] = frame[x]
    BY <1>1 DEF Others
  <2>2. pc[x] = "republish" => frame[x].of \in Existing
    BY <1>1, ChainFits DEF Fits, ReportSteps
  <2>3. Carried(k, pc[x], frame[x], outcome, t)
    BY <1>1, <2>1, <2>2 DEF Carried, KeepsTasks
  <2>. QED BY <1>1, <2>3 DEF Claim
<1>. QED BY <1>1 DEF Claim

\* Nothing new is carried.
CarriesNoMore(h, t) == \A k :
    Carried(k, pc'[h], frame'[h], outcome', t) => Carried(k, pc[h], frame[h], outcome, t)

LEMMA QuietSingle ==
    ASSUME TypeInv, NEW h \in Handler, Others(h), KeepsTasks, NEW t, Single(t), Lessens(t), CarriesNoMore(h, t)
    PROVE  Single(t)'
<1>1. Kept(t)
  <2>. SUFFICES ASSUME NEW k, NEW x, Claim(k, x, t)' PROVE Claim(k, x, t)
    BY DEF Kept
  <2>1. \/ Claim(k, x, t)
        \/ x = h /\ Carried(k, pc'[h], frame'[h], outcome', t)
        \/ DocClaim(k, x, t)'
    BY NewClaim
  <2>2. DocClaim(k, x, t)' => DocClaim(k, x, t)
    BY LessClaims
  <2>. QED BY <2>1, <2>2 DEF CarriesNoMore, Claim
<1>. QED BY <1>1, KeptSingle

-----------------------------------------------------------------------------
(***************************************************************************)
(* Steps that make no claim                                                *)
(***************************************************************************)
QuietDocs ==
    /\ SameTasks
    /\ \A o \in Existing : outcome'[o].status = CANCELLED <=> outcome[o].status = CANCELLED
    /\ UNCHANGED <<upDep, matched, started>>
    /\ \A t \in Task : taskStatus'[t] = WAITING_FOR_AGENT => taskStatus[t] = WAITING_FOR_AGENT
    /\ Fresh => \A t \in Task : taskStatus'[t] \in {taskStatus[t], NULL, CANCELLED}

Onward(h) ==
    BeforeRestart(pc'[h], frame'[h]) => BeforeRestart(pc[h], frame[h]) /\ frame'[h].of = frame[h].of

\* The chain's lists have got no longer, and if it publishes it did so before.
ListsLess(h) ==
    /\ frame'[h].op = "start" => frame'[h].todo = {} \/ (frame[h].op = "start" /\ frame'[h].todo \subseteq frame[h].todo)
    /\ frame'[h].launch \subseteq frame[h].launch
PublishesNoMore(h) ==
    /\ pc'[h] \notin {"republish", "reset"}
    /\ pc'[h] \in {"route", "save"} =>
         frame'[h].task \in RouteTargets \/ (pc[h] \in {"route", "save"} /\ frame'[h].task = frame[h].task)

ClaimsNoMore(h) == Turns(h) /\ Onward(h) /\ ListsLess(h) /\ PublishesNoMore(h)

LEMMA QuietStep ==
    ASSUME TypeInv, ReportInv, OnceInv, NEW h \in Handler, Others(h), QuietDocs, ClaimsNoMore(h)
    PROVE  OnceInv'
<1>1. PlacedInv'
  <2>1. CancelsOwn(h)
    BY DEF CancelsOwn, QuietDocs, SameTasks
  <2>2. Spared(pc'[h], frame'[h], outcome')
    <3>1. BeforeRestart(pc[h], frame[h]) => frame[h].of \in Existing
      BY ChainFits DEF BeforeRestart, Fits
    <3>. QED BY <3>1 DEF Spared, ClaimsNoMore, Onward, QuietDocs, SameTasks, OnceInv, PlacedInv
  <2>. QED BY <2>1, <2>2, PlacedStep DEF OnceInv, ClaimsNoMore, Turns
<1>2. StartInv'
  <2>1. StaysFresh
    BY DEF StaysFresh, OnceInv, StartInv, QuietDocs, SameTasks
  <2>. QED BY <2>1, StartKept DEF OnceInv, ClaimsNoMore, QuietDocs
<1>3. ClaimInv'
  <2>. SUFFICES ASSUME NEW t \in Claimed PROVE Single(t)'
    BY DEF ClaimInv, Claimed, RouteTargets
  <2>1. Lessens(t) /\ KeepsTasks
    <3>1. Fresh' => Fresh
      BY FreshKept DEF ClaimsNoMore, QuietDocs
    <3>. QED BY <3>1 DEF Lessens, KeepsTasks, QuietDocs, SameTasks, Claimed
  <2>2. CarriesNoMore(h, t)
    BY DEF CarriesNoMore, Carried, ClaimsNoMore, ListsLess, PublishesNoMore, Claimed
  <2>. QED BY <2>1, <2>2, QuietSingle DEF OnceInv, ClaimInv
<1>. QED BY <1>1, <1>2, <1>3 DEF OnceInv

LEMMA SameDocs == ASSUME UNCHANGED <<taskStatus, upDep, outcome, started, matched>> PROVE QuietDocs
BY DEF QuietDocs, SameTasks, Existing

\* The locals a quiet step is judged by.
LEMMA ChainKnown ==
    ASSUME TypeInv, ServeInv, OnceInv, NEW h \in Handler
    PROVE  Serves(pc[h], frame[h]) /\ Fits(pc[h], frame[h], Existing) /\ Placed(pc[h], frame[h])
BY ChainFits DEF ServeInv, OnceInv, PlacedInv

LEMMA RoutedToTargets == \A u, r : RoutedTo(u, r) \subseteq RouteTargets
BY DEF RoutedTo, RouteTargets

\* A chain at work on tasks or outcomes is not one of a fresh job.
LEMMA AtWork ==
    ASSUME TypeInv, OnceInv, NEW h \in Handler, frame[h].op \notin {"none", "cancel", "interrupt"},
           pc[h] \notin {"begin", "snapshot"}
    PROVE  ~Fresh
<1>. SUFFICES ASSUME Fresh PROVE FALSE
  OBVIOUS
<1>1. frame[h].op = "start"
  BY DEF OnceInv, StartInv
<1>2. PICK q \in Handler : frame[q].op = "start" /\ pc[q] \in {"begin", "snapshot"}
  BY <1>1 DEF OnceInv, StartInv, Fresh
<1>3. q = h
  BY <1>1, <1>2 DEF OnceInv, StartInv
<1>. QED BY <1>2, <1>3

LEMMA Publishing ==
    ASSUME TypeInv, OnceInv, NEW h \in Handler, pc[h] \in {"route", "save"}
    PROVE  frame[h].task \in Task /\ frame[h].op \notin {"none", "cancel", "interrupt"} /\ ~Fresh
<1>1. frame[h].task \in Task /\ frame[h].task # NoTask
  BY ChainFits DEF Fits, NoTask
<1>2. frame[h].op \notin {"none", "cancel", "interrupt"}
  BY <1>1 DEF OnceInv, PlacedInv, Placed
<1>. QED BY <1>1, <1>2, AtWork

\* The status of a task becomes one that claims nothing.
LEMMA SetQuiet ==
    ASSUME TypeInv, NEW t \in Task, NEW s, s # WAITING_FOR_AGENT, s \in {NULL, CANCELLED} \/ ~Fresh,
           SetTask(t, s), UNCHANGED <<upDep, outcome, started, matched>>
    PROVE  QuietDocs
<1>1. taskStatus'[t] = s /\ \A u \in Task : u # t => taskStatus'[u] = taskStatus[u]
  BY DEF SetTask, TypeInv, DocumentsOK
<1>. QED BY <1>1 DEF QuietDocs, SameTasks, Existing

LEMMA StopQuiet ==
    ASSUME TypeInv, NEW o, NEW op, StopOutcome(op, o), UNCHANGED <<taskStatus, upDep, started, matched>>
    PROVE  QuietDocs
<1>1. CASE UNCHANGED outcome
  BY <1>1, SameDocs
<1>2. CASE ~UNCHANGED outcome
  <2>1. PICK s : SetOutcome(o, s) /\ s # CANCELLED
    BY <1>2 DEF StopOutcome, CANCELING, INTERRUPTING, CANCELLED
  <2>2. outcome[o].status # CANCELLED
    BY <1>2 DEF StopOutcome, Cancellable, Interruptible, CANCELLED, CANCELING, FAILED, RUNNING
  <2>3. \A p \in Outcome : outcome'[p].status = CANCELLED <=> outcome[p].status = CANCELLED
    BY <2>1, <2>2 DEF SetOutcome, TypeInv, DocumentsOK
  <2>. QED BY <2>1, <2>3, SetStatusKeepsTasks DEF QuietDocs, Existing
<1>. QED BY <1>1, <1>2

LEMMA ReadJobOnce ==
    ASSUME TypeInv, ServeInv, ReportInv, OnceInv, NEW h \in Handler, ReadJob(h)
    PROVE  OnceInv'
<1>1. Serves(pc[h], frame[h]) /\ Fits(pc[h], frame[h], Existing) /\ Placed(pc[h], frame[h])
  BY ChainKnown
<1>2. ClaimsNoMore(h)
  BY <1>1, EmptyFields, ReadJobTurn DEF ReadJob, Fits, ReportSteps, Backs, Thens, Serves, ClaimsNoMore,
     Turns, Placed, Publishes,
     Onward, BeforeRestart, ListsLess, PublishesNoMore, Goes, Begins, Same, SameRequest, SameTask,
     SameLists, SameLaunches, Back
<1>3. QuietDocs
  BY SameDocs DEF ReadJob, docVars
<1>. QED BY <1>2, <1>3, QuietStep, ReadJobTurn

LEMMA ReadOutcomesOnce ==
    ASSUME TypeInv, ServeInv, ReportInv, OnceInv, NEW h \in Handler, ReadOutcomes(h)
    PROVE  OnceInv'
<1>1. Serves(pc[h], frame[h]) /\ Fits(pc[h], frame[h], Existing) /\ Placed(pc[h], frame[h])
  BY ChainKnown
<1>2. ClaimsNoMore(h)
  BY <1>1, EmptyFields, ReadOutcomesTurn DEF ReadOutcomes, Fits, ReportSteps, Backs, Thens, Serves,
     ClaimsNoMore, Turns, Placed, Publishes,
     Onward, BeforeRestart, ListsLess, PublishesNoMore, Goes, Begins, Same, SameRequest, SameTask,
     SameLists, SameLaunches, Back
<1>3. QuietDocs
  BY SameDocs DEF ReadOutcomes, docVars
<1>. QED BY <1>2, <1>3, QuietStep, ReadOutcomesTurn

LEMMA ReadTasksOnce ==
    ASSUME TypeInv, ServeInv, ReportInv, OnceInv, NEW h \in Handler, ReadTasks(h)
    PROVE  OnceInv'
<1>1. Serves(pc[h], frame[h]) /\ Fits(pc[h], frame[h], Existing) /\ Placed(pc[h], frame[h])
  BY ChainKnown
<1>2. ClaimsNoMore(h)
  BY <1>1, EmptyFields, ReadTasksTurn DEF ReadTasks, Fits, ReportSteps, Backs, Thens, Serves,
     ClaimsNoMore, Turns, Placed, Publishes,
     Onward, BeforeRestart, ListsLess, PublishesNoMore, Goes, Begins, Same, SameRequest, SameTask,
     SameLists, SameLaunches, Back
<1>3. QuietDocs
  BY SameDocs DEF ReadTasks, docVars
<1>. QED BY <1>2, <1>3, QuietStep, ReadTasksTurn

LEMMA WriteJobOnce ==
    ASSUME TypeInv, ServeInv, ReportInv, OnceInv, NEW h \in Handler, WriteJob(h)
    PROVE  OnceInv'
<1>1. Serves(pc[h], frame[h]) /\ Fits(pc[h], frame[h], Existing) /\ Placed(pc[h], frame[h])
  BY ChainKnown
<1>2. ClaimsNoMore(h)
  BY <1>1, EmptyFields, WriteJobTurn DEF WriteJob, Fits, ReportSteps, Backs, Thens, Serves, ClaimsNoMore,
     Turns, Placed, Publishes,
     Onward, BeforeRestart, ListsLess, PublishesNoMore, Goes, Begins, Same, SameRequest, SameTask,
     SameLists, SameLaunches, Back
<1>3. QuietDocs
  BY SameDocs DEF WriteJob, docVars
<1>. QED BY <1>2, <1>3, QuietStep, WriteJobTurn

LEMMA RereadJobOnce ==
    ASSUME TypeInv, ServeInv, ReportInv, OnceInv, NEW h \in Handler, RereadJob(h)
    PROVE  OnceInv'
<1>1. Serves(pc[h], frame[h]) /\ Fits(pc[h], frame[h], Existing) /\ Placed(pc[h], frame[h])
  BY ChainKnown
<1>2. ClaimsNoMore(h)
  BY <1>1, EmptyFields, RereadJobTurn DEF RereadJob, Fits, ReportSteps, Backs, Thens, Serves,
     ClaimsNoMore, Turns, Placed, Publishes,
     Onward, BeforeRestart, ListsLess, PublishesNoMore, Goes, Begins, Same, SameRequest, SameTask,
     SameLists, SameLaunches, Back
<1>3. QuietDocs
  BY SameDocs DEF RereadJob, docVars
<1>. QED BY <1>2, <1>3, QuietStep, RereadJobTurn

LEMMA RecheckTaskOnce ==
    ASSUME TypeInv, ServeInv, ReportInv, OnceInv, NEW h \in Handler, RecheckTask(h)
    PROVE  OnceInv'
<1>1. Serves(pc[h], frame[h]) /\ Fits(pc[h], frame[h], Existing) /\ Placed(pc[h], frame[h])
  BY ChainKnown
<1>2. ClaimsNoMore(h)
  BY <1>1, EmptyFields, RecheckTaskTurn DEF RecheckTask, Fits, ReportSteps, Backs, Thens, Serves,
     ClaimsNoMore, Turns, Placed, Publishes,
     Onward, BeforeRestart, ListsLess, PublishesNoMore, Goes, Begins, Same, SameRequest, SameTask,
     SameLists, SameLaunches, Back
<1>3. QuietDocs
  BY SameDocs DEF RecheckTask, docVars
<1>. QED BY <1>2, <1>3, QuietStep, RecheckTaskTurn

LEMMA SendToAgentOnce ==
    ASSUME TypeInv, ServeInv, ReportInv, OnceInv, NEW h \in Handler, SendToAgent(h)
    PROVE  OnceInv'
<1>1. Serves(pc[h], frame[h]) /\ Fits(pc[h], frame[h], Existing) /\ Placed(pc[h], frame[h])
  BY ChainKnown
<1>2. ClaimsNoMore(h)
  BY <1>1, EmptyFields, SendToAgentTurn DEF SendToAgent, Fits, ReportSteps, Backs, Thens, Serves,
     ClaimsNoMore, Turns, Placed, Publishes,
     Onward, BeforeRestart, ListsLess, PublishesNoMore, Goes, Begins, Same, SameRequest, SameTask,
     SameLists, SameLaunches, Back
<1>3. QuietDocs
  BY SameDocs DEF SendToAgent, docVars
<1>. QED BY <1>2, <1>3, QuietStep, SendToAgentTurn

LEMMA PublishedOnce ==
    ASSUME TypeInv, ServeInv, ReportInv, OnceInv, NEW h \in Handler, Published(h)
    PROVE  OnceInv'
<1>1. Serves(pc[h], frame[h]) /\ Fits(pc[h], frame[h], Existing) /\ Placed(pc[h], frame[h])
  BY ChainKnown
<1>2. ClaimsNoMore(h)
  BY <1>1, EmptyFields, PublishedTurn DEF Published, Fits, ReportSteps, Backs, Thens, Serves,
     ClaimsNoMore, Turns, Placed, Publishes,
     Onward, BeforeRestart, ListsLess, PublishesNoMore, Goes, Begins, Same, SameRequest, SameTask,
     SameLists, SameLaunches, Back
<1>3. QuietDocs
  BY SameDocs DEF Published, docVars
<1>. QED BY <1>2, <1>3, QuietStep, PublishedTurn

LEMMA BeginTasksOnce ==
    ASSUME TypeInv, ServeInv, ReportInv, OnceInv, NEW h \in Handler, BeginTasks(h)
    PROVE  OnceInv'
<1>1. Serves(pc[h], frame[h]) /\ Fits(pc[h], frame[h], Existing) /\ Placed(pc[h], frame[h])
  BY ChainKnown
<1>2. ClaimsNoMore(h)
  BY <1>1, EmptyFields, BeginTasksTurn DEF BeginTasks, Fits, ReportSteps, Backs, Thens, Serves,
     ClaimsNoMore, Turns, Placed, Publishes,
     Onward, BeforeRestart, ListsLess, PublishesNoMore, Goes, Begins, Same, SameRequest, SameTask,
     SameLists, SameLaunches, Back
<1>3. QuietDocs
  BY SameDocs DEF BeginTasks, docVars
<1>. QED BY <1>2, <1>3, QuietStep, BeginTasksTurn

LEMMA TasksStartedOnce ==
    ASSUME TypeInv, ServeInv, ReportInv, OnceInv, NEW h \in Handler, TasksStarted(h)
    PROVE  OnceInv'
<1>1. Serves(pc[h], frame[h]) /\ Fits(pc[h], frame[h], Existing) /\ Placed(pc[h], frame[h])
  BY ChainKnown
<1>2. ClaimsNoMore(h)
  BY <1>1, EmptyFields, TasksStartedTurn DEF TasksStarted, Fits, ReportSteps, Backs, Thens, Serves,
     ClaimsNoMore, Turns, Placed, Publishes,
     Onward, BeforeRestart, ListsLess, PublishesNoMore, Goes, Begins, Same, SameRequest, SameTask,
     SameLists, SameLaunches, Back
<1>3. QuietDocs
  BY SameDocs DEF TasksStarted, docVars
<1>. QED BY <1>2, <1>3, QuietStep, TasksStartedTurn

LEMMA StartEndsOnce ==
    ASSUME TypeInv, ServeInv, ReportInv, OnceInv, NEW h \in Handler, StartEnds(h)
    PROVE  OnceInv'
<1>1. Serves(pc[h], frame[h]) /\ Fits(pc[h], frame[h], Existing) /\ Placed(pc[h], frame[h])
  BY ChainKnown
<1>2. ClaimsNoMore(h)
  BY <1>1, EmptyFields, StartEndsTurn DEF StartEnds, Fits, ReportSteps, Backs, Thens, Serves,
     ClaimsNoMore, Turns, Placed, Publishes,
     Onward, BeforeRestart, ListsLess, PublishesNoMore, Goes, Begins, Same, SameRequest, SameTask,
     SameLists, SameLaunches, Back
<1>3. QuietDocs
  BY SameDocs DEF StartEnds, docVars
<1>. QED BY <1>2, <1>3, QuietStep, StartEndsTurn

LEMMA ListWaitingTasksOnce ==
    ASSUME TypeInv, ServeInv, ReportInv, OnceInv, NEW h \in Handler, ListWaitingTasks(h)
    PROVE  OnceInv'
<1>1. Serves(pc[h], frame[h]) /\ Fits(pc[h], frame[h], Existing) /\ Placed(pc[h], frame[h])
  BY ChainKnown
<1>2. ClaimsNoMore(h)
  BY <1>1, EmptyFields, ListWaitingTasksTurn DEF ListWaitingTasks, Fits, ReportSteps, Backs, Thens,
     Serves, ClaimsNoMore, Turns, Placed, Publishes,
     Onward, BeforeRestart, ListsLess, PublishesNoMore, Goes, Begins, Same, SameRequest, SameTask,
     SameLists, SameLaunches, Back
<1>3. QuietDocs
  BY SameDocs DEF ListWaitingTasks, docVars
<1>. QED BY <1>2, <1>3, QuietStep, ListWaitingTasksTurn

LEMMA ExamineWaitingTaskOnce ==
    ASSUME TypeInv, ServeInv, ReportInv, OnceInv, NEW h \in Handler, ExamineWaitingTask(h)
    PROVE  OnceInv'
<1>1. Serves(pc[h], frame[h]) /\ Fits(pc[h], frame[h], Existing) /\ Placed(pc[h], frame[h])
  BY ChainKnown
<1>2. ClaimsNoMore(h)
  BY <1>1, EmptyFields, ExamineWaitingTaskTurn DEF ExamineWaitingTask, Fits, ReportSteps, Backs, Thens,
     Serves, ClaimsNoMore, Turns, Placed, Publishes,
     Onward, BeforeRestart, ListsLess, PublishesNoMore, Goes, Begins, Same, SameRequest, SameTask,
     SameLists, SameLaunches, Back
<1>3. QuietDocs
  BY SameDocs DEF ExamineWaitingTask, docVars
<1>. QED BY <1>2, <1>3, QuietStep, ExamineWaitingTaskTurn

LEMMA WaitingTasksDoneOnce ==
    ASSUME TypeInv, ServeInv, ReportInv, OnceInv, NEW h \in Handler, WaitingTasksDone(h)
    PROVE  OnceInv'
<1>1. Serves(pc[h], frame[h]) /\ Fits(pc[h], frame[h], Existing) /\ Placed(pc[h], frame[h])
  BY ChainKnown
<1>2. ClaimsNoMore(h)
  BY <1>1, EmptyFields, WaitingTasksDoneTurn DEF WaitingTasksDone, Fits, ReportSteps, Backs, Thens,
     Serves, ClaimsNoMore, Turns, Placed, Publishes,
     Onward, BeforeRestart, ListsLess, PublishesNoMore, Goes, Begins, Same, SameRequest, SameTask,
     SameLists, SameLaunches, Back
<1>3. QuietDocs
  BY SameDocs DEF WaitingTasksDone, docVars
<1>. QED BY <1>2, <1>3, QuietStep, WaitingTasksDoneTurn

LEMMA BeginDownstreamOnce ==
    ASSUME TypeInv, ServeInv, ReportInv, OnceInv, NEW h \in Handler, BeginDownstream(h)
    PROVE  OnceInv'
<1>1. Serves(pc[h], frame[h]) /\ Fits(pc[h], frame[h], Existing) /\ Placed(pc[h], frame[h])
  BY ChainKnown
<1>2. ClaimsNoMore(h)
  BY <1>1, EmptyFields, BeginDownstreamTurn, RoutedToTargets DEF BeginDownstream, Fits, ReportSteps,
     Backs, Thens, Serves, ClaimsNoMore, Turns, Placed, Publishes,
     Onward, BeforeRestart, ListsLess, PublishesNoMore, Goes, Begins, Same, SameRequest, SameTask,
     SameLists, SameLaunches, Back
<1>3. QuietDocs
  BY SameDocs DEF BeginDownstream, docVars
<1>. QED BY <1>2, <1>3, QuietStep, BeginDownstreamTurn

LEMMA ReadSkippedOnce ==
    ASSUME TypeInv, ServeInv, ReportInv, OnceInv, NEW h \in Handler, ReadSkipped(h)
    PROVE  OnceInv'
<1>1. Serves(pc[h], frame[h]) /\ Fits(pc[h], frame[h], Existing) /\ Placed(pc[h], frame[h])
  BY ChainKnown
<1>2. ClaimsNoMore(h)
  BY <1>1, EmptyFields, ReadSkippedTurn DEF ReadSkipped, Fits, ReportSteps, Backs, Thens, Serves,
     ClaimsNoMore, Turns, Placed, Publishes,
     Onward, BeforeRestart, ListsLess, PublishesNoMore, Goes, Begins, Same, SameRequest, SameTask,
     SameLists, SameLaunches, Back
<1>3. QuietDocs
  BY SameDocs DEF ReadSkipped, docVars
<1>. QED BY <1>2, <1>3, QuietStep, ReadSkippedTurn

LEMMA DescendEndsOnce ==
    ASSUME TypeInv, ServeInv, ReportInv, OnceInv, NEW h \in Handler, DescendEnds(h)
    PROVE  OnceInv'
<1>1. Serves(pc[h], frame[h]) /\ Fits(pc[h], frame[h], Existing) /\ Placed(pc[h], frame[h])
  BY ChainKnown
<1>2. ClaimsNoMore(h)
  BY <1>1, EmptyFields, DescendEndsTurn DEF DescendEnds, Fits, ReportSteps, Backs, Thens, Serves,
     ClaimsNoMore, Turns, Placed, Publishes,
     Onward, BeforeRestart, ListsLess, PublishesNoMore, Goes, Begins, Same, SameRequest, SameTask,
     SameLists, SameLaunches, Back
<1>3. QuietDocs
  BY SameDocs DEF DescendEnds, docVars
<1>. QED BY <1>2, <1>3, QuietStep, DescendEndsTurn

LEMMA LaunchRouteTargetOnce ==
    ASSUME TypeInv, ServeInv, ReportInv, OnceInv, NEW h \in Handler, LaunchRouteTarget(h)
    PROVE  OnceInv'
<1>1. Serves(pc[h], frame[h]) /\ Fits(pc[h], frame[h], Existing) /\ Placed(pc[h], frame[h])
  BY ChainKnown
<1>2. ClaimsNoMore(h)
  BY <1>1, EmptyFields, LaunchRouteTargetTurn DEF LaunchRouteTarget, Fits, ReportSteps, Backs, Thens,
     Serves, ClaimsNoMore, Turns, Placed, Publishes,
     Onward, BeforeRestart, ListsLess, PublishesNoMore, Goes, Begins, Same, SameRequest, SameTask,
     SameLists, SameLaunches, Back
<1>3. QuietDocs
  BY SameDocs DEF LaunchRouteTarget, docVars
<1>. QED BY <1>2, <1>3, QuietStep, LaunchRouteTargetTurn

LEMMA LaunchEndsOnce ==
    ASSUME TypeInv, ServeInv, ReportInv, OnceInv, NEW h \in Handler, LaunchEnds(h)
    PROVE  OnceInv'
<1>1. Serves(pc[h], frame[h]) /\ Fits(pc[h], frame[h], Existing) /\ Placed(pc[h], frame[h])
  BY ChainKnown
<1>2. ClaimsNoMore(h)
  BY <1>1, EmptyFields, LaunchEndsTurn DEF LaunchEnds, Fits, ReportSteps, Backs, Thens, Serves,
     ClaimsNoMore, Turns, Placed, Publishes,
     Onward, BeforeRestart, ListsLess, PublishesNoMore, Goes, Begins, Same, SameRequest, SameTask,
     SameLists, SameLaunches, Back
<1>3. QuietDocs
  BY SameDocs DEF LaunchEnds, docVars
<1>. QED BY <1>2, <1>3, QuietStep, LaunchEndsTurn

LEMMA ListTasksToStopOnce ==
    ASSUME TypeInv, ServeInv, ReportInv, OnceInv, NEW h \in Handler, ListTasksToStop(h)
    PROVE  OnceInv'
<1>1. Serves(pc[h], frame[h]) /\ Fits(pc[h], frame[h], Existing) /\ Placed(pc[h], frame[h])
  BY ChainKnown
<1>2. ClaimsNoMore(h)
  BY <1>1, EmptyFields, ListTasksToStopTurn DEF ListTasksToStop, Fits, ReportSteps, Backs, Thens, Serves,
     ClaimsNoMore, Turns, Placed, Publishes,
     Onward, BeforeRestart, ListsLess, PublishesNoMore, Goes, Begins, Same, SameRequest, SameTask,
     SameLists, SameLaunches, Back
<1>3. QuietDocs
  BY SameDocs DEF ListTasksToStop, docVars
<1>. QED BY <1>2, <1>3, QuietStep, ListTasksToStopTurn

LEMMA ListOutcomesToStopOnce ==
    ASSUME TypeInv, ServeInv, ReportInv, OnceInv, NEW h \in Handler, ListOutcomesToStop(h)
    PROVE  OnceInv'
<1>1. Serves(pc[h], frame[h]) /\ Fits(pc[h], frame[h], Existing) /\ Placed(pc[h], frame[h])
  BY ChainKnown
<1>2. ClaimsNoMore(h)
  BY <1>1, EmptyFields, ListOutcomesToStopTurn DEF ListOutcomesToStop, Fits, ReportSteps, Backs, Thens,
     Serves, ClaimsNoMore, Turns, Placed, Publishes,
     Onward, BeforeRestart, ListsLess, PublishesNoMore, Goes, Begins, Same, SameRequest, SameTask,
     SameLists, SameLaunches, Back
<1>3. QuietDocs
  BY SameDocs DEF ListOutcomesToStop, docVars
<1>. QED BY <1>2, <1>3, QuietStep, ListOutcomesToStopTurn

LEMMA JobStoppedOnce ==
    ASSUME TypeInv, ServeInv, ReportInv, OnceInv, NEW h \in Handler, JobStopped(h)
    PROVE  OnceInv'
<1>1. Serves(pc[h], frame[h]) /\ Fits(pc[h], frame[h], Existing) /\ Placed(pc[h], frame[h])
  BY ChainKnown
<1>2. ClaimsNoMore(h)
  BY <1>1, EmptyFields, JobStoppedTurn DEF JobStopped, Fits, ReportSteps, Backs, Thens, Serves,
     ClaimsNoMore, Turns, Placed, Publishes,
     Onward, BeforeRestart, ListsLess, PublishesNoMore, Goes, Begins, Same, SameRequest, SameTask,
     SameLists, SameLaunches, Back
<1>3. QuietDocs
  BY SameDocs DEF JobStopped, docVars
<1>. QED BY <1>2, <1>3, QuietStep, JobStoppedTurn

LEMMA CancelJobOnce ==
    ASSUME TypeInv, ServeInv, ReportInv, OnceInv, NEW h \in Handler, CancelJob(h)
    PROVE  OnceInv'
<1>1. Serves(pc[h], frame[h]) /\ Fits(pc[h], frame[h], Existing) /\ Placed(pc[h], frame[h])
  BY ChainKnown
<1>2. ClaimsNoMore(h)
  BY <1>1, EmptyFields, CancelJobTurn DEF CancelJob, JobAction, Fits, ReportSteps, Backs, Thens, Serves,
     ClaimsNoMore, Turns, Placed, Publishes,
     Onward, BeforeRestart, ListsLess, PublishesNoMore, Goes, Begins, Same, SameRequest, SameTask,
     SameLists, SameLaunches, Back
<1>3. QuietDocs
  BY SameDocs DEF CancelJob, JobAction, docVars
<1>. QED BY <1>2, <1>3, QuietStep, CancelJobTurn

LEMMA InterruptJobOnce ==
    ASSUME TypeInv, ServeInv, ReportInv, OnceInv, NEW h \in Handler, InterruptJob(h)
    PROVE  OnceInv'
<1>1. Serves(pc[h], frame[h]) /\ Fits(pc[h], frame[h], Existing) /\ Placed(pc[h], frame[h])
  BY ChainKnown
<1>2. ClaimsNoMore(h)
  BY <1>1, EmptyFields, InterruptJobTurn DEF InterruptJob, JobAction, Fits, ReportSteps, Backs, Thens,
     Serves, ClaimsNoMore, Turns, Placed, Publishes,
     Onward, BeforeRestart, ListsLess, PublishesNoMore, Goes, Begins, Same, SameRequest, SameTask,
     SameLists, SameLaunches, Back
<1>3. QuietDocs
  BY SameDocs DEF InterruptJob, JobAction, docVars
<1>. QED BY <1>2, <1>3, QuietStep, InterruptJobTurn

LEMMA OutcomesRestartedOnce ==
    ASSUME TypeInv, ServeInv, ReportInv, OnceInv, NEW h \in Handler, OutcomesRestarted(h)
    PROVE  OnceInv'
<1>1. Serves(pc[h], frame[h]) /\ Fits(pc[h], frame[h], Existing) /\ Placed(pc[h], frame[h])
  BY ChainKnown
<1>2. ClaimsNoMore(h)
  BY <1>1, EmptyFields, OutcomesRestartedTurn DEF OutcomesRestarted, Fits, ReportSteps, Backs, Thens,
     Serves, ClaimsNoMore, Turns, Placed, Publishes,
     Onward, BeforeRestart, ListsLess, PublishesNoMore, Goes, Begins, Same, SameRequest, SameTask,
     SameLists, SameLaunches, Back
<1>3. QuietDocs
  BY SameDocs DEF OutcomesRestarted, docVars
<1>. QED BY <1>2, <1>3, QuietStep, OutcomesRestartedTurn

LEMMA CancelNewOutcomeOnce ==
    ASSUME TypeInv, ServeInv, ReportInv, OnceInv, NEW h \in Handler, CancelNewOutcome(h)
    PROVE  OnceInv'
<1>1. Serves(pc[h], frame[h]) /\ Fits(pc[h], frame[h], Existing) /\ Placed(pc[h], frame[h])
  BY ChainKnown
<1>2. ClaimsNoMore(h)
  BY <1>1, EmptyFields, CancelNewOutcomeTurn DEF CancelNewOutcome, Fits, ReportSteps, Backs, Thens,
     Serves, ClaimsNoMore, Turns, Placed, Publishes,
     Onward, BeforeRestart, ListsLess, PublishesNoMore, Goes, Begins, Same, SameRequest, SameTask,
     SameLists, SameLaunches, Back
<1>3. QuietDocs
  <2>1. CASE UNCHANGED outcome
    BY <2>1, SameDocs DEF CancelNewOutcome
  <2>2. CASE ~UNCHANGED outcome
    <3>1. StopOutcome("cancel", frame[h].out)
      BY <2>2 DEF CancelNewOutcome, StopOutcome
    <3>. QED BY <3>1, StopQuiet DEF CancelNewOutcome
  <2>. QED BY <2>1, <2>2
<1>. QED BY <1>2, <1>3, QuietStep, CancelNewOutcomeTurn

LEMMA StopNextOutcomeOnce ==
    ASSUME TypeInv, ServeInv, ReportInv, OnceInv, NEW h \in Handler, StopNextOutcome(h)
    PROVE  OnceInv'
<1>1. Serves(pc[h], frame[h]) /\ Fits(pc[h], frame[h], Existing) /\ Placed(pc[h], frame[h])
  BY ChainKnown
<1>2. ClaimsNoMore(h)
  BY <1>1, EmptyFields, StopNextOutcomeTurn DEF StopNextOutcome, Fits, ReportSteps, Backs, Thens, Serves,
     ClaimsNoMore, Turns, Placed, Publishes,
     Onward, BeforeRestart, ListsLess, PublishesNoMore, Goes, Begins, Same, SameRequest, SameTask,
     SameLists, SameLaunches, Back
<1>3. QuietDocs
  BY StopQuiet DEF StopNextOutcome
<1>. QED BY <1>2, <1>3, QuietStep, StopNextOutcomeTurn

LEMMA StopTaskOnce ==
    ASSUME TypeInv, ServeInv, ReportInv, OnceInv, NEW h \in Handler, StopTask(h)
    PROVE  OnceInv'
<1>1. Serves(pc[h], frame[h]) /\ Fits(pc[h], frame[h], Existing) /\ Placed(pc[h], frame[h])
  BY ChainKnown
<1>2. ClaimsNoMore(h)
  BY <1>1, EmptyFields, StopTaskTurn DEF StopTask, Fits, ReportSteps, Backs, Thens, Serves, ClaimsNoMore,
     Turns, Placed, Publishes,
     Onward, BeforeRestart, ListsLess, PublishesNoMore, Goes, Begins, Same, SameRequest, SameTask,
     SameLists, SameLaunches, Back
<1>3. QuietDocs
  BY <1>1, FrameFields, SetQuiet DEF StopTask, NULL, CANCELLED, WAITING_FOR_AGENT, TypeInv, FramesOK
<1>. QED BY <1>2, <1>3, QuietStep, StopTaskTurn

LEMMA WriteSkippedOnce ==
    ASSUME TypeInv, ServeInv, ReportInv, OnceInv, NEW h \in Handler, WriteSkipped(h)
    PROVE  OnceInv'
<1>1. Serves(pc[h], frame[h]) /\ Fits(pc[h], frame[h], Existing) /\ Placed(pc[h], frame[h])
  BY ChainKnown
<1>2. ClaimsNoMore(h)
  BY <1>1, EmptyFields, WriteSkippedTurn DEF WriteSkipped, Fits, ReportSteps, Backs, Thens, Serves,
     ClaimsNoMore, Turns, Placed, Publishes,
     Onward, BeforeRestart, ListsLess, PublishesNoMore, Goes, Begins, Same, SameRequest, SameTask,
     SameLists, SameLaunches, Back
<1>3. QuietDocs
  <2>1. Head(frame[h].skip) \in Task /\ ~Fresh
    BY <1>1, ChainFits, FrameFields, AtWork DEF WriteSkipped, Fits, ReportSteps
  <2>. QED BY <2>1, SetQuiet DEF WriteSkipped, SKIPPED, WAITING_FOR_AGENT
<1>. QED BY <1>2, <1>3, QuietStep, WriteSkippedTurn

LEMMA RouteToAgentOnce ==
    ASSUME TypeInv, ServeInv, ReportInv, OnceInv, NEW h \in Handler, RouteToAgent(h)
    PROVE  OnceInv'
<1>1. Serves(pc[h], frame[h]) /\ Fits(pc[h], frame[h], Existing) /\ Placed(pc[h], frame[h])
  BY ChainKnown
<1>2. ClaimsNoMore(h)
  BY <1>1, EmptyFields, RouteToAgentTurn DEF RouteToAgent, Fits, ReportSteps, Backs, Thens, Serves,
     ClaimsNoMore, Turns, Placed, Publishes,
     Onward, BeforeRestart, ListsLess, PublishesNoMore, Goes, Begins, Same, SameRequest, SameTask,
     SameLists, SameLaunches, Back
<1>3. QuietDocs
  <2>1. pc[h] = "route" /\ SetTask(frame[h].task, PUBLISHED) /\ UNCHANGED <<upDep, outcome, started, matched>>
    BY DEF RouteToAgent
  <2>2. frame[h].task \in Task /\ ~Fresh
    BY <2>1, Publishing
  <2>3. PUBLISHED # WAITING_FOR_AGENT
    BY DEF PUBLISHED, WAITING_FOR_AGENT
  <2>. QED BY <2>1, <2>2, <2>3, SetQuiet
<1>. QED BY <1>2, <1>3, QuietStep, RouteToAgentTurn

LEMMA FinishReportOnce ==
    ASSUME TypeInv, ServeInv, ReportInv, OnceInv, NEW h \in Handler, FinishReport(h)
    PROVE  OnceInv'
<1>1. frame[h].op = "report" /\ NULL # INTERRUPTED
  BY ChainFits DEF FinishReport, Fits, ReportSteps, NULL, INTERRUPTED
<1>2. ClaimsNoMore(h)
  BY <1>1, FinishReportTurn DEF ClaimsNoMore, Turns, Placed, Publishes, Onward, BeforeRestart, ListsLess,
     PublishesNoMore, Back
<1>3. QuietDocs
  BY SameDocs DEF FinishReport, docVars
<1>. QED BY <1>2, <1>3, QuietStep, FinishReportTurn

LEMMA ReportArrivesOnce ==
    ASSUME TypeInv, ServeInv, ReportInv, OnceInv, NEW h \in Handler, ReportArrives(h)
    PROVE  OnceInv'
<1>1. Existing # {} /\ pc[h] = "idle"
  BY DEF ReportArrives
<1>2. ~Fresh
  BY <1>1 DEF OnceInv, StartInv
<1>3. (pc'[h] = "idle" /\ frame'[h] = EmptyFrame) \/ (pc'[h] = "put" /\ Begins(h, "report"))
  BY ReportArrivesTurn
<1>4. ClaimsNoMore(h)
  BY <1>2, <1>3, EmptyFields DEF ClaimsNoMore, Turns, Placed, Publishes, Onward, BeforeRestart, ListsLess,
     PublishesNoMore, Begins
<1>5. QuietDocs
  BY SameDocs DEF ReportArrives, docVars
<1>. QED BY <1>4, <1>5, QuietStep, ReportArrivesTurn

LEMMA AgentReturnsOnce ==
    ASSUME TypeInv, ServeInv, ReportInv, OnceInv, NEW h \in Handler, AgentReturns(h)
    PROVE  OnceInv'
<1>1. PICK t \in Task : taskStatus[t] = WAITING_FOR_AGENT
  BY DEF AgentReturns
<1>2. ~Fresh
  <2>1. taskStatus[t] \notin {NULL, CANCELLED}
    BY <1>1 DEF WAITING_FOR_AGENT, NULL, CANCELLED
  <2>. QED BY <2>1 DEF OnceInv, StartInv
<1>4. ClaimsNoMore(h)
  BY <1>2, AgentReturnsTurn DEF ClaimsNoMore, Turns, Placed, Publishes, Onward, BeforeRestart, ListsLess,
     PublishesNoMore, Begins
<1>5. QuietDocs
  BY SameDocs DEF AgentReturns, docVars
<1>. QED BY <1>4, <1>5, QuietStep, AgentReturnsTurn

\* A user stops one outcome: no chain moves.
LEMMA StopTaskOutcomeOnce ==
    ASSUME TypeInv, ServeInv, ReportInv, OnceInv, NEW h \in Handler, StopTaskOutcome(h)
    PROVE  OnceInv'
<1>1. Placed(pc[h], frame[h]) /\ UNCHANGED <<pc, frame>> /\ pc[h] = "idle"
  BY ChainKnown DEF StopTaskOutcome
<1>2. QuietDocs
  BY StopQuiet DEF StopTaskOutcome
<1>3. ClaimsNoMore(h) /\ Others(h)
  BY <1>1 DEF ClaimsNoMore, Turns, Onward, ListsLess, PublishesNoMore, Others
<1>. QED BY <1>2, <1>3, QuietStep

-----------------------------------------------------------------------------
(***************************************************************************)
(* Steps that turn one claim into another                                  *)
(***************************************************************************)
\* What a step turns, it turns for one task; the others keep their claims.
Hands(h, t, k, x, j, y) ==
    /\ Claim(k, x, t) /\ ~Claim(k, x, t)'
    /\ \A i : Carried(i, pc'[h], frame'[h], outcome', t)
         => Carried(i, pc[h], frame[h], outcome, t) \/ (i = j /\ y = h)
    /\ \A i, z : DocClaim(i, z, t)' => DocClaim(i, z, t) \/ (i = j /\ z = y)

LEMMA HandsSingle ==
    ASSUME TypeInv, NEW h \in Handler, Others(h), KeepsTasks, NEW t, Single(t),
           NEW k, NEW x, NEW j, NEW y, Hands(h, t, k, x, j, y)
    PROVE  Single(t)'
<1>1. ASSUME NEW i, NEW z, Claim(i, z, t)' PROVE Claim(i, z, t) \/ (i = j /\ z = y)
  <2>1. \/ Claim(i, z, t)
        \/ z = h /\ Carried(i, pc'[h], frame'[h], outcome', t)
        \/ DocClaim(i, z, t)'
    BY <1>1, NewClaim
  <2>. QED BY <2>1 DEF Claim, Hands
<1>2. Turned(t, k, x, j, y)
  BY <1>1 DEF Turned, Hands
<1>. QED BY <1>2, TurnedSingle

LEMMA HandOver ==
    ASSUME TypeInv, OnceInv, NEW h \in Handler, Others(h), KeepsTasks, NEW t, NEW k, NEW x, NEW j, NEW y,
           \A u \in Claimed : u # t => Lessens(u) /\ CarriesNoMore(h, u),
           t \in Claimed => Hands(h, t, k, x, j, y)
    PROVE  ClaimInv'
<1>. SUFFICES ASSUME NEW u \in Claimed PROVE Single(u)'
  BY DEF ClaimInv, Claimed, RouteTargets
<1>1. Single(u)
  BY DEF OnceInv, ClaimInv
<1>2. CASE u # t
  BY <1>1, <1>2, QuietSingle
<1>3. CASE u = t
  BY <1>1, <1>3, HandsSingle
<1>. QED BY <1>2, <1>3

LEMMA PlacedSame ==
    ASSUME TypeInv, ReportInv, OnceInv, NEW h \in Handler, Others(h), Turns(h), Onward(h), UNCHANGED outcome
    PROVE  PlacedInv'
<1>1. CancelsOwn(h)
  BY DEF CancelsOwn
<1>2. Spared(pc'[h], frame'[h], outcome')
  BY DEF Spared, Onward, OnceInv, PlacedInv
<1>. QED BY <1>1, <1>2, PlacedStep DEF OnceInv, Turns

LEMMA StartWorks ==
    ASSUME OnceInv, NEW h \in Handler, Others(h), Turns(h), ~Fresh, started' = started
    PROVE  StartInv' /\ ~Fresh'
BY StartKept, FreshKept DEF OnceInv, StaysFresh

\* A step that changes the status of one task lessens the claims on the others.
LEMMA SetLessens ==
    ASSUME TypeInv, NEW t, NEW s, SetTask(t, s), UNCHANGED <<upDep, outcome>>, ~Fresh'
    PROVE  KeepsTasks /\ \A u \in Claimed : u # t \/ s # WAITING_FOR_AGENT => Lessens(u)
<1>1. \A u \in Task : taskStatus'[u] = IF u = t THEN s ELSE taskStatus[u]
  BY DEF SetTask, TypeInv, DocumentsOK
<1>. QED BY <1>1 DEF KeepsTasks, Lessens, Existing, Claimed

LEMMA SameLessens ==
    ASSUME UNCHANGED <<taskStatus, upDep, outcome>>, ~Fresh'
    PROVE  KeepsTasks /\ \A u \in Claimed : Lessens(u)
BY DEF KeepsTasks, Lessens, Existing

\* No agent: the task that was published waits.
LEMMA RouteFailsOnce ==
    ASSUME TypeInv, ServeInv, ReportInv, OnceInv, NEW h \in Handler, RouteFails(h)
    PROVE  OnceInv'
<1>0. PICK t : t = frame[h].task
  OBVIOUS
<1>1. Serves(pc[h], frame[h]) /\ Fits(pc[h], frame[h], Existing) /\ Placed(pc[h], frame[h])
  BY <1>0, ChainKnown
<1>2. pc[h] = "route" /\ pc'[h] = "readjob" /\ Same(h) /\ Back(h, "published") /\ Others(h)
  BY <1>0, RouteFailsTurn DEF RouteFails
<1>3. UNCHANGED <<upDep, outcome, started, matched>> /\ t \in Task /\ ~Fresh
  BY <1>0, <1>2, Publishing DEF RouteFails
<1>4. PICK s : SetTask(t, s) /\ s \in {FAILED, WAITING_FOR_AGENT}
  BY <1>0 DEF RouteFails
<1>5. Turns(h) /\ Onward(h)
  BY <1>0, <1>1, <1>2 DEF Turns, Placed, Publishes, Onward, BeforeRestart, Same, SameRequest, SameTask,
     SameLists,
     SameLaunches, Back
<1>6. PlacedInv' /\ StartInv' /\ ~Fresh'
  BY <1>0, <1>2, <1>3, <1>5, PlacedSame, StartWorks
<1>7. ClaimInv'
  <2>1. KeepsTasks /\ \A u \in Claimed : u # t => Lessens(u)
    BY <1>0, <1>3, <1>4, <1>6, SetLessens
  <2>2. \A u : CarriesNoMore(h, u) /\ ~Carried("publish", pc'[h], frame'[h], outcome', u)
    BY <1>0, <1>2, <1>3 DEF CarriesNoMore, Carried, Same, SameRequest, SameLists, SameLaunches
  <2>3. Claim("publish", h, t)
    BY <1>0, <1>2 DEF Claim, Carried
  <2>4. ~Claim("publish", h, t)'
    BY <1>0, <2>2 DEF Claim, DocClaim
  <2>5. ASSUME NEW i, NEW z, DocClaim(i, z, t)' PROVE DocClaim(i, z, t) \/ (i = "waiting" /\ z = 0)
    <3>1. Existing' = Existing
      BY <1>0, <1>3 DEF Existing
    <3>. QED BY <1>0, <1>3, <1>6, <2>5, <3>1 DEF DocClaim
  <2>6. Hands(h, t, "publish", h, "waiting", 0)
    BY <1>0, <2>2, <2>3, <2>4, <2>5 DEF Hands, CarriesNoMore
  <2>. QED BY <1>0, <1>2, <2>1, <2>2, <2>6, HandOver
<1>. QED BY <1>0, <1>6, <1>7 DEF OnceInv

\* The outcome is what comes of it.
LEMMA CreateTaskOutcomeOnce ==
    ASSUME TypeInv, ServeInv, ReportInv, OnceInv, NEW h \in Handler, CreateTaskOutcome(h)
    PROVE  OnceInv'
<1>0. PICK t : t = frame[h].task
  OBVIOUS
<1>1. Serves(pc[h], frame[h]) /\ Fits(pc[h], frame[h], Existing) /\ Placed(pc[h], frame[h])
  BY <1>0, ChainKnown
<1>2. /\ pc[h] = "save" /\ pc'[h] = "recheck" /\ SameRequest(h) /\ SameLists(h) /\ Others(h)
      /\ frame'[h].task = t /\ frame'[h].then = frame[h].then
  BY <1>0, CreateTaskOutcomeTurn DEF CreateTaskOutcome
<1>3. UNCHANGED <<taskStatus, upDep, started, matched>> /\ t \in Task /\ ~Fresh
  BY <1>0, <1>2, Publishing DEF CreateTaskOutcome
<1>4. PICK o \in Unused : outcome' = [outcome EXCEPT ![o] = [task |-> t, status |-> PUBLISHED, route |-> ""]]
  BY <1>0, CreateTaskOutcomeTurn
<1>5. /\ o \notin Existing /\ \A p \in Existing : outcome'[p] = outcome[p]
      /\ \A p \in Existing' : p = o \/ (p \in Existing /\ outcome'[p] = outcome[p])
      /\ outcome'[o].task = t
  BY <1>0, <1>4 DEF TypeInv, DocumentsOK, Existing, Unused
<1>6. Turns(h)
  BY <1>0, <1>1, <1>2 DEF Turns, Placed, Publishes, SameRequest, SameLists, SameLaunches
<1>7. StartInv' /\ ~Fresh'
  BY <1>0, <1>2, <1>3, <1>6, StartWorks
<1>8. PlacedInv'
  <2>1. CancelsOwn(h)
    BY <1>0, <1>5 DEF CancelsOwn
  <2>2. BeforeRestart(pc'[h], frame'[h]) => BeforeRestart(pc[h], frame[h]) /\ frame'[h].of \in Existing
    BY <1>0, <1>1, <1>2 DEF BeforeRestart, Fits, SameRequest
  <2>3. Spared(pc'[h], frame'[h], outcome')
    BY <1>0, <1>2, <1>5, <2>2 DEF Spared, SameRequest, OnceInv, PlacedInv
  <2>. QED BY <1>0, <1>2, <1>6, <2>1, <2>3, PlacedStep DEF OnceInv, Turns
<1>9. ClaimInv'
  <2>1. KeepsTasks /\ \A u \in Claimed : u # t => Lessens(u)
    BY <1>0, <1>3, <1>5, <1>7 DEF KeepsTasks, Lessens
  <2>2. \A u : CarriesNoMore(h, u) /\ ~Carried("publish", pc'[h], frame'[h], outcome', u)
    BY <1>0, <1>2 DEF CarriesNoMore, Carried, SameRequest, SameLists, SameLaunches
  <2>3. Claim("publish", h, t)
    BY <1>0, <1>2 DEF Claim, Carried
  <2>4. ~Claim("publish", h, t)'
    BY <1>0, <2>2 DEF Claim, DocClaim
  <2>5. ASSUME NEW i, NEW z, DocClaim(i, z, t)' PROVE DocClaim(i, z, t) \/ (i = "outcome" /\ z = o)
    BY <1>0, <1>3, <1>5, <1>7, <2>5 DEF DocClaim
  <2>6. Hands(h, t, "publish", h, "outcome", o)
    BY <1>0, <2>2, <2>3, <2>4, <2>5 DEF Hands, CarriesNoMore
  <2>. QED BY <1>0, <1>2, <2>1, <2>2, <2>6, HandOver
<1>. QED BY <1>0, <1>7, <1>8, <1>9 DEF OnceInv

\* A waiting task is taken by one.
LEMMA TakeWaitingTaskOnce ==
    ASSUME TypeInv, ServeInv, ReportInv, OnceInv, NEW h \in Handler, TakeWaitingTask(h)
    PROVE  OnceInv'
<1>0. PICK t : t = frame[h].task
  OBVIOUS
<1>1. Serves(pc[h], frame[h]) /\ Fits(pc[h], frame[h], Existing) /\ Placed(pc[h], frame[h])
  BY <1>0, ChainKnown
<1>2. /\ pc[h] = "take" /\ pc'[h] \in {"route", "idle"} /\ Others(h) /\ t \in Task
      /\ UNCHANGED <<upDep, outcome, started, matched>> /\ frame[h].op \in {"report", "waiting"}
  BY <1>0, <1>1, TakeWaitingTaskTurn DEF TakeWaitingTask, Fits, Serves
<1>3. CASE pc'[h] = "idle"
  <2>1. ClaimsNoMore(h)
    BY <1>0, <1>3, EmptyFields, TakeWaitingTaskTurn DEF ClaimsNoMore, Turns, Placed, Publishes, Onward,
       BeforeRestart,
       ListsLess, PublishesNoMore
  <2>2. QuietDocs
    BY <1>0, <1>2, <1>3, TakeWaitingTaskTurn, SameDocs
  <2>. QED BY <1>0, <1>2, <2>1, <2>2, QuietStep
<1>4. CASE pc'[h] = "route"
  <2>0. /\ SameRequest(h) /\ SameLists(h) /\ frame'[h].task = t /\ frame'[h].then = "waiting"
        /\ taskStatus[t] = WAITING_FOR_AGENT /\ SetTask(t, NOT_STARTED)
    BY <1>0, <1>4, TakeWaitingTaskTurn
  <2>1. Turns(h) /\ Onward(h) /\ ~Fresh
    <3>1. ~Fresh
      BY <1>0, <1>2, AtWork
    <3>. QED BY <1>0, <1>1, <1>2, <1>4, <2>0, <3>1 DEF Turns, Placed, Publishes, Onward, BeforeRestart,
       SameRequest,
         SameLists, SameLaunches
  <2>2. PlacedInv' /\ StartInv' /\ ~Fresh'
    BY <1>0, <1>2, <2>1, PlacedSame, StartWorks
  <2>3. KeepsTasks /\ (\A u \in Claimed : Lessens(u)) /\ NOT_STARTED # WAITING_FOR_AGENT
    BY <1>0, <1>2, <2>0, <2>2, SetLessens DEF NOT_STARTED, WAITING_FOR_AGENT
  <2>4. /\ \A u : u # t => CarriesNoMore(h, u)
        /\ \A i : Carried(i, pc'[h], frame'[h], outcome', t)
             => Carried(i, pc[h], frame[h], outcome, t) \/ (i = "publish" /\ h = h)
    BY <1>0, <1>2, <1>4, <2>0 DEF CarriesNoMore, Carried, SameRequest, SameLists, SameLaunches
  <2>5. Claim("waiting", 0, t)
    BY <1>0, <2>0 DEF Claim, DocClaim
  <2>6. ~Claim("waiting", 0, t)'
    <3>1. taskStatus'[t] # WAITING_FOR_AGENT
      BY <1>0, <1>2, <2>0, <2>3 DEF SetTask, TypeInv, DocumentsOK
    <3>. QED BY <1>0, <3>1 DEF Claim, DocClaim, Carried
  <2>7. t \in Claimed => Hands(h, t, "waiting", 0, "publish", h)
    BY <1>0, <2>3, <2>4, <2>5, <2>6, LessClaims DEF Hands
  <2>8. ClaimInv'
    BY <1>0, <1>2, <2>3, <2>4, <2>7, HandOver
  <2>. QED BY <1>0, <2>2, <2>8 DEF OnceInv
<1>. QED BY <1>0, <1>2, <1>3, <1>4

\* A task that awaits nobody any more is on the chain's list, or is dropped from it.
LEMMA LaunchDownstreamTaskOnce ==
    ASSUME TypeInv, ServeInv, ReportInv, OnceInv, NEW h \in Handler, LaunchDownstreamTask(h)
    PROVE  OnceInv'
<1>1. Serves(pc[h], frame[h]) /\ Fits(pc[h], frame[h], Existing) /\ Placed(pc[h], frame[h])
  BY ChainKnown
<1>2. /\ pc[h] = "launching" /\ pc'[h] \in {"route", "launching"} /\ Others(h) /\ SameRequest(h)
      /\ UNCHANGED <<upDep, outcome, started, matched>> /\ frame[h].op = "report"
      /\ frame'[h].launchTo = frame[h].launchTo /\ frame'[h].todo = frame[h].todo /\ Back(h, frame[h].back)
  BY <1>1, LaunchDownstreamTaskTurn DEF LaunchDownstreamTask, Fits, ReportSteps
<1>3. PICK t \in frame[h].launch :
        /\ frame'[h].launch = frame[h].launch \ {t}
        /\ pc'[h] = "route" => /\ frame'[h].task = t /\ frame'[h].then = "launching"
                               /\ taskStatus[t] = NULL /\ SetTask(t, NOT_STARTED)
        /\ pc'[h] = "launching" => /\ frame'[h].task = frame[h].task /\ frame'[h].then = frame[h].then
                                   /\ UNCHANGED taskStatus
  BY LaunchDownstreamTaskTurn
<1>4. Turns(h) /\ Onward(h) /\ ~Fresh
  <2>1. ~Fresh
    BY <1>2, AtWork
  <2>. QED BY <1>1, <1>2, <1>3, <2>1 DEF Turns, Placed, Publishes, Onward, BeforeRestart, SameRequest, Back
<1>5. CASE pc'[h] = "launching"
  <2>1. ClaimsNoMore(h)
    BY <1>2, <1>3, <1>4, <1>5 DEF ClaimsNoMore, ListsLess, PublishesNoMore, SameRequest
  <2>2. QuietDocs
    BY <1>2, <1>3, <1>5, SameDocs
  <2>. QED BY <1>2, <2>1, <2>2, QuietStep
<1>6. CASE pc'[h] = "route"
  <2>1. PlacedInv' /\ StartInv' /\ ~Fresh'
    BY <1>2, <1>4, PlacedSame, StartWorks
  <2>2. KeepsTasks /\ \A u \in Claimed : Lessens(u)
    <3>1. NOT_STARTED # WAITING_FOR_AGENT
      BY DEF NOT_STARTED, WAITING_FOR_AGENT
    <3>. QED BY <1>2, <1>3, <1>6, <2>1, <3>1, SetLessens
  <2>3. /\ \A u : u # t => CarriesNoMore(h, u)
        /\ \A i : Carried(i, pc'[h], frame'[h], outcome', t)
             => Carried(i, pc[h], frame[h], outcome, t) \/ (i = "publish" /\ h = h)
    BY <1>2, <1>3, <1>6 DEF CarriesNoMore, Carried, SameRequest
  <2>4. Claim("launch", h, t)
    BY <1>3 DEF Claim, Carried
  <2>5. ~Claim("launch", h, t)'
    BY <1>3 DEF Claim, DocClaim, Carried
  <2>6. t \in Claimed => Hands(h, t, "launch", h, "publish", h)
    BY <2>2, <2>3, <2>4, <2>5, LessClaims DEF Hands
  <2>7. ClaimInv'
    BY <1>2, <2>2, <2>3, <2>6, HandOver
  <2>. QED BY <2>1, <2>7 DEF OnceInv
<1>. QED BY <1>2, <1>5, <1>6

\* The last task awaited has ended: its downstream task gets on the chain's list.
LEMMA DescendOnce ==
    ASSUME TypeInv, ServeInv, ReportInv, OnceInv, NEW h \in Handler, Descend(h)
    PROVE  OnceInv'
<1>1. Serves(pc[h], frame[h]) /\ Fits(pc[h], frame[h], Existing) /\ Placed(pc[h], frame[h])
  BY ChainKnown
<1>2. /\ pc[h] = "downing" /\ pc'[h] \in {"downing", "skipread"} /\ Others(h) /\ SameRequest(h) /\ SameTask(h)
      /\ UNCHANGED <<taskStatus, outcome, started>> /\ frame[h].op = "report"
      /\ frame'[h].launchTo = frame[h].launchTo /\ frame'[h].todo = frame[h].todo /\ Back(h, frame[h].back)
  BY <1>1, DescendTurn DEF Descend, Fits, ReportSteps
<1>3. PICK u : u = outcome[frame[h].of].task
  OBVIOUS
<1>4. PICK d \in frame[h].down :
        \/ UNCHANGED <<upDep, matched>> /\ frame'[h].launch = frame[h].launch
        \/ /\ upDep' = [upDep EXCEPT ![d] = @ \ {u}]
           /\ frame'[h].launch = frame[h].launch \cup {x \in {d} : LastAwaited(d, u)}
  BY <1>3, DescendTurn
<1>5. Turns(h) /\ Onward(h) /\ ~Fresh
  <2>1. ~Fresh
    BY <1>2, AtWork
  <2>. QED BY <1>1, <1>2, <2>1 DEF Turns, Placed, Publishes, Onward, BeforeRestart, SameRequest,
     SameTask, Back
<1>6. PlacedInv' /\ StartInv' /\ ~Fresh'
  BY <1>2, <1>5, PlacedSame, StartWorks
<1>7. KeepsTasks /\ \A v \in Claimed : Lessens(v)
  <2>1. \A v \in Task : upDep'[v] \subseteq upDep[v]
    BY <1>4 DEF TypeInv, DocumentsOK
  <2>. QED BY <1>2, <1>6, <2>1 DEF KeepsTasks, Lessens, Existing, Claimed
<1>8. CASE frame'[h].launch = frame[h].launch
  <2>1. \A v : CarriesNoMore(h, v)
    BY <1>2, <1>8 DEF CarriesNoMore, Carried, SameRequest, SameTask
  <2>2. ClaimInv'
    <3>. SUFFICES ASSUME NEW v \in Claimed PROVE Single(v)'
      BY DEF ClaimInv, Claimed, RouteTargets
    <3>. QED BY <1>2, <1>7, <2>1, QuietSingle DEF OnceInv, ClaimInv
  <2>. QED BY <1>6, <2>2 DEF OnceInv
<1>9. CASE /\ upDep' = [upDep EXCEPT ![d] = @ \ {u}] /\ LastAwaited(d, u)
           /\ frame'[h].launch = frame[h].launch \cup {d}
  <2>0. d \in Task /\ upDep[d] # {} /\ upDep'[d] = {}
    <3>1. d \in Task
      BY FrameFields DEF TypeInv, FramesOK
    <3>. QED BY <1>9, <3>1 DEF LastAwaited, TypeInv, DocumentsOK
  <2>1. /\ \A v : v # d => CarriesNoMore(h, v)
        /\ \A i : Carried(i, pc'[h], frame'[h], outcome', d)
             => Carried(i, pc[h], frame[h], outcome, d) \/ (i = "launch" /\ h = h)
    BY <1>2, <1>9 DEF CarriesNoMore, Carried, SameRequest, SameTask
  <2>2. Claim("awaits", 0, d)
    BY <2>0 DEF Claim, DocClaim
  <2>3. ~Claim("awaits", 0, d)'
    BY <2>0 DEF Claim, DocClaim, Carried
  <2>4. d \in Claimed => Hands(h, d, "awaits", 0, "launch", h)
    BY <1>7, <2>1, <2>2, <2>3, LessClaims DEF Hands
  <2>5. ClaimInv'
    BY <1>2, <1>7, <2>1, <2>4, HandOver
  <2>. QED BY <1>6, <2>5 DEF OnceInv
<1>. QED BY <1>4, <1>8, <1>9

\* The launcher publishes the next task of its list, whatever became of it.
LEMMA StartTaskOnce ==
    ASSUME TypeInv, ServeInv, ReportInv, OnceInv, NEW h \in Handler, StartTask(h)
    PROVE  OnceInv'
<1>1. Serves(pc[h], frame[h]) /\ Fits(pc[h], frame[h], Existing) /\ Placed(pc[h], frame[h])
  BY ChainKnown
<1>2. /\ pc[h] = "starting" /\ pc'[h] = "route" /\ Others(h) /\ SameRequest(h) /\ SameLaunches(h)
      /\ UNCHANGED <<upDep, outcome, started, matched>> /\ frame[h].op = "start" /\ Back(h, frame[h].back)
  BY <1>1, StartTaskTurn DEF StartTask, Serves, Placed
<1>3. PICK t \in frame[h].todo :
        /\ frame'[h].task = t /\ frame'[h].then = "starting" /\ frame'[h].todo = frame[h].todo \ {t}
        /\ IF taskStatus[t] = NULL THEN SetTask(t, NOT_STARTED) ELSE UNCHANGED taskStatus
  BY StartTaskTurn
<1>4. Turns(h) /\ Onward(h) /\ ~Fresh
  <2>1. ~Fresh
    BY <1>2, AtWork
  <2>. QED BY <1>1, <1>2, <1>3, <2>1 DEF Turns, Placed, Publishes, Onward, BeforeRestart, SameRequest,
     SameLaunches
<1>5. PlacedInv' /\ StartInv' /\ ~Fresh'
  BY <1>2, <1>4, PlacedSame, StartWorks
<1>6. KeepsTasks /\ \A u \in Claimed : Lessens(u)
  <2>1. NOT_STARTED # WAITING_FOR_AGENT
    BY DEF NOT_STARTED, WAITING_FOR_AGENT
  <2>. QED BY <1>2, <1>3, <1>5, <2>1, SetLessens, SameLessens
<1>7. /\ \A u : u # t => CarriesNoMore(h, u)
      /\ \A i : Carried(i, pc'[h], frame'[h], outcome', t)
           => Carried(i, pc[h], frame[h], outcome, t) \/ (i = "publish" /\ h = h)
  BY <1>2, <1>3 DEF CarriesNoMore, Carried, SameRequest, SameLaunches
<1>8. Claim("todo", h, t)
  BY <1>2, <1>3 DEF Claim, Carried
<1>9. ~Claim("todo", h, t)'
  BY <1>3 DEF Claim, DocClaim, Carried
<1>10. t \in Claimed => Hands(h, t, "todo", h, "publish", h)
  BY <1>6, <1>7, <1>8, <1>9, LessClaims DEF Hands
<1>11. ClaimInv'
  BY <1>2, <1>6, <1>7, <1>10, HandOver
<1>. QED BY <1>5, <1>11 DEF OnceInv

\* The launcher starts the job: nobody else lists the tasks to start with.
LEMMA LaunchJobOnce ==
    ASSUME TypeInv, ServeInv, ReportInv, OnceInv, NEW h \in Handler, LaunchJob(h)
    PROVE  OnceInv'
<1>1. /\ pc'[h] = "begin" /\ Begins(h, "start") /\ Others(h) /\ ~started /\ pc[h] = "idle"
      /\ UNCHANGED <<taskStatus, upDep, outcome, matched>> /\ Existing' = Existing
  BY LaunchJobTurn DEF LaunchJob, docVars, Existing
<1>2. Fresh /\ \A q \in Handler : frame[q].op # "start"
  BY <1>1 DEF Fresh, OnceInv, StartInv
<1>3. PlacedInv'
  <2>1. CancelsOwn(h)
    BY <1>1 DEF CancelsOwn
  <2>2. Placed(pc'[h], frame'[h]) /\ Spared(pc'[h], frame'[h], outcome')
    BY <1>1 DEF Begins, Placed, Publishes, Spared, BeforeRestart
  <2>. QED BY <1>1, <2>1, <2>2, PlacedStep DEF OnceInv
<1>4. StartInv'
  <2>1. \A q \in Handler : frame'[q].op = "start" => q = h
    BY <1>1, <1>2 DEF Others
  <2>2. started'
    BY DEF LaunchJob
  <2>3. \A q \in Handler : frame'[q].op \in {"none", "start", "cancel", "interrupt"}
    <3>1. \A q \in Handler : frame[q].op \in {"none", "start", "cancel", "interrupt"}
      BY <1>2 DEF OnceInv, StartInv
    <3>. QED BY <1>1, <3>1 DEF Others, Begins
  <2>4. Existing' = {} /\ matched' = {} /\ \A t \in Task : taskStatus'[t] \in {NULL, CANCELLED}
    BY <1>1, <1>2 DEF OnceInv, StartInv
  <2>. QED BY <2>1, <2>2, <2>3, <2>4 DEF StartInv
<1>5. ClaimInv'
  <2>. SUFFICES ASSUME NEW t \in Claimed PROVE Single(t)'
    BY DEF ClaimInv, Claimed, RouteTargets
  <2>1. Lessens(t) /\ KeepsTasks
    BY <1>1, <1>2 DEF Lessens, KeepsTasks
  <2>2. CarriesNoMore(h, t)
    BY <1>1 DEF CarriesNoMore, Carried, Begins
  <2>. QED BY <1>1, <2>1, <2>2, QuietSingle DEF OnceInv, ClaimInv
<1>. QED BY <1>3, <1>4, <1>5 DEF OnceInv

\* The tasks to start with are listed: from here on each is on the list, or was never
\* to be started.
LEMMA SnapshotTasksOnce ==
    ASSUME TypeInv, ServeInv, JoinInv, ReportInv, OnceInv, NEW h \in Handler, SnapshotTasks(h) PROVE OnceInv'
<1>1. Serves(pc[h], frame[h]) /\ Fits(pc[h], frame[h], Existing) /\ Placed(pc[h], frame[h])
  BY ChainKnown
<1>2. /\ pc[h] = "snapshot" /\ pc'[h] = "starting" /\ Others(h) /\ SameRequest(h) /\ SameTask(h) /\ SameLaunches(h)
      /\ frame[h].op = "start" /\ Back(h, frame[h].back)
      /\ UNCHANGED <<taskStatus, upDep, outcome, matched, started>> /\ Existing' = Existing
      /\ frame'[h].todo = {t \in Task : Root(t) /\ taskStatus[t] = NULL}
  BY <1>1, SnapshotTasksTurn DEF SnapshotTasks, Serves, Placed, docVars, Existing
<1>3. Fresh /\ matched = {}
  BY <1>2 DEF Fresh, OnceInv, StartInv
<1>4. Turns(h) /\ Onward(h)
  BY <1>1, <1>2 DEF Turns, Placed, Publishes, Onward, BeforeRestart, SameRequest, SameTask, SameLaunches, Back
<1>5. ~Fresh'
  <2>1. started
    BY <1>2 DEF OnceInv, StartInv
  <2>2. \A q \in Handler : frame'[q].op = "start" => q = h
    BY <1>2 DEF OnceInv, StartInv, Others, SameRequest
  <2>. QED BY <1>2, <2>1, <2>2 DEF Fresh
<1>6. PlacedInv'
  BY <1>2, <1>4, PlacedSame
<1>7. StartInv'
  <2>1. StaysFresh
    BY <1>2 DEF StaysFresh, OnceInv, StartInv
  <2>. QED BY <1>2, <1>4, <2>1, StartKept DEF OnceInv
<1>8. KeepsTasks /\ \A u \in Claimed : Lessens(u)
  BY <1>2, <1>5, SameLessens
<1>9. ASSUME NEW t \in Claimed PROVE Single(t)'
  <2>1. Single(t)
    BY <1>9 DEF OnceInv, ClaimInv
  <2>2. CASE t \notin frame'[h].todo
    <3>1. CarriesNoMore(h, t)
      BY <1>2, <2>2 DEF CarriesNoMore, Carried, SameRequest, SameTask, SameLaunches
    <3>. QED BY <1>2, <1>8, <2>1, <3>1, QuietSingle
  <2>3. CASE t \in frame'[h].todo
    <3>1. Upstream(t) = {}
      BY <1>2, <1>3, <2>3 DEF JoinInv, Root
    <3>2. Claim("fresh", 0, t)
      BY <1>3, <3>1 DEF Claim, DocClaim
    <3>3. ~Claim("fresh", 0, t)'
      BY <1>5 DEF Claim, DocClaim, Carried
    <3>4. \A i : Carried(i, pc'[h], frame'[h], outcome', t)
            => Carried(i, pc[h], frame[h], outcome, t) \/ (i = "todo" /\ h = h)
      BY <1>2 DEF Carried, SameRequest, SameTask, SameLaunches
    <3>5. Hands(h, t, "fresh", 0, "todo", h)
      BY <1>8, <1>9, <3>2, <3>3, <3>4, LessClaims DEF Hands
    <3>. QED BY <1>2, <1>8, <2>1, <3>5, HandsSingle
  <2>. QED BY <2>2, <2>3
<1>10. ClaimInv'
  BY <1>9 DEF ClaimInv, Claimed, RouteTargets
<1>. QED BY <1>6, <1>7, <1>10 DEF OnceInv

-----------------------------------------------------------------------------
(***************************************************************************)
(* Steps that write the outcome the chain reports on                       *)
(***************************************************************************)
\* The outcome gets any status, unless it is cancelled; when it is, the chain may go on to
\* publish its task again.
LEMMA WritesOwn ==
    ASSUME TypeInv, ReportInv, OnceInv, NEW h \in Handler, Others(h), Turns(h), Reports(h), NEW o, o = frame[h].of,
           ListsLess(h), o \in Existing, KeepsTasks,
           outcome'[o].status # CANCELLED \/ pc'[h] = "republish" => outcome[o].status # CANCELLED,
           Existing' = Existing,
           \A p \in Outcome : p # o => outcome'[p] = outcome[p],
           UNCHANGED <<taskStatus, upDep, matched, started>>,
           pc'[h] \notin {"route", "save", "reset"},
           Spared(pc'[h], frame'[h], outcome'),
           pc'[h] = "republish" => frame'[h].of = o /\ outcome'[o].status = CANCELLED
    PROVE  OnceInv'
<1>1. ~Fresh
  BY DEF OnceInv, StartInv
<1>2. StartInv' /\ ~Fresh'
  BY <1>1, StartWorks
<1>3. PlacedInv'
  <2>1. CancelsOwn(h)
    BY DEF CancelsOwn, Existing, KeepsTasks
  <2>. QED BY <2>1, PlacedStep DEF OnceInv, Turns
<1>4. PICK t : t = outcome[o].task
  OBVIOUS
<1>5. \A u \in Claimed : Lessens(u)
  BY <1>2 DEF Lessens, KeepsTasks, Existing
<1>6. /\ \A u : u # t => CarriesNoMore(h, u)
      /\ \A i : Carried(i, pc'[h], frame'[h], outcome', t)
            => Carried(i, pc[h], frame[h], outcome, t) \/ (i = "republish" /\ h = h /\ pc'[h] = "republish")
  BY <1>4 DEF CarriesNoMore, Carried, ListsLess, KeepsTasks
<1>7. CASE pc'[h] = "republish"
  <2>1. Claim("outcome", o, t)
    BY <1>4, <1>7 DEF Claim, DocClaim
  <2>2. ~Claim("outcome", o, t)'
    BY <1>7 DEF Claim, DocClaim, Carried
  <2>3. t \in Claimed => Hands(h, t, "outcome", o, "republish", h)
    <3>1. \A i, z : t \in Claimed /\ DocClaim(i, z, t)' => DocClaim(i, z, t)
      BY <1>5, LessClaims
    <3>2. \A i : Carried(i, pc'[h], frame'[h], outcome', t)
            => Carried(i, pc[h], frame[h], outcome, t) \/ (i = "republish" /\ h = h)
      BY <1>6
    <3>3. ASSUME t \in Claimed PROVE \A i, z : DocClaim(i, z, t)' => DocClaim(i, z, t) \/ (i = "republish" /\ z = h)
      BY <3>1, <3>3
    <3>. QED BY <2>1, <2>2, <3>2, <3>3 DEF Hands
  <2>4. \A u \in Claimed : u # t => Lessens(u) /\ CarriesNoMore(h, u)
    BY <1>5, <1>6
  <2>5. ClaimInv'
    BY <2>3, <2>4, HandOver
  <2>. QED BY <1>2, <1>3, <2>5 DEF OnceInv
<1>8. CASE pc'[h] # "republish"
  <2>. SUFFICES ASSUME NEW u \in Claimed PROVE Single(u)'
    BY <1>2, <1>3 DEF OnceInv, ClaimInv, Claimed, RouteTargets
  <2>1. CarriesNoMore(h, u)
    BY <1>6, <1>8 DEF CarriesNoMore
  <2>. QED BY <1>5, <2>1, QuietSingle DEF OnceInv, ClaimInv
<1>. QED BY <1>7, <1>8

LEMMA PutReportOnce ==
    ASSUME TypeInv, ServeInv, ReportInv, OnceInv, NEW h \in Handler, PutReport(h)
    PROVE  OnceInv'
<1>0. PICK o : o = frame[h].of
  OBVIOUS
<1>1. Serves(pc[h], frame[h]) /\ Fits(pc[h], frame[h], Existing) /\ Placed(pc[h], frame[h]) /\ frame[h].of \in Existing
  BY <1>0, ChainKnown DEF PutReport, Fits, ReportSteps
<1>2. /\ pc[h] = "put" /\ pc'[h] \in {"finish", "cancelled", "readjob"} /\ Same(h) /\ Others(h) /\ Reports(h)
      /\ (pc'[h] = "readjob" => Back(h, "waitlist")) /\ (pc'[h] # "readjob" => Back(h, frame[h].back))
      /\ UNCHANGED <<taskStatus, upDep, matched, started>> /\ o \in Existing
  BY <1>0, <1>1, PutReportTurn DEF PutReport, Fits, ReportSteps, Reports
<1>3. outcome' = [outcome EXCEPT ![o].status = frame[h].new, ![o].route = frame[h].route]
  BY <1>0 DEF PutReport
<1>4. KeepsTasks /\ Existing' = Existing
  BY <1>0, <1>3, SetRouteKeepsTasks DEF SameTasks, KeepsTasks
<1>5. /\ \A p \in Outcome : p # o => outcome'[p] = outcome[p]
      /\ outcome'[o].status = frame[h].new /\ outcome[o].status # CANCELLED
  BY <1>0, <1>2, <1>3 DEF TypeInv, DocumentsOK, Existing, ReportInv, Sound, Over
<1>6. Turns(h) /\ ListsLess(h)
  BY <1>0, <1>1, <1>2 DEF Turns, Placed, Publishes, ListsLess, Same, SameRequest, SameTask, SameLists,
     SameLaunches,
     Back, Reports
<1>7. Spared(pc'[h], frame'[h], outcome')
  BY <1>0, <1>2, <1>5 DEF Spared, BeforeRestart, Same, SameRequest, INTERRUPTED, CANCELLED
<1>. QED BY <1>0, <1>2, <1>4, <1>5, <1>6, <1>7, WritesOwn

LEMMA PutCancelledOnce ==
    ASSUME TypeInv, ServeInv, ReportInv, OnceInv, NEW h \in Handler, PutCancelled(h)
    PROVE  OnceInv'
<1>0. PICK o : o = frame[h].of
  OBVIOUS
<1>1. Serves(pc[h], frame[h]) /\ Fits(pc[h], frame[h], Existing) /\ Placed(pc[h], frame[h])
  BY <1>0, ChainKnown
<1>2. /\ pc[h] = "cancelled" /\ pc'[h] = "readjob" /\ SameTask(h) /\ SameLists(h) /\ Others(h) /\ Reports(h)
      /\ Back(h, "waitlist") /\ frame'[h].op = frame[h].op /\ frame'[h].of = o /\ frame'[h].new = CANCELLED
      /\ UNCHANGED <<taskStatus, upDep, matched, started>> /\ o \in Existing /\ SetOutcome(o, CANCELLED)
  BY <1>0, <1>1, PutCancelledTurn DEF PutCancelled, Fits, ReportSteps, Reports
<1>3. KeepsTasks /\ Existing' = Existing /\ \A p \in Outcome : p # o => outcome'[p] = outcome[p]
  BY <1>0, <1>2, SetStatusKeepsTasks DEF SameTasks, KeepsTasks, SetOutcome, TypeInv, DocumentsOK
<1>4. outcome'[o].status = CANCELLED
  BY <1>0, <1>2 DEF SetOutcome, TypeInv, DocumentsOK, Existing
<1>5. Turns(h) /\ ListsLess(h)
  BY <1>0, <1>1, <1>2 DEF Turns, Placed, Publishes, ListsLess, SameTask, SameLists, SameLaunches, Back,
     Reports
<1>6. Spared(pc'[h], frame'[h], outcome')
  BY <1>0, <1>2 DEF Spared, BeforeRestart, INTERRUPTED, CANCELLED
<1>. QED BY <1>0, <1>2, <1>3, <1>4, <1>5, <1>6, WritesOwn

LEMMA AfterDownstreamOnce ==
    ASSUME TypeInv, ServeInv, ReportInv, OnceInv, NEW h \in Handler, AfterDownstream(h)
    PROVE  OnceInv'
<1>0. PICK o : o = frame[h].of
  OBVIOUS
<1>1. /\ Serves(pc[h], frame[h]) /\ Fits(pc[h], frame[h], Existing) /\ Placed(pc[h], frame[h])
      /\ Spared(pc[h], frame[h], outcome)
  BY <1>0, ChainKnown DEF OnceInv, PlacedInv
<1>2. /\ pc[h] = "after" /\ pc'[h] \in {"republish", "finish"} /\ Same(h) /\ Others(h) /\ Reports(h)
      /\ Back(h, frame[h].back)
      /\ UNCHANGED <<taskStatus, upDep, matched, started>> /\ o \in Existing
  BY <1>0, <1>1, AfterDownstreamTurn DEF AfterDownstream, Fits, ReportSteps, Reports
<1>3. Turns(h) /\ ListsLess(h)
  BY <1>0, <1>1, <1>2 DEF Turns, Placed, Publishes, ListsLess, Same, SameRequest, SameTask, SameLists,
     SameLaunches,
     Back, Reports
<1>4. Spared(pc'[h], frame'[h], outcome')
  BY <1>0, <1>2 DEF Spared, BeforeRestart
<1>5. CASE pc'[h] = "republish"
  <2>1. SetOutcome(o, CANCELLED) /\ frame[h].new = INTERRUPTED /\ outcome[o].task \in AutoRestart
    BY <1>0, <1>5, AfterDownstreamTurn DEF AfterDownstream
  <2>2. KeepsTasks /\ Existing' = Existing /\ \A p \in Outcome : p # o => outcome'[p] = outcome[p]
    BY <1>0, <2>1, SetStatusKeepsTasks DEF SameTasks, KeepsTasks, SetOutcome, TypeInv, DocumentsOK
  <2>3. outcome'[o].status = CANCELLED
    BY <1>0, <1>2, <2>1 DEF SetOutcome, TypeInv, DocumentsOK, Existing
  <2>4. outcome[o].status # CANCELLED
    BY <1>0, <1>1, <1>2, <2>1 DEF Spared, BeforeRestart, Reports, Placed, Publishes
  <2>5. frame'[h].of = o
    BY <1>0, <1>2 DEF Same, SameRequest
  <2>. QED BY <1>0, <1>2, <1>3, <1>4, <2>2, <2>3, <2>4, <2>5, WritesOwn
<1>6. CASE pc'[h] = "finish"
  <2>1. UNCHANGED outcome
    BY <1>0, <1>6, AfterDownstreamTurn DEF AfterDownstream
  <2>2. ClaimsNoMore(h)
    BY <1>0, <1>2, <1>3, <1>6 DEF ClaimsNoMore, Onward, BeforeRestart, PublishesNoMore
  <2>. QED BY <1>0, <1>2, <2>1, <2>2, SameDocs, QuietStep
<1>. QED BY <1>0, <1>2, <1>5, <1>6

\* The task is published again, unless it has gone on meanwhile.
LEMMA RepublishTaskOnce ==
    ASSUME TypeInv, ServeInv, ReportInv, OnceInv, NEW h \in Handler, RepublishTask(h)
    PROVE  OnceInv'
<1>0. PICK t : t = outcome[frame[h].of].task
  OBVIOUS
<1>1. Serves(pc[h], frame[h]) /\ Fits(pc[h], frame[h], Existing) /\ Placed(pc[h], frame[h])
  BY <1>0, ChainKnown
<1>2. /\ pc[h] = "republish" /\ pc'[h] \in {"route", "finish"} /\ SameRequest(h) /\ SameLists(h) /\ Others(h)
      /\ Back(h, frame[h].back) /\ Reports(h)
      /\ UNCHANGED <<upDep, outcome, matched, started>>
  BY <1>0, <1>1, RepublishTaskTurn DEF RepublishTask, Fits, ReportSteps, Reports
<1>3. CASE pc'[h] = "finish"
  <2>1. /\ UNCHANGED taskStatus /\ frame'[h].task = frame[h].task /\ frame'[h].then = frame[h].then
    BY <1>0, <1>3, RepublishTaskTurn
  <2>2. ClaimsNoMore(h)
    BY <1>0, <1>1, <1>2, <1>3, <2>1 DEF ClaimsNoMore, Turns, Placed, Publishes, Onward, BeforeRestart,
       ListsLess,
       PublishesNoMore, SameRequest, SameLists, SameLaunches, Back, Reports
  <2>. QED BY <1>0, <1>2, <2>1, <2>2, SameDocs, QuietStep
<1>4. CASE pc'[h] = "route"
  <2>1. frame'[h].task = t /\ frame'[h].then = "finish" /\ SetTask(t, NOT_STARTED)
    BY <1>0, <1>4, RepublishTaskTurn
  <2>2. Turns(h) /\ Onward(h) /\ ~Fresh
    <3>1. ~Fresh
      BY <1>0, <1>2, AtWork DEF Reports
    <3>. QED BY <1>0, <1>1, <1>2, <1>4, <2>1, <3>1 DEF Turns, Placed, Publishes, Onward, BeforeRestart,
       SameRequest,
         SameLists, SameLaunches, Back, Reports, Serves, Fits
  <2>3. PlacedInv' /\ StartInv' /\ ~Fresh'
    BY <1>0, <1>2, <2>2, PlacedSame, StartWorks
  <2>4. KeepsTasks /\ (\A u \in Claimed : Lessens(u)) /\ NOT_STARTED # WAITING_FOR_AGENT
    BY <1>0, <1>2, <2>1, <2>3, SetLessens DEF NOT_STARTED, WAITING_FOR_AGENT
  <2>5. /\ \A u : u # t => CarriesNoMore(h, u)
        /\ \A i : Carried(i, pc'[h], frame'[h], outcome', t)
             => Carried(i, pc[h], frame[h], outcome, t) \/ (i = "publish" /\ h = h)
    BY <1>0, <1>2, <1>4, <2>1 DEF CarriesNoMore, Carried, SameRequest, SameLists, SameLaunches
  <2>6. Claim("republish", h, t)
    BY <1>0, <1>2 DEF Claim, Carried
  <2>7. ~Claim("republish", h, t)'
    BY <1>0, <1>4 DEF Claim, DocClaim, Carried
  <2>8. t \in Claimed => Hands(h, t, "republish", h, "publish", h)
    BY <1>0, <2>4, <2>5, <2>6, <2>7, LessClaims DEF Hands
  <2>9. ClaimInv'
    BY <1>0, <1>2, <2>4, <2>5, <2>8, HandOver
  <2>. QED BY <1>0, <2>3, <2>9 DEF OnceInv
<1>. QED BY <1>0, <1>2, <1>3, <1>4

-----------------------------------------------------------------------------
(***************************************************************************)
(* An outcome is restarted by hand: no task restarts by itself             *)
(***************************************************************************)
LEMMA RestartTaskOutcomeOnce ==
    ASSUME RestartsApart, TypeInv, ServeInv, ReportInv, OnceInv, NEW h \in Handler, RestartTaskOutcome(h)
    PROVE  OnceInv'
<1>1. Existing # {} /\ pc[h] = "idle" /\ AutoRestart = {}
  BY DEF RestartTaskOutcome, RestartsApart
<1>2. ~Fresh
  BY <1>1 DEF OnceInv, StartInv
<1>3. pc'[h] = "restarting" /\ Begins(h, "restartoutcome")
  BY RestartTaskOutcomeTurn
<1>4. ClaimsNoMore(h)
  BY <1>1, <1>2, <1>3 DEF ClaimsNoMore, Turns, Placed, Publishes, Onward, BeforeRestart, ListsLess,
     PublishesNoMore,
     Begins
<1>5. QuietDocs
  BY SameDocs DEF RestartTaskOutcome, docVars
<1>. QED BY <1>4, <1>5, QuietStep, RestartTaskOutcomeTurn

\* The outcome is put out of the way: its task will be published again.
LEMMA RestartOutcomeOnce ==
    ASSUME TypeInv, ServeInv, ReportInv, OnceInv, NEW h \in Handler, RestartOutcome(h)
    PROVE  OnceInv'
<1>1. Serves(pc[h], frame[h]) /\ Fits(pc[h], frame[h], Existing) /\ Placed(pc[h], frame[h])
  BY ChainKnown
<1>2. /\ pc[h] = "restarting" /\ pc'[h] \in {"reset", "restarting"} /\ SameRequest(h) /\ SameLists(h) /\ Others(h)
      /\ Back(h, frame[h].back) /\ frame'[h].then = frame[h].then
      /\ UNCHANGED <<taskStatus, upDep, matched, started>> /\ frame[h].op = "restartoutcome" /\ AutoRestart = {}
  BY <1>1, RestartOutcomeTurn DEF RestartOutcome, Serves, Placed
<1>3. Turns(h) /\ Onward(h) /\ ~Fresh
  <2>1. ~Fresh
    BY <1>2, AtWork
  <2>. QED BY <1>1, <1>2, <2>1 DEF Turns, Placed, Publishes, Onward, BeforeRestart, SameRequest,
     SameLists, SameLaunches,
       Back
<1>4. CASE pc'[h] = "restarting"
  <2>1. UNCHANGED outcome /\ frame'[h].task = frame[h].task
    BY <1>4, RestartOutcomeTurn
  <2>2. ClaimsNoMore(h)
    BY <1>2, <1>3, <1>4 DEF ClaimsNoMore, ListsLess, PublishesNoMore, SameRequest, SameLists, SameLaunches
  <2>. QED BY <1>2, <2>1, <2>2, SameDocs, QuietStep
<1>5. CASE pc'[h] = "reset"
  <2>1. PICK o \in frame[h].todoOut :
          /\ frame'[h].task = outcome[o].task /\ outcome[o].status \in {INTERRUPTED, FAILED}
          /\ outcome' = [outcome EXCEPT ![o].status = CANCELLED, ![o].route = ""]
    BY <1>5, RestartOutcomeTurn
  <2>2. PICK t : t = outcome[o].task
    OBVIOUS
  <2>3. KeepsTasks /\ Existing' = Existing
    BY <2>1, SetRouteKeepsTasks DEF SameTasks, KeepsTasks
  <2>4. /\ \A p \in Outcome : p # o => outcome'[p] = outcome[p]
        /\ outcome'[o].status = CANCELLED /\ outcome[o].status # CANCELLED /\ o \in Existing
    <3>1. o \in Existing /\ o \in Outcome
      BY <1>1, <2>1 DEF Fits, Existing
    <3>2. outcome'[o].status = CANCELLED /\ \A p \in Outcome : p # o => outcome'[p] = outcome[p]
      BY <2>1, <3>1 DEF TypeInv, DocumentsOK
    <3>3. outcome[o].status # CANCELLED
      <4>1. outcome[o].status = INTERRUPTED \/ outcome[o].status = FAILED
        BY <2>1
      <4>. QED BY <4>1 DEF INTERRUPTED, FAILED, CANCELLED
    <3>. QED BY <3>1, <3>2, <3>3
  <2>5. StartInv' /\ ~Fresh'
    BY <1>2, <1>3, StartWorks
  <2>6. PlacedInv'
    <3>1. CancelsOwn(h)
      BY <1>2, <2>3 DEF CancelsOwn, KeepsTasks
    <3>2. Spared(pc'[h], frame'[h], outcome')
      BY <1>2 DEF Spared
    <3>. QED BY <1>2, <1>3, <3>1, <3>2, PlacedStep DEF OnceInv, Turns
  <2>7. \A u \in Claimed : Lessens(u)
    <3>1. \A p \in Existing : outcome'[p].status # CANCELLED => outcome[p].status # CANCELLED
      BY <2>4 DEF Existing
    <3>. QED BY <1>2, <2>3, <2>5, <3>1 DEF Lessens, KeepsTasks
  <2>8. /\ \A u : u # t => CarriesNoMore(h, u)
        /\ \A i : Carried(i, pc'[h], frame'[h], outcome', t)
             => Carried(i, pc[h], frame[h], outcome, t) \/ (i = "reset" /\ h = h)
    BY <1>2, <1>5, <2>1, <2>2 DEF CarriesNoMore, Carried, SameRequest, SameLists, SameLaunches
  <2>9. Claim("outcome", o, t)
    BY <2>2, <2>4 DEF Claim, DocClaim
  <2>10. ~Claim("outcome", o, t)'
    BY <2>4 DEF Claim, DocClaim, Carried
  <2>11. t \in Claimed => Hands(h, t, "outcome", o, "reset", h)
    BY <2>7, <2>8, <2>9, <2>10, LessClaims DEF Hands
  <2>12. ClaimInv'
    BY <1>2, <2>3, <2>7, <2>8, <2>11, HandOver
  <2>. QED BY <2>5, <2>6, <2>12 DEF OnceInv
<1>. QED BY <1>2, <1>4, <1>5

LEMMA ResetTaskOnce ==
    ASSUME TypeInv, ServeInv, ReportInv, OnceInv, NEW h \in Handler, ResetTask(h)
    PROVE  OnceInv'
<1>0. PICK t : t = frame[h].task
  OBVIOUS
<1>1. Serves(pc[h], frame[h]) /\ Fits(pc[h], frame[h], Existing) /\ Placed(pc[h], frame[h])
  BY <1>0, ChainKnown
<1>2. /\ pc[h] = "reset" /\ pc'[h] = "route" /\ SameRequest(h) /\ SameLists(h) /\ Others(h)
      /\ Back(h, frame[h].back) /\ frame'[h].task = t /\ frame'[h].then = "restarting"
      /\ UNCHANGED <<upDep, outcome, matched, started>> /\ SetTask(t, NOT_STARTED)
      /\ frame[h].op = "restartoutcome"
  BY <1>0, <1>1, ResetTaskTurn DEF ResetTask, Serves, Placed
<1>3. Turns(h) /\ Onward(h) /\ ~Fresh
  <2>1. ~Fresh
    BY <1>2, AtWork
  <2>. QED BY <1>1, <1>2, <2>1 DEF Turns, Placed, Publishes, Onward, BeforeRestart, SameRequest,
     SameLists, SameLaunches,
       Back
<1>4. PlacedInv' /\ StartInv' /\ ~Fresh'
  BY <1>2, <1>3, PlacedSame, StartWorks
<1>5. KeepsTasks /\ (\A u \in Claimed : Lessens(u)) /\ NOT_STARTED # WAITING_FOR_AGENT
  BY <1>2, <1>4, SetLessens DEF NOT_STARTED, WAITING_FOR_AGENT
<1>6. /\ \A u : u # t => CarriesNoMore(h, u)
      /\ \A i : Carried(i, pc'[h], frame'[h], outcome', t)
           => Carried(i, pc[h], frame[h], outcome, t) \/ (i = "publish" /\ h = h)
  BY <1>2 DEF CarriesNoMore, Carried, SameRequest, SameLists, SameLaunches
<1>7. Claim("reset", h, t)
  BY <1>0, <1>2 DEF Claim, Carried
<1>8. ~Claim("reset", h, t)'
  BY <1>2 DEF Claim, DocClaim, Carried
<1>9. t \in Claimed => Hands(h, t, "reset", h, "publish", h)
  BY <1>5, <1>6, <1>7, <1>8, LessClaims DEF Hands
<1>10. ClaimInv'
  BY <1>2, <1>5, <1>6, <1>9, HandOver
<1>. QED BY <1>4, <1>10 DEF OnceInv

-----------------------------------------------------------------------------
(***************************************************************************)
(* No task runs twice at the same time                                     *)
(***************************************************************************)
LEMMA InitOnce == Init => OnceInv
<1>. SUFFICES ASSUME Init PROVE OnceInv
  OBVIOUS
<1>1. Existing = {} /\ matched = {} /\ ~started /\ Fresh
  BY DEF Init, Existing, NoDocument, Fresh
<1>2. \A h \in Handler : pc[h] = "idle" /\ frame[h] = EmptyFrame
  BY DEF Init
<1>3. \A t \in Task : taskStatus[t] = NULL /\ upDep[t] = Upstream(t)
  BY DEF Init
<1>4. PlacedInv
  BY <1>2, EmptyFields DEF PlacedInv, Placed, Publishes, Spared, BeforeRestart
<1>5. StartInv
  BY <1>1, <1>2, <1>3, EmptyFields DEF StartInv
<1>6. ASSUME NEW t \in Claimed PROVE Single(t)
  <2>1. \A k, x : Claim(k, x, t) => x = 0 /\ (k = "awaits" \/ k = "fresh")
    <3>1. \A h \in Handler : \A k : ~Carried(k, pc[h], frame[h], outcome, t)
      BY <1>2, EmptyFields DEF Carried
    <3>2. taskStatus[t] # WAITING_FOR_AGENT
      BY <1>3 DEF Claimed, NULL, WAITING_FOR_AGENT
    <3>. QED BY <1>1, <3>1, <3>2 DEF Claim, DocClaim
  <2>2. \A x : ~(Claim("awaits", x, t) /\ Claim("fresh", x, t))
    BY <1>2, <1>3, EmptyFields DEF Claim, DocClaim, Claimed, Carried
  <2>. QED BY <2>1, <2>2 DEF Single
<1>. QED BY <1>4, <1>5, <1>6 DEF OnceInv, ClaimInv

LEMMA StutterOnce == OnceInv /\ UNCHANGED vars => OnceInv'
<1>. SUFFICES ASSUME OnceInv, UNCHANGED vars PROVE OnceInv'
  OBVIOUS
<1>1. UNCHANGED <<taskStatus, upDep, outcome, pc, frame, started, matched>> /\ Existing' = Existing /\ (Fresh' <=> Fresh)
  BY DEF vars, Existing, Fresh
<1>2. PlacedInv' /\ StartInv'
  BY <1>1 DEF OnceInv, PlacedInv, StartInv
<1>3. \A t : Kept(t)
  BY <1>1 DEF Kept, Claim, DocClaim
<1>. QED BY <1>2, <1>3, KeptSingle DEF OnceInv, ClaimInv, Claimed, RouteTargets

\* The job is not restarted.
LEMMA NoRestartStep ==
    ASSUME RestartsApart, TypeInv, ServeInv, OnceInv, NEW h \in Handler
    PROVE  ~RestartJob(h) /\ ~ListOutcomesToRestart(h)
BY ChainKnown DEF Placed, RestartsApart, RestartJob, JobAction, ListOutcomesToRestart

LEMMA StepOnce ==
    RestartsApart /\ TypeInv /\ ServeInv /\ JoinInv /\ ReportInv /\ OnceInv /\ [Next]_vars => OnceInv'
<1>. SUFFICES ASSUME RestartsApart, TypeInv, ServeInv, JoinInv, ReportInv, OnceInv, [Next]_vars PROVE OnceInv'
  OBVIOUS
<1>1. CASE UNCHANGED vars
  BY <1>1, StutterOnce
<1>. SUFFICES ASSUME NEW h \in Handler,
                     Step(h) \/ LaunchJob(h) \/ ReportArrives(h) \/ AgentReturns(h) \/ UserRequest(h)
              PROVE OnceInv'
  BY <1>1 DEF Next
<1>2. CASE UpdateStep(h)
  BY <1>2, ReadJobOnce, ReadOutcomesOnce, ReadTasksOnce, WriteJobOnce, RereadJobOnce
     DEF UpdateStep
<1>3. CASE PublishStep(h)
  BY <1>3, RouteToAgentOnce, RouteFailsOnce, CreateTaskOutcomeOnce, RecheckTaskOnce,
     CancelNewOutcomeOnce, SendToAgentOnce, PublishedOnce
     DEF PublishStep
<1>4. CASE StartStep(h)
  BY <1>4, BeginTasksOnce, SnapshotTasksOnce, StartTaskOnce, TasksStartedOnce, StartEndsOnce
     DEF StartStep
<1>5. CASE ReportStep(h)
  BY <1>5, PutReportOnce, PutCancelledOnce, ListWaitingTasksOnce, ExamineWaitingTaskOnce,
     TakeWaitingTaskOnce, WaitingTasksDoneOnce, BeginDownstreamOnce, DescendOnce, ReadSkippedOnce,
     WriteSkippedOnce, DescendEndsOnce, LaunchRouteTargetOnce, LaunchDownstreamTaskOnce,
     LaunchEndsOnce, AfterDownstreamOnce, RepublishTaskOnce, FinishReportOnce
     DEF ReportStep
<1>6. CASE ActionStep(h)
  BY <1>6, NoRestartStep, ListTasksToStopOnce, StopTaskOnce, ListOutcomesToStopOnce,
     StopNextOutcomeOnce, JobStoppedOnce, RestartOutcomeOnce, ResetTaskOnce, OutcomesRestartedOnce
     DEF ActionStep
<1>7. CASE UserRequest(h)
  BY <1>7, NoRestartStep, CancelJobOnce, InterruptJobOnce, StopTaskOutcomeOnce,
     RestartTaskOutcomeOnce
     DEF UserRequest
<1>8. CASE LaunchJob(h) \/ ReportArrives(h) \/ AgentReturns(h)
  BY <1>8, LaunchJobOnce, ReportArrivesOnce, AgentReturnsOnce
<1>. QED BY <1>2, <1>3, <1>4, <1>5, <1>6, <1>7, <1>8 DEF Step

\* A task that is not the target of a route has one live outcome at most.
OneLiveOf(t) ==
    \A o, p \in OutcomesOf(t) :
        outcome[o].status < SUCCEEDED /\ outcome[p].status < SUCCEEDED => o = p

LEMMA OneLiveEach == ASSUME TypeInv, OnceInv, NEW t \in Claimed PROVE OneLiveOf(t)
<1>. SUFFICES ASSUME NEW o \in OutcomesOf(t), NEW p \in OutcomesOf(t),
                     outcome[o].status < SUCCEEDED, outcome[p].status < SUCCEEDED
              PROVE  o = p
  BY DEF OneLiveOf
<1>1. outcome[o].status # CANCELLED /\ outcome[p].status # CANCELLED
  BY DEF SUCCEEDED, CANCELLED
<1>2. Claim("outcome", o, t) /\ Claim("outcome", p, t)
  BY <1>1 DEF Claim, DocClaim, OutcomesOf
<1>. QED BY <1>2 DEF OnceInv, ClaimInv, Single

\* Without restarts, the claims are single in every state.
LEMMA AlwaysOnce == ASSUME RestartsApart PROVE Spec => [](TypeInv /\ OnceInv)
<1>. DEFINE All == TypeInv /\ ServeInv /\ JoinInv /\ ReportInv /\ OnceInv
<1>1. Init => All
  BY InitType, InitServes, InitReports, InitOnce
<1>2. All /\ [Next]_vars => All'
  BY StepType, StepServes, StepJoin, StepReports, StepOnce
<1>3. All => TypeInv /\ OnceInv
  OBVIOUS
<1>. QED BY <1>1, <1>2, <1>3, PTL DEF Spec

\* A task that is not the target of a route never runs twice at the same time, as long as
\* nobody restarts the job or an outcome: the launcher, the reports that end its upstream
\* tasks, the chains that look for waiting tasks and autoRestart each publish it by a claim
\* that only one of them holds, however their calls interleave.
THEOREM OneRunEach == ASSUME RestartsApart PROVE Spec => [](\A t \in Task \ RouteTargets : OneLiveOf(t))
<1>1. TypeInv /\ OnceInv => \A t \in Task \ RouteTargets : OneLiveOf(t)
  BY OneLiveEach DEF Claimed
<1>. QED BY <1>1, AlwaysOnce, PTL

\* Without routes this is the invariant the runs check, of all tasks.
THEOREM OneLive == ASSUME RestartsApart, RouteTargets = {} PROVE Spec => []OneLiveOutcome
<1>1. TypeInv /\ OnceInv => OneLiveOutcome
  BY OneLiveEach DEF Claimed, OneLiveOf, OneLiveOutcome
<1>. QED BY <1>1, AlwaysOnce, PTL

-----------------------------------------------------------------------------
(***************************************************************************)
(* A job that nobody stops: what its reports have to do with its outcomes  *)
(***************************************************************************)
\* The user leaves the job alone: its tasks fail and agents are missing.
NoStops == Events \subseteq {"fail", "noagent"}

Ended == {SUCCEEDED, FAILED}

\* A report of no end: it is written, and the job's status is brought up to date.
Brief(at, f) ==
    at \in {"put", "finish"} \/ (at \in {"readjob", "outcomes", "tasks", "write"} /\ f.back = "idle")

PlainFrame(at, f) ==
    /\ f.op \in {"none", "start", "report", "waiting"}
    /\ f.new \in {NULL, RUNNING} \cup Ended
    /\ f.op = "report" /\ f.new \notin Ended => Brief(at, f)
    /\ at \notin {"cancelled", "cancelnew"}
    /\ at = "put" => f.new # NULL
    /\ at = "recheck" => f.task \in Task

\* A chain that goes on from the end of a task holds what the outcome says.
Tells(at, f, outs) ==
    f.op = "report" /\ f.new \in Ended /\ at # "put"
        => outs[f.of].status = f.new /\ outs[f.of].route = f.route

NoneCancelled == \A t \in Task : taskStatus[t] # CANCELLED
PlainOutcomes == \A o \in Existing : outcome[o].status \in {PUBLISHED, RUNNING} \cup Ended
MatchesShow == \A u, t \in Task : <<u, t>> \in matched => EndedFor(u, t)
PlainInv ==
    /\ NoneCancelled /\ PlainOutcomes /\ MatchesShow
    /\ \A h \in Handler : PlainFrame(pc[h], frame[h]) /\ Tells(pc[h], frame[h], outcome)

\* An outcome that has ended stays as it is.
EndsKept ==
    \A o \in Existing : /\ outcome'[o].task = outcome[o].task
                        /\ outcome[o].status \in Ended => outcome'[o] = outcome[o]

LEMMA EndedForKept ==
    ASSUME EndsKept, NEW u \in Task, NEW t \in Task, EndedFor(u, t)
    PROVE  EndedFor(u, t)'
<1>1. PICK o \in OutcomesOf(u) : outcome[o].status \in Ended /\ Follows(t, u, outcome[o].route)
  BY DEF EndedFor, Ended
<1>2. o \in Existing /\ outcome[o].task = u /\ o \in Outcome
  BY DEF OutcomesOf, Existing
<1>3. outcome'[o] = outcome[o]
  BY <1>1, <1>2 DEF EndsKept
<1>4. o \in OutcomesOf(u)'
  BY <1>2, <1>3 DEF OutcomesOf, Existing
<1>5. Follows(t, u, outcome[o].route)'
  BY <1>1, <1>3 DEF Follows, Matches
<1>. QED BY <1>1, <1>3, <1>4, <1>5 DEF EndedFor, Ended

LEMMA PlainStep ==
    ASSUME TypeInv, PlainInv, NEW h \in Handler, Others(h), EndsKept,
           PlainFrame(pc'[h], frame'[h]), Tells(pc'[h], frame'[h], outcome'),
           NoneCancelled', PlainOutcomes', MatchesShow'
    PROVE  PlainInv'
<1>1. ASSUME NEW q \in Handler, q # h
      PROVE  PlainFrame(pc'[q], frame'[q]) /\ Tells(pc'[q], frame'[q], outcome')
  <2>1. /\ pc'[q] = pc[q] /\ frame'[q] = frame[q]
        /\ PlainFrame(pc[q], frame[q]) /\ Tells(pc[q], frame[q], outcome)
    BY <1>1 DEF Others, PlainInv
  <2>2. frame[q].op = "report" => frame[q].of \in Existing
    BY ChainFits DEF Fits
  <2>. QED BY <2>1, <2>2 DEF Tells, EndsKept
<1>. QED BY <1>1 DEF PlainInv, PlainFrame, Brief

\* The chain holds no more than it held before.
SaysNoMore(h) ==
    frame'[h].op = "report" /\ frame'[h].new \in Ended /\ pc'[h] # "put" => SameRequest(h) /\ pc[h] # "put"
GoesPlain(h) == PlainFrame(pc'[h], frame'[h]) /\ SaysNoMore(h)

LEMMA PlainSame ==
    ASSUME TypeInv, PlainInv, NEW h \in Handler, Others(h), GoesPlain(h), UNCHANGED <<outcome, matched>>,
           NoneCancelled'
    PROVE  PlainInv'
<1>1. EndsKept
  BY DEF EndsKept
<1>2. Tells(pc'[h], frame'[h], outcome')
  BY DEF GoesPlain, SaysNoMore, Tells, SameRequest, PlainInv
<1>3. PlainOutcomes'
  BY DEF PlainInv, PlainOutcomes, Existing
<1>4. MatchesShow'
  BY <1>1, EndedForKept DEF PlainInv, MatchesShow
<1>. QED BY <1>1, <1>2, <1>3, <1>4, PlainStep DEF GoesPlain

LEMMA PlainKnown ==
    ASSUME TypeInv, ServeInv, PlainInv, NEW h \in Handler
    PROVE  Serves(pc[h], frame[h]) /\ Fits(pc[h], frame[h], Existing) /\ PlainFrame(pc[h], frame[h])
BY ChainFits DEF ServeInv, PlainInv

LEMMA SameTasksPlain == ASSUME PlainInv, UNCHANGED taskStatus PROVE NoneCancelled'
BY DEF PlainInv, NoneCancelled

LEMMA SetTaskPlain ==
    ASSUME TypeInv, PlainInv, NEW t, NEW s, SetTask(t, s), s # CANCELLED
    PROVE  NoneCancelled'
BY DEF SetTask, TypeInv, DocumentsOK, PlainInv, NoneCancelled

LEMMA StatusApart ==
    /\ CANCELLED \notin {NULL, NOT_STARTED, WAITING_FOR_AGENT, PUBLISHED, FAILED, SKIPPED}
    /\ INTERRUPTED \notin {NULL, RUNNING} \cup Ended /\ NULL # RUNNING
    /\ NULL \notin Ended /\ RUNNING \notin Ended /\ PUBLISHED \notin Ended
BY DEF Ended, CANCELLED, NULL, NOT_STARTED, WAITING_FOR_AGENT, PUBLISHED, FAILED, SKIPPED, INTERRUPTED,
   RUNNING,
   SUCCEEDED

LEMMA ReadJobPlain ==
    ASSUME TypeInv, ServeInv, PlainInv, NEW h \in Handler, ReadJob(h) PROVE PlainInv' /\ UNCHANGED outcome
<1>1. Serves(pc[h], frame[h]) /\ PlainFrame(pc[h], frame[h])
  BY PlainKnown
<1>2. GoesPlain(h)
  BY <1>1, ReadJobTurn DEF ReadJob, GoesPlain, SaysNoMore, PlainFrame, Brief, Same, SameRequest, Back
<1>3. UNCHANGED <<outcome, matched>> /\ NoneCancelled'
  BY SameTasksPlain DEF ReadJob, docVars
<1>. QED BY <1>2, <1>3, PlainSame, ReadJobTurn

LEMMA ReadOutcomesPlain ==
    ASSUME TypeInv, ServeInv, PlainInv, NEW h \in Handler, ReadOutcomes(h) PROVE PlainInv' /\ UNCHANGED outcome
<1>1. Serves(pc[h], frame[h]) /\ PlainFrame(pc[h], frame[h])
  BY PlainKnown
<1>2. GoesPlain(h)
  BY <1>1, ReadOutcomesTurn DEF ReadOutcomes, GoesPlain, SaysNoMore, PlainFrame, Brief, Same,
     SameRequest, Back
<1>3. UNCHANGED <<outcome, matched>> /\ NoneCancelled'
  BY SameTasksPlain DEF ReadOutcomes, docVars
<1>. QED BY <1>2, <1>3, PlainSame, ReadOutcomesTurn

LEMMA ReadTasksPlain ==
    ASSUME TypeInv, ServeInv, PlainInv, NEW h \in Handler, ReadTasks(h) PROVE PlainInv' /\ UNCHANGED outcome
<1>1. Serves(pc[h], frame[h]) /\ Fits(pc[h], frame[h], Existing) /\ PlainFrame(pc[h], frame[h])
  BY PlainKnown
<1>2. GoesPlain(h)
  BY <1>1, EmptyFields, StatusApart, ReadTasksTurn DEF ReadTasks, GoesPlain, SaysNoMore, PlainFrame,
     Brief, Goes, Same, SameRequest, Back, Fits, Backs
<1>3. UNCHANGED <<outcome, matched>> /\ NoneCancelled'
  BY SameTasksPlain DEF ReadTasks, docVars
<1>. QED BY <1>2, <1>3, PlainSame, ReadTasksTurn

LEMMA WriteJobPlain ==
    ASSUME TypeInv, ServeInv, PlainInv, NEW h \in Handler, WriteJob(h) PROVE PlainInv' /\ UNCHANGED outcome
<1>1. Serves(pc[h], frame[h]) /\ Fits(pc[h], frame[h], Existing) /\ PlainFrame(pc[h], frame[h])
  BY PlainKnown
<1>2. GoesPlain(h)
  BY <1>1, EmptyFields, StatusApart, WriteJobTurn DEF WriteJob, GoesPlain, SaysNoMore, PlainFrame, Brief,
     Goes, Same, SameRequest, Back, Fits, Backs
<1>3. UNCHANGED <<outcome, matched>> /\ NoneCancelled'
  BY SameTasksPlain DEF WriteJob
<1>. QED BY <1>2, <1>3, PlainSame, WriteJobTurn

LEMMA RereadJobPlain ==
    ASSUME TypeInv, ServeInv, PlainInv, NEW h \in Handler, RereadJob(h) PROVE PlainInv' /\ UNCHANGED outcome
<1>1. Serves(pc[h], frame[h]) /\ Fits(pc[h], frame[h], Existing) /\ PlainFrame(pc[h], frame[h])
  BY PlainKnown
<1>2. GoesPlain(h)
  BY <1>1, EmptyFields, StatusApart, RereadJobTurn DEF RereadJob, GoesPlain, SaysNoMore, PlainFrame,
     Brief, Goes, Same, SameRequest, Back, Fits, Backs
<1>3. UNCHANGED <<outcome, matched>> /\ NoneCancelled'
  BY SameTasksPlain DEF RereadJob, docVars
<1>. QED BY <1>2, <1>3, PlainSame, RereadJobTurn

LEMMA SendToAgentPlain ==
    ASSUME TypeInv, ServeInv, PlainInv, NEW h \in Handler, SendToAgent(h) PROVE PlainInv' /\ UNCHANGED outcome
<1>1. Serves(pc[h], frame[h]) /\ PlainFrame(pc[h], frame[h])
  BY PlainKnown
<1>2. GoesPlain(h)
  BY <1>1, SendToAgentTurn DEF SendToAgent, GoesPlain, SaysNoMore, PlainFrame, Brief, Same, SameRequest, Back
<1>3. UNCHANGED <<outcome, matched>> /\ NoneCancelled'
  BY SameTasksPlain DEF SendToAgent, docVars
<1>. QED BY <1>2, <1>3, PlainSame, SendToAgentTurn

LEMMA PublishedPlain ==
    ASSUME TypeInv, ServeInv, PlainInv, NEW h \in Handler, Published(h) PROVE PlainInv' /\ UNCHANGED outcome
<1>1. Serves(pc[h], frame[h]) /\ Fits(pc[h], frame[h], Existing) /\ PlainFrame(pc[h], frame[h])
  BY PlainKnown
<1>2. GoesPlain(h)
  BY <1>1, EmptyFields, StatusApart, PublishedTurn DEF Published, GoesPlain, SaysNoMore, PlainFrame,
     Brief, SameRequest, Fits, Thens
<1>3. UNCHANGED <<outcome, matched>> /\ NoneCancelled'
  BY SameTasksPlain DEF Published, docVars
<1>. QED BY <1>2, <1>3, PlainSame, PublishedTurn

LEMMA LaunchJobPlain ==
    ASSUME TypeInv, ServeInv, PlainInv, NEW h \in Handler, LaunchJob(h) PROVE PlainInv' /\ UNCHANGED outcome
<1>1. Serves(pc[h], frame[h]) /\ PlainFrame(pc[h], frame[h])
  BY PlainKnown
<1>2. GoesPlain(h)
  BY <1>1, StatusApart, LaunchJobTurn DEF LaunchJob, GoesPlain, SaysNoMore, PlainFrame, Brief, Begins
<1>3. UNCHANGED <<outcome, matched>> /\ NoneCancelled'
  BY SameTasksPlain DEF LaunchJob, docVars
<1>. QED BY <1>2, <1>3, PlainSame, LaunchJobTurn

LEMMA BeginTasksPlain ==
    ASSUME TypeInv, ServeInv, PlainInv, NEW h \in Handler, BeginTasks(h) PROVE PlainInv' /\ UNCHANGED outcome
<1>1. Serves(pc[h], frame[h]) /\ PlainFrame(pc[h], frame[h])
  BY PlainKnown
<1>2. GoesPlain(h)
  BY <1>1, BeginTasksTurn DEF BeginTasks, GoesPlain, SaysNoMore, PlainFrame, Brief, Same, SameRequest
<1>3. UNCHANGED <<outcome, matched>> /\ NoneCancelled'
  BY SameTasksPlain DEF BeginTasks, docVars
<1>. QED BY <1>2, <1>3, PlainSame, BeginTasksTurn

LEMMA SnapshotTasksPlain ==
    ASSUME TypeInv, ServeInv, PlainInv, NEW h \in Handler, SnapshotTasks(h) PROVE PlainInv' /\ UNCHANGED outcome
<1>1. Serves(pc[h], frame[h]) /\ PlainFrame(pc[h], frame[h])
  BY PlainKnown
<1>2. GoesPlain(h)
  BY <1>1, SnapshotTasksTurn DEF SnapshotTasks, GoesPlain, SaysNoMore, PlainFrame, Brief, SameRequest
<1>3. UNCHANGED <<outcome, matched>> /\ NoneCancelled'
  BY SameTasksPlain DEF SnapshotTasks, docVars
<1>. QED BY <1>2, <1>3, PlainSame, SnapshotTasksTurn

LEMMA TasksStartedPlain ==
    ASSUME TypeInv, ServeInv, PlainInv, NEW h \in Handler, TasksStarted(h) PROVE PlainInv' /\ UNCHANGED outcome
<1>1. Serves(pc[h], frame[h]) /\ PlainFrame(pc[h], frame[h])
  BY PlainKnown
<1>2. GoesPlain(h)
  BY <1>1, TasksStartedTurn DEF TasksStarted, GoesPlain, SaysNoMore, PlainFrame, Brief, Same, SameRequest
<1>3. UNCHANGED <<outcome, matched>> /\ NoneCancelled'
  BY SameTasksPlain DEF TasksStarted, docVars
<1>. QED BY <1>2, <1>3, PlainSame, TasksStartedTurn

LEMMA StartEndsPlain ==
    ASSUME TypeInv, ServeInv, PlainInv, NEW h \in Handler, StartEnds(h) PROVE PlainInv' /\ UNCHANGED outcome
<1>1. Serves(pc[h], frame[h]) /\ PlainFrame(pc[h], frame[h])
  BY PlainKnown
<1>2. GoesPlain(h)
  BY <1>1, EmptyFields, StatusApart, StartEndsTurn DEF StartEnds, GoesPlain, SaysNoMore, PlainFrame,
     Brief, Same, SameRequest, Back
<1>3. UNCHANGED <<outcome, matched>> /\ NoneCancelled'
  BY SameTasksPlain DEF StartEnds, docVars
<1>. QED BY <1>2, <1>3, PlainSame, StartEndsTurn

LEMMA AgentReturnsPlain ==
    ASSUME TypeInv, ServeInv, PlainInv, NEW h \in Handler, AgentReturns(h) PROVE PlainInv' /\ UNCHANGED outcome
<1>1. Serves(pc[h], frame[h]) /\ PlainFrame(pc[h], frame[h])
  BY PlainKnown
<1>2. GoesPlain(h)
  BY <1>1, StatusApart, AgentReturnsTurn DEF AgentReturns, GoesPlain, SaysNoMore, PlainFrame, Brief, Begins
<1>3. UNCHANGED <<outcome, matched>> /\ NoneCancelled'
  BY SameTasksPlain DEF AgentReturns, docVars
<1>. QED BY <1>2, <1>3, PlainSame, AgentReturnsTurn

LEMMA ListWaitingTasksPlain ==
    ASSUME TypeInv, ServeInv, PlainInv, NEW h \in Handler, ListWaitingTasks(h) PROVE PlainInv' /\ UNCHANGED outcome
<1>1. Serves(pc[h], frame[h]) /\ PlainFrame(pc[h], frame[h])
  BY PlainKnown
<1>2. GoesPlain(h)
  BY <1>1, ListWaitingTasksTurn DEF ListWaitingTasks, GoesPlain, SaysNoMore, PlainFrame, Brief, SameRequest
<1>3. UNCHANGED <<outcome, matched>> /\ NoneCancelled'
  BY SameTasksPlain DEF ListWaitingTasks, docVars
<1>. QED BY <1>2, <1>3, PlainSame, ListWaitingTasksTurn

LEMMA ExamineWaitingTaskPlain ==
    ASSUME TypeInv, ServeInv, PlainInv, NEW h \in Handler, ExamineWaitingTask(h) PROVE PlainInv' /\ UNCHANGED outcome
<1>1. Serves(pc[h], frame[h]) /\ PlainFrame(pc[h], frame[h])
  BY PlainKnown
<1>2. GoesPlain(h)
  BY <1>1, ExamineWaitingTaskTurn DEF ExamineWaitingTask, GoesPlain, SaysNoMore, PlainFrame, Brief,
     SameRequest
<1>3. UNCHANGED <<outcome, matched>> /\ NoneCancelled'
  BY SameTasksPlain DEF ExamineWaitingTask, docVars
<1>. QED BY <1>2, <1>3, PlainSame, ExamineWaitingTaskTurn

LEMMA WaitingTasksDonePlain ==
    ASSUME TypeInv, ServeInv, PlainInv, NEW h \in Handler, WaitingTasksDone(h) PROVE PlainInv' /\ UNCHANGED outcome
<1>1. Serves(pc[h], frame[h]) /\ PlainFrame(pc[h], frame[h])
  BY PlainKnown
<1>2. GoesPlain(h)
  BY <1>1, EmptyFields, StatusApart, WaitingTasksDoneTurn DEF WaitingTasksDone, GoesPlain, SaysNoMore,
     PlainFrame, Brief, Goes, Same, SameRequest, Back
<1>3. UNCHANGED <<outcome, matched>> /\ NoneCancelled'
  BY SameTasksPlain DEF WaitingTasksDone, docVars
<1>. QED BY <1>2, <1>3, PlainSame, WaitingTasksDoneTurn

LEMMA BeginDownstreamPlain ==
    ASSUME TypeInv, ServeInv, PlainInv, NEW h \in Handler, BeginDownstream(h) PROVE PlainInv' /\ UNCHANGED outcome
<1>1. Serves(pc[h], frame[h]) /\ PlainFrame(pc[h], frame[h])
  BY PlainKnown
<1>2. GoesPlain(h)
  BY <1>1, BeginDownstreamTurn DEF BeginDownstream, GoesPlain, SaysNoMore, PlainFrame, Brief, SameRequest
<1>3. UNCHANGED <<outcome, matched>> /\ NoneCancelled'
  BY SameTasksPlain DEF BeginDownstream, docVars
<1>. QED BY <1>2, <1>3, PlainSame, BeginDownstreamTurn

LEMMA ReadSkippedPlain ==
    ASSUME TypeInv, ServeInv, PlainInv, NEW h \in Handler, ReadSkipped(h) PROVE PlainInv' /\ UNCHANGED outcome
<1>1. Serves(pc[h], frame[h]) /\ PlainFrame(pc[h], frame[h])
  BY PlainKnown
<1>2. GoesPlain(h)
  BY <1>1, ReadSkippedTurn DEF ReadSkipped, GoesPlain, SaysNoMore, PlainFrame, Brief, Same, SameRequest
<1>3. UNCHANGED <<outcome, matched>> /\ NoneCancelled'
  BY SameTasksPlain DEF ReadSkipped, docVars
<1>. QED BY <1>2, <1>3, PlainSame, ReadSkippedTurn

LEMMA DescendEndsPlain ==
    ASSUME TypeInv, ServeInv, PlainInv, NEW h \in Handler, DescendEnds(h) PROVE PlainInv' /\ UNCHANGED outcome
<1>1. Serves(pc[h], frame[h]) /\ PlainFrame(pc[h], frame[h])
  BY PlainKnown
<1>2. GoesPlain(h)
  BY <1>1, DescendEndsTurn DEF DescendEnds, GoesPlain, SaysNoMore, PlainFrame, Brief, Same, SameRequest
<1>3. UNCHANGED <<outcome, matched>> /\ NoneCancelled'
  BY SameTasksPlain DEF DescendEnds, docVars
<1>. QED BY <1>2, <1>3, PlainSame, DescendEndsTurn

LEMMA LaunchRouteTargetPlain ==
    ASSUME TypeInv, ServeInv, PlainInv, NEW h \in Handler, LaunchRouteTarget(h) PROVE PlainInv' /\ UNCHANGED outcome
<1>1. Serves(pc[h], frame[h]) /\ PlainFrame(pc[h], frame[h])
  BY PlainKnown
<1>2. GoesPlain(h)
  BY <1>1, LaunchRouteTargetTurn DEF LaunchRouteTarget, GoesPlain, SaysNoMore, PlainFrame, Brief, SameRequest
<1>3. UNCHANGED <<outcome, matched>> /\ NoneCancelled'
  BY SameTasksPlain DEF LaunchRouteTarget, docVars
<1>. QED BY <1>2, <1>3, PlainSame, LaunchRouteTargetTurn

LEMMA LaunchEndsPlain ==
    ASSUME TypeInv, ServeInv, PlainInv, NEW h \in Handler, LaunchEnds(h) PROVE PlainInv' /\ UNCHANGED outcome
<1>1. Serves(pc[h], frame[h]) /\ PlainFrame(pc[h], frame[h])
  BY PlainKnown
<1>2. GoesPlain(h)
  BY <1>1, LaunchEndsTurn DEF LaunchEnds, GoesPlain, SaysNoMore, PlainFrame, Brief, Same, SameRequest
<1>3. UNCHANGED <<outcome, matched>> /\ NoneCancelled'
  BY SameTasksPlain DEF LaunchEnds, docVars
<1>. QED BY <1>2, <1>3, PlainSame, LaunchEndsTurn

LEMMA FinishReportPlain ==
    ASSUME TypeInv, ServeInv, PlainInv, NEW h \in Handler, FinishReport(h) PROVE PlainInv' /\ UNCHANGED outcome
<1>1. Serves(pc[h], frame[h]) /\ PlainFrame(pc[h], frame[h])
  BY PlainKnown
<1>2. GoesPlain(h)
  BY <1>1, StatusApart, FinishReportTurn DEF FinishReport, GoesPlain, SaysNoMore, PlainFrame, Brief, Back
<1>3. UNCHANGED <<outcome, matched>> /\ NoneCancelled'
  BY SameTasksPlain DEF FinishReport, docVars
<1>. QED BY <1>2, <1>3, PlainSame, FinishReportTurn

LEMMA RouteToAgentPlain ==
    ASSUME TypeInv, ServeInv, PlainInv, NEW h \in Handler, RouteToAgent(h) PROVE PlainInv' /\ UNCHANGED outcome
<1>1. Serves(pc[h], frame[h]) /\ PlainFrame(pc[h], frame[h])
  BY PlainKnown
<1>2. GoesPlain(h)
  BY <1>1, RouteToAgentTurn DEF RouteToAgent, GoesPlain, SaysNoMore, PlainFrame, Brief, Same, SameRequest
<1>3. UNCHANGED <<outcome, matched>> /\ NoneCancelled'
  BY StatusApart, SetTaskPlain, SameTasksPlain DEF RouteToAgent
<1>. QED BY <1>2, <1>3, PlainSame, RouteToAgentTurn

LEMMA RouteFailsPlain ==
    ASSUME TypeInv, ServeInv, PlainInv, NEW h \in Handler, RouteFails(h) PROVE PlainInv' /\ UNCHANGED outcome
<1>1. Serves(pc[h], frame[h]) /\ PlainFrame(pc[h], frame[h])
  BY PlainKnown
<1>2. GoesPlain(h)
  BY <1>1, RouteFailsTurn DEF RouteFails, GoesPlain, SaysNoMore, PlainFrame, Brief, Same, SameRequest, Back
<1>3. UNCHANGED <<outcome, matched>> /\ NoneCancelled'
  BY StatusApart, SetTaskPlain, SameTasksPlain DEF RouteFails
<1>. QED BY <1>2, <1>3, PlainSame, RouteFailsTurn

LEMMA StartTaskPlain ==
    ASSUME TypeInv, ServeInv, PlainInv, NEW h \in Handler, StartTask(h) PROVE PlainInv' /\ UNCHANGED outcome
<1>1. Serves(pc[h], frame[h]) /\ PlainFrame(pc[h], frame[h])
  BY PlainKnown
<1>2. GoesPlain(h)
  BY <1>1, StartTaskTurn DEF StartTask, GoesPlain, SaysNoMore, PlainFrame, Brief, SameRequest
<1>3. UNCHANGED <<outcome, matched>> /\ NoneCancelled'
  BY StatusApart, SetTaskPlain, SameTasksPlain DEF StartTask
<1>. QED BY <1>2, <1>3, PlainSame, StartTaskTurn

LEMMA TakeWaitingTaskPlain ==
    ASSUME TypeInv, ServeInv, PlainInv, NEW h \in Handler, TakeWaitingTask(h) PROVE PlainInv' /\ UNCHANGED outcome
<1>1. Serves(pc[h], frame[h]) /\ PlainFrame(pc[h], frame[h])
  BY PlainKnown
<1>2. GoesPlain(h)
  BY <1>1, EmptyFields, StatusApart, TakeWaitingTaskTurn DEF TakeWaitingTask, GoesPlain, SaysNoMore,
     PlainFrame, Brief, SameRequest
<1>3. UNCHANGED <<outcome, matched>> /\ NoneCancelled'
  BY StatusApart, SetTaskPlain, SameTasksPlain DEF TakeWaitingTask
<1>. QED BY <1>2, <1>3, PlainSame, TakeWaitingTaskTurn

LEMMA WriteSkippedPlain ==
    ASSUME TypeInv, ServeInv, PlainInv, NEW h \in Handler, WriteSkipped(h) PROVE PlainInv' /\ UNCHANGED outcome
<1>1. Serves(pc[h], frame[h]) /\ PlainFrame(pc[h], frame[h])
  BY PlainKnown
<1>2. GoesPlain(h)
  BY <1>1, WriteSkippedTurn DEF WriteSkipped, GoesPlain, SaysNoMore, PlainFrame, Brief, Same, SameRequest
<1>3. UNCHANGED <<outcome, matched>> /\ NoneCancelled'
  BY StatusApart, SetTaskPlain, SameTasksPlain DEF WriteSkipped
<1>. QED BY <1>2, <1>3, PlainSame, WriteSkippedTurn

LEMMA LaunchDownstreamTaskPlain ==
    ASSUME TypeInv, ServeInv, PlainInv, NEW h \in Handler, LaunchDownstreamTask(h) PROVE PlainInv' /\ UNCHANGED outcome
<1>1. Serves(pc[h], frame[h]) /\ PlainFrame(pc[h], frame[h])
  BY PlainKnown
<1>2. GoesPlain(h)
  BY <1>1, LaunchDownstreamTaskTurn DEF LaunchDownstreamTask, GoesPlain, SaysNoMore, PlainFrame, Brief,
     SameRequest
<1>3. UNCHANGED <<outcome, matched>> /\ NoneCancelled'
  BY StatusApart, SetTaskPlain, SameTasksPlain DEF LaunchDownstreamTask
<1>. QED BY <1>2, <1>3, PlainSame, LaunchDownstreamTaskTurn

LEMMA RepublishTaskPlain ==
    ASSUME TypeInv, ServeInv, PlainInv, NEW h \in Handler, RepublishTask(h) PROVE PlainInv' /\ UNCHANGED outcome
<1>1. Serves(pc[h], frame[h]) /\ PlainFrame(pc[h], frame[h])
  BY PlainKnown
<1>2. GoesPlain(h)
  BY <1>1, RepublishTaskTurn DEF RepublishTask, GoesPlain, SaysNoMore, PlainFrame, Brief, SameRequest
<1>3. UNCHANGED <<outcome, matched>> /\ NoneCancelled'
  BY StatusApart, SetTaskPlain, SameTasksPlain DEF RepublishTask
<1>. QED BY <1>2, <1>3, PlainSame, RepublishTaskTurn

\* The rest of them: nobody looks at a task that was cancelled.
LEMMA RecheckTaskPlain ==
    ASSUME TypeInv, ServeInv, PlainInv, NEW h \in Handler, RecheckTask(h) PROVE PlainInv' /\ UNCHANGED outcome
<1>1. /\ Serves(pc[h], frame[h]) /\ Fits(pc[h], frame[h], Existing) /\ PlainFrame(pc[h], frame[h])
      /\ pc[h] = "recheck"
  BY PlainKnown DEF RecheckTask
<1>2. pc'[h] = "readjob"
  <2>1. frame[h].task \in Task
    BY <1>1 DEF PlainFrame
  <2>2. taskStatus[frame[h].task] # CANCELLED
    BY <2>1 DEF PlainInv, NoneCancelled
  <2>3. Go(h, "readjob", [frame[h] EXCEPT !.back = "send"])
    BY <2>2 DEF RecheckTask, UpdateJobStatus
  <2>. QED BY <2>3 DEF Go, TypeInv, FramesOK
<1>3. GoesPlain(h)
  BY <1>1, <1>2, RecheckTaskTurn DEF GoesPlain, SaysNoMore, PlainFrame, Brief, Same, SameRequest,
     SameTask, Back
<1>4. UNCHANGED <<outcome, matched>> /\ NoneCancelled'
  BY SameTasksPlain DEF RecheckTask, docVars
<1>. QED BY <1>3, <1>4, PlainSame, RecheckTaskTurn

LEMMA AfterDownstreamPlain ==
    ASSUME TypeInv, ServeInv, PlainInv, NEW h \in Handler, AfterDownstream(h) PROVE PlainInv' /\ UNCHANGED outcome
<1>1. Serves(pc[h], frame[h]) /\ Fits(pc[h], frame[h], Existing) /\ PlainFrame(pc[h], frame[h])
  BY PlainKnown
<1>2. frame[h].new # INTERRUPTED
  BY <1>1, StatusApart DEF PlainFrame
<1>3. GoesPlain(h)
  BY <1>1, AfterDownstreamTurn DEF AfterDownstream, Fits, ReportSteps, GoesPlain, SaysNoMore, PlainFrame,
     Brief,
     Same, SameRequest, SameTask, Back
<1>4. UNCHANGED <<outcome, matched>> /\ NoneCancelled'
  BY <1>2, SameTasksPlain DEF AfterDownstream
<1>. QED BY <1>3, <1>4, PlainSame, AfterDownstreamTurn

\* Without a request to stop an outcome no agent reports an interruption.
LEMMA ReportArrivesPlain ==
    ASSUME TypeInv, ServeInv, PlainInv, NEW h \in Handler, ReportArrives(h) PROVE PlainInv' /\ UNCHANGED outcome
<1>1. PICK o \in Existing : \E r \in Report(o) :
        \/ pc'[h] = "idle" /\ frame'[h] = EmptyFrame
        \/ pc'[h] = "put" /\ Begins(h, "report") /\ frame'[h].new = r[1]
  BY ReportArrivesTurn
<1>2. ~StopRequested(o)
  BY DEF PlainInv, PlainOutcomes, StopRequested, Ended, PUBLISHED, RUNNING, SUCCEEDED, FAILED, INTERRUPTING,
     CANCELING, CANCELLED
<1>3. \A r \in Report(o) : r[1] \in {RUNNING} \cup Ended
  <2>. SUFFICES ASSUME NEW r \in Report(o) PROVE r[1] \in {RUNNING} \cup Ended
    OBVIOUS
  <2>1. CASE agent[o] = "queued"
    <3>1. r = <<RUNNING, "">>
      BY <2>1 DEF Report
    <3>. QED BY <3>1
  <2>2. CASE agent[o] # "queued"
    <3>1. r = <<FAILED, "fail">> \/ \E p \in UserRoutes : r = <<SUCCEEDED, p>>
      BY <1>2, <2>2 DEF Report
    <3>. QED BY <3>1 DEF Ended
  <2>. QED BY <2>1, <2>2
<1>4. UNCHANGED <<outcome, matched>> /\ NoneCancelled'
  BY SameTasksPlain DEF ReportArrives, docVars
<1>5. CASE pc'[h] = "idle" /\ frame'[h] = EmptyFrame
  <2>1. GoesPlain(h)
    BY <1>5, EmptyFields DEF GoesPlain, SaysNoMore, PlainFrame
  <2>. QED BY <2>1, <1>4, PlainSame, ReportArrivesTurn
<1>6. CASE pc'[h] = "put" /\ Begins(h, "report") /\ frame'[h].new \in {RUNNING} \cup Ended
  <2>1. GoesPlain(h)
    BY <1>6, StatusApart DEF GoesPlain, SaysNoMore, PlainFrame, Brief, Begins
  <2>. QED BY <2>1, <1>4, PlainSame, ReportArrivesTurn
<1>. QED BY <1>1, <1>3, <1>5, <1>6

\* A task's end is noted for a downstream task: the outcome shows it.
LEMMA DescendPlain ==
    ASSUME TypeInv, ServeInv, PlainInv, NEW h \in Handler, Descend(h) PROVE PlainInv' /\ UNCHANGED outcome
<1>0. PICK o, u : o = frame[h].of /\ u = outcome[o].task
  OBVIOUS
<1>1. /\ Serves(pc[h], frame[h]) /\ Fits(pc[h], frame[h], Existing) /\ PlainFrame(pc[h], frame[h])
      /\ pc[h] = "downing"
  BY PlainKnown DEF Descend
<1>2. /\ Others(h) /\ pc'[h] \in {"downing", "skipread"} /\ SameRequest(h) /\ SameTask(h)
      /\ UNCHANGED <<taskStatus, outcome>>
  BY DescendTurn DEF Descend
<1>3. frame[h].op = "report" /\ frame[h].new \in Ended /\ o \in Existing /\ u \in Task
  BY <1>0, <1>1 DEF Fits, ReportSteps, PlainFrame, Brief, TypeInv, DocumentsOK, Existing
<1>4. outcome[o].status \in Ended /\ outcome[o].route = frame[h].route
  BY <1>0, <1>1, <1>3 DEF PlainInv, Tells
<1>5. GoesPlain(h)
  BY <1>1, <1>2, <1>3 DEF GoesPlain, SaysNoMore, PlainFrame, SameRequest
<1>6. EndsKept
  BY <1>2 DEF EndsKept
<1>7. MatchesShow'
  <2>. SUFFICES ASSUME NEW v \in Task, NEW t \in Task, <<v, t>> \in matched' PROVE EndedFor(v, t)'
    BY DEF MatchesShow
  <2>1. CASE <<v, t>> \in matched
    BY <1>6, <2>1, EndedForKept DEF PlainInv, MatchesShow
  <2>2. CASE <<v, t>> \notin matched
    <3>1. v = u /\ Follows(t, u, frame[h].route)
      BY <1>0, <2>2, DescendTurn
    <3>2. EndedFor(u, t)
      BY <1>0, <1>3, <1>4, <3>1 DEF EndedFor, OutcomesOf, Ended
    <3>. QED BY <1>6, <1>3, <3>1, <3>2, EndedForKept
  <2>. QED BY <2>1, <2>2
<1>8. Tells(pc'[h], frame'[h], outcome')
  <2>1. frame'[h].of = o /\ frame'[h].new = frame[h].new /\ frame'[h].route = frame[h].route /\ outcome' = outcome
    BY <1>0, <1>2 DEF SameRequest
  <2>2. outcome[o].status = frame[h].new
    BY <1>0, <1>1, <1>3 DEF PlainInv, Tells
  <2>. QED BY <1>4, <2>1, <2>2 DEF Tells
<1>9. NoneCancelled' /\ PlainOutcomes'
  BY <1>2, SameTasksPlain DEF PlainInv, PlainOutcomes, Existing
<1>. QED BY <1>2, <1>5, <1>6, <1>7, <1>8, <1>9, PlainStep DEF GoesPlain

\* The report is written to an outcome that has not ended.
LEMMA PutReportWrites ==
    ASSUME TypeInv, ServeInv, ReportInv, PlainInv, NEW h \in Handler, PutReport(h), NEW o, o = frame[h].of
    PROVE  /\ o \in Existing /\ outcome[o].status \in {PUBLISHED, RUNNING}
           /\ Existing' = Existing /\ UNCHANGED matched
           /\ \A p \in Outcome : outcome'[p].task = outcome[p].task /\ (p # o => outcome'[p] = outcome[p])
           /\ outcome'[o].status = frame[h].new /\ outcome'[o].route = frame[h].route
           /\ frame[h].new \in {RUNNING} \cup Ended
<1>1. /\ Fits(pc[h], frame[h], Existing) /\ PlainFrame(pc[h], frame[h]) /\ pc[h] = "put"
  BY PlainKnown DEF PutReport
<1>2. o \in Existing /\ Reports(h) /\ frame[h].new \in {RUNNING} \cup Ended
  BY <1>1 DEF Fits, ReportSteps, PlainFrame, Reports
<1>3. outcome[o].status \notin Over
  BY <1>1, <1>2 DEF ReportInv, Sound
<1>4. outcome[o].status \in {PUBLISHED, RUNNING}
  BY <1>2, <1>3 DEF PlainInv, PlainOutcomes, Ended, Over
<1>5. outcome' = [outcome EXCEPT ![o].status = frame[h].new, ![o].route = frame[h].route] /\ UNCHANGED matched
  BY DEF PutReport
<1>6. /\ \A p \in Outcome : outcome'[p].task = outcome[p].task /\ (p # o => outcome'[p] = outcome[p])
      /\ outcome'[o].status = frame[h].new /\ outcome'[o].route = frame[h].route
  BY <1>2, <1>5 DEF TypeInv, DocumentsOK, Existing
<1>7. Existing' = Existing
  BY <1>6 DEF Existing
<1>. QED BY <1>2, <1>4, <1>5, <1>6, <1>7

LEMMA PutReportPlain ==
    ASSUME TypeInv, ServeInv, ReportInv, PlainInv, NEW h \in Handler, PutReport(h) PROVE PlainInv'
<1>0. PICK o : o = frame[h].of
  OBVIOUS
<1>1. /\ o \in Existing /\ outcome[o].status \in {PUBLISHED, RUNNING}
      /\ Existing' = Existing /\ UNCHANGED matched
      /\ \A p \in Outcome : outcome'[p].task = outcome[p].task /\ (p # o => outcome'[p] = outcome[p])
      /\ outcome'[o].status = frame[h].new /\ outcome'[o].route = frame[h].route
      /\ frame[h].new \in {RUNNING} \cup Ended
  BY <1>0, PutReportWrites
<1>2. /\ PlainFrame(pc[h], frame[h]) /\ pc[h] = "put" /\ Others(h) /\ SameRequest(h) /\ SameTask(h)
      /\ pc'[h] \in {"finish", "readjob"}
  BY PlainKnown, StatusApart, PutReportTurn DEF PutReport, PlainFrame, Same
<1>3. frame[h].new \notin Ended => pc'[h] = "finish"
  <2>. SUFFICES ASSUME frame[h].new = RUNNING PROVE pc'[h] = "finish"
    BY <1>1
  <2>1. Go(h, "finish", [frame[h] EXCEPT !.local = NULL])
    BY DEF PutReport, RUNNING, SUCCEEDED, INTERRUPTED
  <2>. QED BY <2>1 DEF Go, TypeInv, FramesOK
<1>4. PlainFrame(pc'[h], frame'[h])
  BY <1>2, <1>3 DEF PlainFrame, Brief, SameRequest
<1>5. Tells(pc'[h], frame'[h], outcome')
  BY <1>0, <1>1, <1>2 DEF Tells, SameRequest
<1>6. EndsKept
  BY <1>1, StatusApart DEF EndsKept, Existing
<1>7. NoneCancelled'
  BY SameTasksPlain DEF PutReport
<1>8. PlainOutcomes'
  BY <1>1 DEF PlainInv, PlainOutcomes, Existing
<1>9. MatchesShow'
  BY <1>1, <1>6, EndedForKept DEF PlainInv, MatchesShow
<1>. QED BY <1>2, <1>4, <1>5, <1>6, <1>7, <1>8, <1>9, PlainStep

LEMMA CreateTaskOutcomeWrites ==
    ASSUME TypeInv, NEW h \in Handler, CreateTaskOutcome(h)
    PROVE  /\ frame[h].task \in Task /\ UNCHANGED <<taskStatus, matched>>
           /\ \E o \in Unused :
                /\ Existing' = Existing \cup {o} /\ \A p \in Existing : outcome'[p] = outcome[p]
                /\ outcome'[o].task = frame[h].task /\ outcome'[o].status = PUBLISHED
<1>1. frame[h].task \in Task
  BY ChainFits DEF CreateTaskOutcome, Fits
<1>2. PICK o \in Unused :
        outcome' = [outcome EXCEPT ![o] = [task |-> frame[h].task, status |-> PUBLISHED, route |-> ""]]
  BY CreateTaskOutcomeTurn
<1>3. /\ \A p \in Outcome : p # o => outcome'[p] = outcome[p]
      /\ outcome'[o].task = frame[h].task /\ outcome'[o].status = PUBLISHED
  BY <1>2 DEF TypeInv, DocumentsOK, Unused
<1>4. Existing' = Existing \cup {o} /\ o \notin Existing
  <2>1. o \in Outcome /\ o \notin Existing
    BY DEF Unused
  <2>2. outcome'[o].task # NoTask
    BY <1>1, <1>3 DEF NoTask
  <2>3. \A p \in Outcome : p # o => outcome'[p].task = outcome[p].task
    BY <1>3
  <2>. QED BY <2>1, <2>2, <2>3 DEF Existing
<1>5. \A p \in Existing : outcome'[p] = outcome[p]
  BY <1>3, <1>4 DEF Existing
<1>. QED BY <1>1, <1>3, <1>4, <1>5 DEF CreateTaskOutcome

LEMMA CreateTaskOutcomePlain ==
    ASSUME TypeInv, ServeInv, PlainInv, NEW h \in Handler, CreateTaskOutcome(h) PROVE PlainInv'
<1>1. PICK o \in Unused :
        /\ Existing' = Existing \cup {o} /\ \A p \in Existing : outcome'[p] = outcome[p]
        /\ outcome'[o].task = frame[h].task /\ outcome'[o].status = PUBLISHED
  BY CreateTaskOutcomeWrites
<1>2. frame[h].task \in Task /\ UNCHANGED <<taskStatus, matched>>
  BY CreateTaskOutcomeWrites
<1>3. /\ Fits(pc[h], frame[h], Existing) /\ PlainFrame(pc[h], frame[h]) /\ pc[h] = "save" /\ pc'[h] = "recheck"
      /\ Others(h) /\ SameRequest(h) /\ frame'[h].task = frame[h].task
  BY PlainKnown, CreateTaskOutcomeTurn DEF CreateTaskOutcome
<1>4. PlainFrame(pc'[h], frame'[h])
  BY <1>2, <1>3 DEF PlainFrame, Brief, SameRequest
<1>5. EndsKept
  BY <1>1 DEF EndsKept
<1>6. Tells(pc'[h], frame'[h], outcome')
  <2>1. frame[h].op = "report" => frame[h].of \in Existing
    BY <1>3 DEF Fits
  <2>. QED BY <1>1, <1>3, <2>1 DEF Tells, SameRequest, PlainInv
<1>7. NoneCancelled' /\ PlainOutcomes'
  BY <1>1, <1>2, SameTasksPlain DEF PlainInv, PlainOutcomes
<1>8. MatchesShow'
  BY <1>2, <1>5, EndedForKept DEF PlainInv, MatchesShow
<1>. QED BY <1>3, <1>4, <1>5, <1>6, <1>7, <1>8, PlainStep

-----------------------------------------------------------------------------
(***************************************************************************)
(* The job runs as DagRun says                                             *)
(***************************************************************************)
\* No action stops or restarts anything.
LEMMA NoStopStep ==
    ASSUME NoStops, TypeInv, ServeInv, PlainInv, NEW h \in Handler
    PROVE  ~CancelNewOutcome(h) /\ ~PutCancelled(h) /\ ~ActionStep(h) /\ ~UserRequest(h)
<1>1. Serves(pc[h], frame[h]) /\ PlainFrame(pc[h], frame[h])
  BY PlainKnown
<1>2. ~CancelNewOutcome(h) /\ ~PutCancelled(h)
  BY <1>1 DEF CancelNewOutcome, PutCancelled, PlainFrame
<1>3. pc[h] \notin {"restartlist", "restarting", "reset", "canceltasks", "interrupttasks", "stoptasks", "stopping"}
  BY <1>1 DEF Serves, PlainFrame
<1>4. ~ActionStep(h)
  BY <1>3 DEF ActionStep, ListTasksToStop, StopTask, ListOutcomesToStop, StopNextOutcome, JobStopped,
     ListOutcomesToRestart, RestartOutcome, ResetTask, OutcomesRestarted
<1>5. ~UserRequest(h)
  BY DEF NoStops, UserRequest, RestartJob, CancelJob, InterruptJob, JobAction, StopTaskOutcome,
     RestartTaskOutcome
<1>. QED BY <1>2, <1>4, <1>5

LEMMA StepPlain ==
    ASSUME NoStops, TypeInv, ServeInv, ReportInv, PlainInv, NEW h \in Handler,
           Step(h) \/ LaunchJob(h) \/ ReportArrives(h) \/ AgentReturns(h) \/ UserRequest(h)
    PROVE  PlainInv' /\ (UNCHANGED outcome \/ PutReport(h) \/ CreateTaskOutcome(h))
<1>1. CASE UpdateStep(h)
  BY <1>1, ReadJobPlain, ReadOutcomesPlain, ReadTasksPlain, WriteJobPlain, RereadJobPlain DEF UpdateStep
<1>2. CASE PublishStep(h)
  BY <1>2, NoStopStep, RouteToAgentPlain, RouteFailsPlain, CreateTaskOutcomePlain, RecheckTaskPlain,
     SendToAgentPlain,
     PublishedPlain
     DEF PublishStep
<1>3. CASE StartStep(h)
  BY <1>3, BeginTasksPlain, SnapshotTasksPlain, StartTaskPlain, TasksStartedPlain,
     StartEndsPlain DEF StartStep
<1>4. CASE ReportStep(h)
  BY <1>4, NoStopStep, PutReportPlain, ListWaitingTasksPlain, ExamineWaitingTaskPlain, TakeWaitingTaskPlain,
     WaitingTasksDonePlain, BeginDownstreamPlain, DescendPlain, ReadSkippedPlain, WriteSkippedPlain,
     DescendEndsPlain,
     LaunchRouteTargetPlain, LaunchDownstreamTaskPlain, LaunchEndsPlain, AfterDownstreamPlain,
     RepublishTaskPlain,
     FinishReportPlain
     DEF ReportStep
<1>5. CASE LaunchJob(h) \/ ReportArrives(h) \/ AgentReturns(h)
  BY <1>5, LaunchJobPlain, ReportArrivesPlain, AgentReturnsPlain
<1>. QED BY <1>1, <1>2, <1>3, <1>4, <1>5, NoStopStep DEF Step

LEMMA InitPlain == Init => PlainInv
<1>. SUFFICES ASSUME Init PROVE PlainInv
  OBVIOUS
<1>1. Existing = {} /\ matched = {} /\ \A t \in Task : taskStatus[t] = NULL
  BY DEF Init, Existing, NoDocument
<1>2. NoneCancelled /\ PlainOutcomes /\ MatchesShow
  BY <1>1, StatusApart DEF NoneCancelled, PlainOutcomes, MatchesShow
<1>3. \A h \in Handler : pc[h] = "idle" /\ frame[h] = EmptyFrame
  BY DEF Init
<1>4. \A h \in Handler : PlainFrame(pc[h], frame[h]) /\ Tells(pc[h], frame[h], outcome)
  BY <1>3, EmptyFields DEF PlainFrame, Tells
<1>. QED BY <1>2, <1>4 DEF PlainInv

\* What the two steps that write outcomes do to the abstract state: the phase of one task
\* goes on, or none.
LEMMA PhaseIs == ASSUME NEW t \in Task PROVE phase[t] = PhaseOf(t)
BY DEF phase

LEMMA PhaseNext ==
    ASSUME NEW t \in Task, NEW p, PhaseOf(t)' = p, \A u \in Task : u # t => PhaseOf(u)' = PhaseOf(u)
    PROVE  phase' = [phase EXCEPT ![t] = p]
BY DEF phase

LEMMA PassedIs == \A u, t \in Task : <<u, t>> \in passed <=> EndedFor(u, t)
BY DEF passed

\* The outcomes of a task other than the one that is written.
LEMMA OthersKeep ==
    ASSUME NEW u, NEW t, OutcomesOf(u)' = OutcomesOf(u), \A o \in OutcomesOf(u) : outcome'[o] = outcome[o]
    PROVE  PhaseOf(u)' = PhaseOf(u) /\ (EndedFor(u, t)' <=> EndedFor(u, t))
BY DEF PhaseOf, EndedFor, Follows, Matches

LEMMA OneOutcome ==
    ASSUME OnceInv, PlainInv, RouteTargets = {}, NEW t \in Task, NEW o \in OutcomesOf(t)
    PROVE  OutcomesOf(t) = {o}
<1>1. Single(t)
  BY DEF OnceInv, ClaimInv, Claimed
<1>2. \A p \in OutcomesOf(t) : Claim("outcome", p, t)
  BY DEF OutcomesOf, PlainInv, PlainOutcomes, Claim, DocClaim, Ended, PUBLISHED, RUNNING, SUCCEEDED,
     FAILED, CANCELLED
<1>. QED BY <1>1, <1>2 DEF Single

\* A task is published once: its outcome is its first.
LEMMA LaunchesFirst ==
    ASSUME TypeInv, ServeInv, JoinInv, OnceInv, PlainInv, RouteTargets = {}, NEW h \in Handler, CreateTaskOutcome(h)
    PROVE  Dag!Launch(frame[h].task)
<1>0. PICK t : t = frame[h].task
  OBVIOUS
<1>1. t \in Task /\ UNCHANGED matched
  BY <1>0, CreateTaskOutcomeWrites
<1>2. PICK o \in Unused :
        /\ Existing' = Existing \cup {o} /\ \A p \in Existing : outcome'[p] = outcome[p]
        /\ outcome'[o].task = t /\ outcome'[o].status = PUBLISHED
  BY <1>0, CreateTaskOutcomeWrites
<1>3. /\ outcome'[o].task = t /\ outcome'[o].status = PUBLISHED /\ o \notin Existing
  BY <1>2 DEF Unused
<1>4. OutcomesOf(t) = {}
  <2>. SUFFICES ASSUME NEW p \in OutcomesOf(t) PROVE FALSE
    OBVIOUS
  <2>1. Claim("outcome", p, t)
    BY DEF OutcomesOf, PlainInv, PlainOutcomes, Claim, DocClaim, Ended, PUBLISHED, RUNNING, SUCCEEDED,
       FAILED, CANCELLED
  <2>2. Claim("publish", h, t)
    BY <1>0 DEF CreateTaskOutcome, Claim, Carried
  <2>. QED BY <1>1, <2>1, <2>2 DEF OnceInv, ClaimInv, Claimed, Single
<1>5. OutcomesOf(t)' = {o}
  BY <1>2, <1>3, <1>4 DEF OutcomesOf
<1>6. \A u \in Task : u # t => OutcomesOf(u)' = OutcomesOf(u) /\ \A p \in OutcomesOf(u) : outcome'[p] = outcome[p]
  BY <1>2, <1>3 DEF OutcomesOf
<1>7. phase' = [phase EXCEPT ![t] = "running"]
  <2>1. PhaseOf(t)' = "running"
    BY <1>3, <1>5 DEF PhaseOf, PUBLISHED, SUCCEEDED
  <2>2. \A u \in Task : u # t => PhaseOf(u)' = PhaseOf(u)
    BY <1>6, OthersKeep
  <2>. QED BY <1>1, <2>1, <2>2, PhaseNext
<1>8. phase[t] = "waiting"
  BY <1>1, <1>4, PhaseIs DEF PhaseOf
<1>9. passed' = passed
  <2>1. \A u \in Task : \A d : u # t => (EndedFor(u, d)' <=> EndedFor(u, d))
    BY <1>6, OthersKeep
  <2>2. \A d : ~EndedFor(t, d) /\ ~EndedFor(t, d)'
    BY <1>3, <1>4, <1>5 DEF EndedFor, PUBLISHED, SUCCEEDED, FAILED
  <2>3. \A u, d \in Task : EndedFor(u, d)' <=> EndedFor(u, d)
    BY <2>1, <2>2
  <2>. QED BY <2>3 DEF passed
<1>10. Dag!Ready(t)
  <2>1. upDep[t] = {}
    <3>1. Ready(frame[h]) /\ t # NoTask
      BY <1>1 DEF JoinInv, NoTask
    <3>. QED BY <1>0, <3>1 DEF Ready, Free
  <2>2. \A u \in Upstream(t) : <<u, t>> \in matched
    BY <1>1, <2>1 DEF JoinInv
  <2>3. \A u \in Task : <<t, u>> \in Waits => u \in Upstream(t)
    BY DEF Waits, Upstream
  <2>4. \A u \in Task : <<t, u>> \in Waits => EndedFor(u, t)
    BY <1>1, <2>2, <2>3 DEF PlainInv, MatchesShow
  <2>. QED BY <1>1, <2>4, PassedIs DEF Dag!Ready
<1>. QED BY <1>0, <1>7, <1>8, <1>9, <1>10 DEF Dag!Launch

\* A report is the end of a running task, or says that it runs.
LEMMA ReportEnds ==
    ASSUME TypeInv, ServeInv, ReportInv, OnceInv, PlainInv, RouteTargets = {}, NEW h \in Handler, PutReport(h)
    PROVE  UNCHANGED <<phase, passed>> \/ \E u \in Task : Dag!End(u)
<1>0. PICK o : o = frame[h].of
  OBVIOUS
<1>1. /\ o \in Existing /\ outcome[o].status \in {PUBLISHED, RUNNING}
      /\ Existing' = Existing /\ UNCHANGED matched
      /\ \A p \in Outcome : outcome'[p].task = outcome[p].task /\ (p # o => outcome'[p] = outcome[p])
      /\ outcome'[o].status = frame[h].new /\ outcome'[o].route = frame[h].route
      /\ frame[h].new \in {RUNNING} \cup Ended
  BY <1>0, PutReportWrites
<1>2. PICK u : u = outcome[o].task
  OBVIOUS
<1>3. u \in Task /\ o \in OutcomesOf(u)
  BY <1>1, <1>2 DEF OutcomesOf, TypeInv, DocumentsOK, Existing
<1>4. OutcomesOf(u) = {o}
  BY <1>3, OneOutcome
<1>5. \A v : OutcomesOf(v)' = OutcomesOf(v)
  BY <1>1 DEF OutcomesOf, Existing
<1>6. \A v \in Task : v # u => \A p \in OutcomesOf(v) : outcome'[p] = outcome[p]
  BY <1>1, <1>2 DEF OutcomesOf, Existing
<1>7. /\ \A v \in Task : v # u => PhaseOf(v)' = PhaseOf(v)
      /\ \A v \in Task : \A d : v # u => (EndedFor(v, d)' <=> EndedFor(v, d))
  BY <1>5, <1>6, OthersKeep
<1>8. PhaseOf(u) = "running" /\ phase[u] = "running"
  <2>1. outcome[o].status < SUCCEEDED
    BY <1>1 DEF PUBLISHED, RUNNING, SUCCEEDED
  <2>. QED BY <1>3, <1>4, <2>1, PhaseIs DEF PhaseOf
<1>9. \A d : ~EndedFor(u, d)
  BY <1>1, <1>4 DEF EndedFor, PUBLISHED, RUNNING, SUCCEEDED, FAILED
<1>10. CASE frame[h].new = RUNNING
  <2>1. PhaseOf(u)' = "running"
    BY <1>1, <1>4, <1>5, <1>10 DEF PhaseOf, RUNNING, SUCCEEDED
  <2>2. \A d : ~EndedFor(u, d)'
    BY <1>1, <1>4, <1>5, <1>10 DEF EndedFor, RUNNING, SUCCEEDED, FAILED
  <2>3. \A v \in Task : PhaseOf(v)' = PhaseOf(v)
    BY <1>7, <1>8, <2>1
  <2>4. \A v, d \in Task : EndedFor(v, d)' <=> EndedFor(v, d)
    BY <1>7, <1>9, <2>2
  <2>. QED BY <2>3, <2>4 DEF phase, passed
<1>11. CASE frame[h].new \in Ended
  <2>1. PhaseOf(u)' = "ended"
    BY <1>1, <1>4, <1>5, <1>11 DEF PhaseOf, Ended, SUCCEEDED, FAILED
  <2>2. phase' = [phase EXCEPT ![u] = "ended"]
    BY <1>3, <1>7, <2>1, PhaseNext
  <2>3. PICK S : S = {t \in Task : EndedFor(u, t)'}
    OBVIOUS
  <2>4. S \subseteq {t \in Task : <<t, u>> \in Waits}
    <3>1. \A t : EndedFor(u, t)' => <<t, u>> \in Waits
      BY DEF EndedFor, Follows, Waits
    <3>. QED BY <2>3, <3>1
  <2>5. passed' = passed \cup ({u} \X S)
    <3>1. \A v, t \in Task : EndedFor(v, t)' <=> EndedFor(v, t) \/ (v = u /\ t \in S)
      BY <1>3, <1>7, <1>9, <2>3
    <3>. QED BY <1>3, <2>4, <3>1 DEF passed
  <2>. QED BY <1>3, <1>8, <2>2, <2>4, <2>5 DEF Dag!End
<1>. QED BY <1>1, <1>10, <1>11

LEMMA SameOutcomesSamePhase == ASSUME UNCHANGED outcome PROVE UNCHANGED <<phase, passed>>
BY DEF phase, passed, PhaseOf, EndedFor, OutcomesOf, Existing, Follows, Matches

LEMMA DagStep ==
    ASSUME NoStops, RouteTargets = {}, TypeInv, ServeInv, JoinInv, ReportInv, OnceInv, PlainInv, [Next]_vars
    PROVE  PlainInv' /\ [Dag!Next]_(Dag!vars)
<1>1. CASE UNCHANGED vars
  <2>1. UNCHANGED <<taskStatus, outcome, pc, frame, matched>>
    BY <1>1 DEF vars
  <2>2. NoneCancelled' /\ PlainOutcomes'
    BY <2>1 DEF PlainInv, NoneCancelled, PlainOutcomes, Existing
  <2>3. MatchesShow'
    BY <2>1, EndedForKept DEF PlainInv, MatchesShow, EndsKept
  <2>4. \A h \in Handler : PlainFrame(pc'[h], frame'[h]) /\ Tells(pc'[h], frame'[h], outcome')
    BY <2>1 DEF PlainInv
  <2>5. PlainInv'
    BY <2>2, <2>3, <2>4 DEF PlainInv, PlainFrame, Brief, Tells
  <2>. QED BY <2>1, <2>5, SameOutcomesSamePhase DEF Dag!vars
<1>2. ASSUME NEW h \in Handler, Step(h) \/ LaunchJob(h) \/ ReportArrives(h) \/ AgentReturns(h) \/ UserRequest(h)
      PROVE  PlainInv' /\ [Dag!Next]_(Dag!vars)
  <2>1. PlainInv' /\ (UNCHANGED outcome \/ PutReport(h) \/ CreateTaskOutcome(h))
    BY <1>2, StepPlain
  <2>2. CASE UNCHANGED outcome
    BY <2>1, <2>2, SameOutcomesSamePhase DEF Dag!vars
  <2>3. CASE PutReport(h)
    BY <2>1, <2>3, ReportEnds DEF Dag!vars, Dag!Next
  <2>4. CASE CreateTaskOutcome(h)
    <3>1. frame[h].task \in Task
      BY <2>4, CreateTaskOutcomeWrites
    <3>. QED BY <2>1, <2>4, <3>1, LaunchesFirst DEF Dag!Next
  <2>. QED BY <2>1, <2>2, <2>3, <2>4
<1>. QED BY <1>1, <1>2 DEF Next

LEMMA DagInit == Init => Dag!Init
<1>. SUFFICES ASSUME Init PROVE Dag!Init
  OBVIOUS
<1>1. Existing = {}
  BY DEF Init, Existing, NoDocument
<1>2. \A t : OutcomesOf(t) = {}
  BY <1>1 DEF OutcomesOf
<1>3. \A t \in Task : PhaseOf(t) = "waiting"
  BY <1>2 DEF PhaseOf
<1>4. \A u, t : ~EndedFor(u, t)
  BY <1>2 DEF EndedFor
<1>. QED BY <1>3, <1>4 DEF Dag!Init, phase, passed

\* A job without routes that nobody stops runs as DagRun says, whatever fails and whichever
\* agents are missing: each task is launched once, and only when each task it waits for has
\* ended with a route it waits for; what the launcher, the reports and the chains that look
\* for waiting tasks do to up_dep, the task's status and its outcomes comes to no more.
THEOREM RunsAsDag == ASSUME NoStops, RouteTargets = {} PROVE Spec => Dag!Spec
<1>. DEFINE All == TypeInv /\ ServeInv /\ JoinInv /\ ReportInv /\ OnceInv /\ PlainInv
<1>0. RestartsApart
  BY DEF NoStops, RestartsApart
<1>1. Init => All
  BY InitType, InitServes, InitReports, InitOnce, InitPlain
<1>2. All /\ [Next]_vars => All'
  BY <1>0, StepType, StepServes, StepJoin, StepReports, StepOnce, DagStep
<1>3. All /\ [Next]_vars => [Dag!Next]_(Dag!vars)
  BY DagStep
<1>4. Init => Dag!Init
  BY DagInit
<1>. QED BY <1>1, <1>2, <1>3, <1>4, PTL DEF Spec, Dag!Spec

-----------------------------------------------------------------------------
(***************************************************************************)
(* No join is lost: the invariant                                          *)
(***************************************************************************)
\* Tasks fail, and the job and its outcomes are restarted; no task is the target of a route,
\* and a task that succeeds goes on to every task that waits for it.
PlainJoins ==
    /\ Events \subseteq {"fail", "restart", "restartoutcome"} /\ RouteTargets = {}
    /\ \A t \in Task : \A u \in Upstream(t) : \A r \in UserRoutes : Follows(t, u, r)

AllLaunched == \A t \in Task : taskStatus[t] # NULL
Going == {RUNNING, COMPLETED, FAILED}

\* The locals of a chain that stops nothing, skips nothing and finds an agent.
WorkFrame(at, f) ==
    /\ f.op \in {"none", "start", "report", "restart", "restartoutcome"}
    /\ f.new \in {NULL, RUNNING} \cup Ended
    /\ f.op = "report" /\ f.new \notin Ended => Brief(at, f)
    /\ at \notin {"cancelled", "cancelnew", "take", "republish", "skipwrite"}
    /\ at = "put" => f.new # NULL /\ f.local \notin Ended
    /\ f.new = SUCCEEDED => f.route \in UserRoutes
    /\ f.new = FAILED => f.route = "fail"
    /\ f.job \in Going \cup {NULL} /\ f.kept \in Going \cup {NULL}
    /\ at = "route" => f.local = NOT_STARTED
    /\ at = "recheck" => f.task \in Task
    /\ at = "reread" => f.back = "waitlist"
    /\ f.launchTo = {}
    /\ f.launch # {} => at \in {"downing", "skipread", "launching"} \/ (f.then = "launching" /\ Publishes(at, f))

\* What they say of the documents: a job is COMPLETED, or a task is skipped, only once
\* every task has been launched.
Shown(at, f) ==
    /\ f.job = COMPLETED \/ f.kept = COMPLETED \/ at = "skipread" => AllLaunched
    /\ at = "tasks" => \A t \in f.covered : taskStatus[t] # NULL
    /\ at = "save" => taskStatus[f.task] # NULL
    /\ at \in {"downing", "skipread"} => f.down \subseteq Downstream(outcome[f.of].task)

DocsGoing ==
    /\ \A t \in Task : taskStatus[t] \in {NULL, NOT_STARTED, PUBLISHED}
    /\ jobStatus \in Going /\ (jobStatus = COMPLETED => AllLaunched)
    /\ \A o \in Existing : /\ outcome[o].status \in {PUBLISHED, RUNNING, CANCELLED} \cup Ended
                           /\ taskStatus[outcome[o].task] # NULL

\* The chain that reports the end o has the task t still before it.
Ahead(at, f, o, t) ==
    /\ f.op = "report" /\ f.of = o /\ f.new \in Ended
    /\ \/ at \in {"readjob", "outcomes", "tasks", "write"} /\ f.back = "waitlist"
       \/ at \in {"reread", "waitlist", "waiting", "down"}
       \/ at \in {"downing", "skipread"} /\ t \in f.down

\* A task that awaits nobody any more has been launched, or a chain is about to launch it.
NoneMissed == \A t \in Task :
    Upstream(t) # {} /\ upDep[t] = {} /\ taskStatus[t] = NULL => \E h \in Handler : t \in frame[h].launch

\* A task still awaits one that has ended for it only until the report of that end gets to it.
Unheard(o, t) ==
    /\ outcome[o].status \in Ended /\ Follows(t, outcome[o].task, outcome[o].route)
    /\ outcome[o].task \in upDep[t] /\ ~AllLaunched
Tell(h, o, t) == Ahead(pc[h], frame[h], o, t) /\ frame[h].route = outcome[o].route
NoneForgotten == \A o \in Existing : \A t \in Task : Unheard(o, t) => \E h \in Handler : Tell(h, o, t)

HeardInv ==
    /\ DocsGoing /\ NoneMissed /\ NoneForgotten
    /\ \A h \in Handler : WorkFrame(pc[h], frame[h]) /\ Shown(pc[h], frame[h])

-----------------------------------------------------------------------------
(***************************************************************************)
(* What keeps it                                                           *)
(***************************************************************************)
LaunchedStay == \A t \in Task : taskStatus[t] # NULL => taskStatus'[t] # NULL
TasksStay == \A o \in Existing : o \in Existing' /\ outcome'[o].task = outcome[o].task
NoNewEnd == \A o \in Existing' : outcome'[o].status \in Ended => o \in Existing /\ outcome'[o] = outcome[o]
StaysAhead(h) == \A o \in Existing : \A t \in Downstream(outcome[o].task) : Ahead(pc[h], frame[h], o, t)
    => Ahead(pc'[h], frame'[h], o, t) /\ frame'[h].route = frame[h].route
Rest(h) == frame'[h].kept = frame[h].kept /\ frame'[h].down = frame[h].down
LaunchesStay(h) == \A t \in frame[h].launch : t \in frame'[h].launch \/ taskStatus'[t] # NULL

LEMMA ShownStays ==
    ASSUME TypeInv, HeardInv, LaunchedStay, TasksStay, NEW h \in Handler, Others(h),
           WorkFrame(pc'[h], frame'[h]), Shown(pc[h], frame[h])'
    PROVE  \A q \in Handler : WorkFrame(pc'[q], frame'[q]) /\ Shown(pc[q], frame[q])'
<1>1. ASSUME NEW q \in Handler, q # h PROVE WorkFrame(pc'[q], frame'[q]) /\ Shown(pc[q], frame[q])'
  <2>1. pc'[q] = pc[q] /\ frame'[q] = frame[q] /\ WorkFrame(pc[q], frame[q]) /\ Shown(pc[q], frame[q])
    BY <1>1 DEF Others, HeardInv
  <2>2. frame[q] \in Frame /\ Fits(pc[q], frame[q], Existing)
    BY ChainFits
  <2>3. AllLaunched => AllLaunched'
    BY DEF LaunchedStay, AllLaunched
  <2>4. pc[q] \in {"downing", "skipread"} => outcome'[frame[q].of].task = outcome[frame[q].of].task
    BY <2>2 DEF Fits, ReportSteps, TasksStay
  <2>5. pc[q] = "save" => frame[q].task \in Task
    BY <2>2 DEF Fits
  <2>6. frame[q].covered \subseteq Task
    BY <2>2, FrameFields
  <2>. QED BY <2>1, <2>3, <2>4, <2>5, <2>6 DEF Shown, Downstream, LaunchedStay
<1>. QED BY <1>1

LEMMA MissedStays ==
    ASSUME TypeInv, HeardInv, LaunchedStay, NEW h \in Handler, Others(h), LaunchesStay(h), upDep' = upDep
    PROVE  NoneMissed'
<1>. SUFFICES ASSUME NEW t \in Task, Upstream(t) # {}, upDep'[t] = {}, taskStatus'[t] = NULL
              PROVE  \E q \in Handler : t \in frame'[q].launch
  BY DEF NoneMissed, Upstream
<1>1. PICK q \in Handler : t \in frame[q].launch
  BY DEF HeardInv, NoneMissed, LaunchedStay
<1>. QED BY <1>1 DEF Others, LaunchesStay

LEMMA ForgottenStays ==
    ASSUME TypeInv, HeardInv, LaunchedStay, NoNewEnd, NEW h \in Handler, Others(h), StaysAhead(h), upDep' = upDep
    PROVE  NoneForgotten'
<1>. SUFFICES ASSUME NEW o \in Existing', NEW t \in Task, Unheard(o, t)' PROVE \E q \in Handler : Tell(q, o, t)'
  BY DEF NoneForgotten
<1>1. o \in Existing /\ outcome'[o] = outcome[o] /\ Unheard(o, t)
  BY DEF Unheard, NoNewEnd, LaunchedStay, AllLaunched, Follows, Matches
<1>2. PICK q \in Handler : Tell(q, o, t)
  BY <1>1 DEF HeardInv, NoneForgotten
<1>3. t \in Downstream(outcome[o].task)
  BY <1>1 DEF Unheard, Follows, Downstream
<1>. QED BY <1>1, <1>2, <1>3 DEF Tell, StaysAhead, Others

DocsStay == LaunchedStay /\ TasksStay /\ NoNewEnd /\ DocsGoing'
FrameStays(h) == WorkFrame(pc'[h], frame'[h]) /\ Shown(pc[h], frame[h])' /\ LaunchesStay(h) /\ StaysAhead(h)

LEMMA HeardStays ==
    ASSUME TypeInv, HeardInv, NEW h \in Handler, Others(h), upDep' = upDep, DocsStay, FrameStays(h)
    PROVE  HeardInv'
BY ShownStays, MissedStays, ForgottenStays DEF HeardInv, DocsStay, FrameStays

\* What is known of a chain.
Known(h) ==
    /\ Serves(pc[h], frame[h]) /\ Fits(pc[h], frame[h], Existing) /\ frame[h] \in Frame
    /\ WorkFrame(pc[h], frame[h]) /\ Shown(pc[h], frame[h]) /\ DocsGoing
    /\ pc \in [Handler -> Steps] /\ frame \in [Handler -> Frame]

LEMMA HeardKnown == ASSUME TypeInv, ServeInv, HeardInv, NEW h \in Handler PROVE Known(h)
BY ChainFits DEF Known, ServeInv, HeardInv, TypeInv, FramesOK

LEMMA SameDocsHeard == ASSUME HeardInv, UNCHANGED docVars PROVE DocsStay /\ upDep' = upDep
BY DEF docVars, DocsStay, LaunchedStay, TasksStay, NoNewEnd, HeardInv, DocsGoing, AllLaunched, Existing

LEMMA StatusesApart ==
    /\ NULL \notin Going /\ NULL \notin {NOT_STARTED, PUBLISHED, RUNNING, CANCELLED} /\ NULL \notin Ended
    /\ NULL \notin JobStatus /\ NOT_STARTED # CANCELLED /\ PUBLISHED # CANCELLED
    /\ RUNNING \notin Ended /\ PUBLISHED \notin Ended /\ CANCELLED \notin Ended
    /\ INTERRUPTING \notin Going /\ INTERRUPTED \notin Going /\ CANCELING \notin Going
    /\ RUNNING # COMPLETED /\ FAILED # COMPLETED /\ NULL # INTERRUPTING
<1>1. /\ NULL = -1 /\ NOT_STARTED = 0 /\ PUBLISHED = 5 /\ RUNNING = 10 /\ INTERRUPTING = 14 /\ INTERRUPTED = 15
      /\ CANCELING = 17 /\ SUCCEEDED = 20 /\ COMPLETED = 20 /\ CANCELLED = 21 /\ FAILED = 22 /\ SKIPPED = 23
  BY DEF NULL, NOT_STARTED, PUBLISHED, RUNNING, COMPLETED, FAILED, SUCCEEDED, SKIPPED,
     CANCELLED, INTERRUPTING, INTERRUPTED, CANCELING
<1>. QED BY <1>1 DEF Going, Ended, JobStatus

LEMMA EmptyHeard ==
    /\ WorkFrame("idle", EmptyFrame) /\ EmptyFrame.launch = {} /\ EmptyFrame.kept = NULL /\ EmptyFrame.job = NULL
    /\ Shown("idle", EmptyFrame) /\ (\A o, t : ~Ahead("idle", EmptyFrame, o, t))
<1>1. NULL # COMPLETED /\ NULL # SUCCEEDED /\ NULL # FAILED
  BY DEF NULL, COMPLETED, SUCCEEDED, FAILED
<1>. QED BY <1>1 DEF EmptyFrame, WorkFrame, Shown, Ahead

LEMMA CheckedGoing ==
    ASSUME NEW current \in Going \cup {NULL}, NEW present
    PROVE  /\ CheckJobStatus(current, present) \in Going \cup {NULL}
           /\ CheckJobStatus(current, present) = COMPLETED => current = COMPLETED \/ NOT_STARTED \notin present
<1>1. current # INTERRUPTING /\ FAILED # COMPLETED /\ RUNNING # COMPLETED
  BY StatusesApart
<1>. QED BY <1>1 DEF CheckJobStatus, Going

\* The steps below are read off what their Turn lemmas say of the chain's locals, and off
\* what they leave of the others.
USE DEF Known, Same, SameRequest, SameTask, SameLists, SameLaunches, Back, Goes, Begins, Rest, Fits, Backs

LEMMA ReadJobHeard ==
    ASSUME TypeInv, ServeInv, HeardInv, NEW h \in Handler, ReadJob(h) PROVE HeardInv'
<1>1. Known(h) /\ UNCHANGED docVars /\ pc[h] = "readjob" /\ Others(h)
  BY HeardKnown, ReadJobTurn DEF ReadJob
<1>2. Rest(h) /\ frame'[h].job = jobStatus
  BY <1>1 DEF ReadJob, Go, Frame
<1>3. FrameStays(h)
  BY <1>1, <1>2, ReadJobTurn
     DEF FrameStays, WorkFrame, Brief, Publishes, DocsGoing, Shown, AllLaunched, docVars, StaysAhead, Ahead,
     LaunchesStay
<1>. QED BY <1>1, <1>3, SameDocsHeard, HeardStays

LEMMA ReadOutcomesHeard ==
    ASSUME TypeInv, ServeInv, HeardInv, NEW h \in Handler, ReadOutcomes(h) PROVE HeardInv'
<1>1. Known(h) /\ UNCHANGED docVars /\ pc[h] = "outcomes" /\ Others(h)
  BY HeardKnown, ReadOutcomesTurn DEF ReadOutcomes
<1>2. Rest(h) /\ frame'[h].job = frame[h].job /\ frame'[h].covered = {outcome[o].task : o \in Existing}
  BY <1>1 DEF ReadOutcomes, Go, Frame
<1>3. FrameStays(h)
  BY <1>1, <1>2, ReadOutcomesTurn
     DEF FrameStays, WorkFrame, Brief, Publishes, DocsGoing, Shown, AllLaunched, docVars, StaysAhead, Ahead,
     LaunchesStay
<1>. QED BY <1>1, <1>3, SameDocsHeard, HeardStays

LEMMA RereadJobHeard ==
    ASSUME TypeInv, ServeInv, HeardInv, NEW h \in Handler, RereadJob(h) PROVE HeardInv'
<1>1. Known(h) /\ UNCHANGED docVars /\ pc[h] = "reread" /\ Others(h)
  BY HeardKnown, RereadJobTurn DEF RereadJob
<1>2. pc'[h] # "idle" => Rest(h) /\ frame'[h].job = jobStatus
  BY <1>1 DEF RereadJob, Go, Frame
<1>3. FrameStays(h)
  BY <1>1, <1>2, RereadJobTurn, EmptyHeard, EmptyFields
     DEF FrameStays, WorkFrame, Brief, Publishes, DocsGoing, Shown, AllLaunched, docVars, StaysAhead, Ahead,
     LaunchesStay
<1>. QED BY <1>1, <1>3, SameDocsHeard, HeardStays

LEMMA RecheckTaskHeard ==
    ASSUME TypeInv, ServeInv, HeardInv, NEW h \in Handler, RecheckTask(h) PROVE HeardInv'
<1>1. Known(h) /\ UNCHANGED docVars /\ pc[h] = "recheck" /\ Others(h)
  BY HeardKnown, RecheckTaskTurn DEF RecheckTask
<1>2. Rest(h) /\ frame'[h].job = frame[h].job /\ frame'[h].local = frame[h].local
  BY <1>1 DEF RecheckTask, Go, UpdateJobStatus, Frame
<1>3. FrameStays(h)
  BY <1>1, <1>2, RecheckTaskTurn, StatusesApart
     DEF FrameStays, WorkFrame, Brief, Publishes, DocsGoing, RecheckTask, UpdateJobStatus, Go, Shown, AllLaunched,
     docVars, StaysAhead, Ahead, LaunchesStay
<1>. QED BY <1>1, <1>3, SameDocsHeard, HeardStays

LEMMA SendToAgentHeard ==
    ASSUME TypeInv, ServeInv, HeardInv, NEW h \in Handler, SendToAgent(h) PROVE HeardInv'
<1>1. Known(h) /\ UNCHANGED docVars /\ pc[h] = "send" /\ Others(h)
  BY HeardKnown, SendToAgentTurn DEF SendToAgent
<1>2. Rest(h) /\ frame'[h].job = frame[h].job /\ frame'[h].local = frame[h].local
  BY <1>1 DEF SendToAgent, Go, UpdateJobStatus, Frame
<1>3. FrameStays(h)
  BY <1>1, <1>2, SendToAgentTurn
     DEF FrameStays, WorkFrame, Brief, Publishes, DocsGoing, Shown, AllLaunched, docVars, StaysAhead, Ahead,
     LaunchesStay
<1>. QED BY <1>1, <1>3, SameDocsHeard, HeardStays

LEMMA BeginTasksHeard ==
    ASSUME TypeInv, ServeInv, HeardInv, NEW h \in Handler, BeginTasks(h) PROVE HeardInv'
<1>1. Known(h) /\ UNCHANGED docVars /\ pc[h] = "begin" /\ Others(h)
  BY HeardKnown, BeginTasksTurn DEF BeginTasks
<1>2. frame'[h].kept = jobStatus /\ frame'[h].job = frame[h].job /\ frame'[h].down = frame[h].down
  BY <1>1 DEF BeginTasks, Go, Frame
<1>3. FrameStays(h)
  BY <1>1, <1>2, BeginTasksTurn
     DEF FrameStays, WorkFrame, Brief, Publishes, DocsGoing, Shown, AllLaunched, docVars, StaysAhead, Ahead,
     LaunchesStay
<1>. QED BY <1>1, <1>3, SameDocsHeard, HeardStays

LEMMA SnapshotTasksHeard ==
    ASSUME TypeInv, ServeInv, HeardInv, NEW h \in Handler, SnapshotTasks(h) PROVE HeardInv'
<1>1. Known(h) /\ UNCHANGED docVars /\ pc[h] = "snapshot" /\ Others(h)
  BY HeardKnown, SnapshotTasksTurn DEF SnapshotTasks
<1>2. Rest(h) /\ frame'[h].job = frame[h].job /\ frame'[h].local = frame[h].local
  BY <1>1 DEF SnapshotTasks, Go, Frame
<1>3. FrameStays(h)
  BY <1>1, <1>2, SnapshotTasksTurn
     DEF FrameStays, WorkFrame, Brief, Publishes, DocsGoing, Shown, AllLaunched, docVars, StaysAhead, Ahead,
     LaunchesStay
<1>. QED BY <1>1, <1>3, SameDocsHeard, HeardStays

LEMMA ListWaitingTasksHeard ==
    ASSUME TypeInv, ServeInv, HeardInv, NEW h \in Handler, ListWaitingTasks(h) PROVE HeardInv'
<1>1. Known(h) /\ UNCHANGED docVars /\ pc[h] = "waitlist" /\ Others(h)
  BY HeardKnown, ListWaitingTasksTurn DEF ListWaitingTasks
<1>2. frame'[h].kept = frame[h].job /\ frame'[h].job = NULL /\ frame'[h].down = frame[h].down
  BY <1>1 DEF ListWaitingTasks, Go, Frame
<1>3. FrameStays(h)
  BY <1>1, <1>2, ListWaitingTasksTurn, StatusesApart
     DEF FrameStays, WorkFrame, Brief, Publishes, DocsGoing, Shown, AllLaunched, docVars, Going, StaysAhead,
     Ahead, LaunchesStay
<1>. QED BY <1>1, <1>3, SameDocsHeard, HeardStays

LEMMA ExamineWaitingTaskHeard ==
    ASSUME TypeInv, ServeInv, HeardInv, NEW h \in Handler, ExamineWaitingTask(h) PROVE HeardInv'
<1>1. Known(h)
  BY HeardKnown
<1>0. pc'[h] = "waiting" /\ \E t \in Task : Go(h, "waiting", [frame[h] EXCEPT !.todo = frame[h].todo \ {t}])
  <2>1. WAITING_FOR_AGENT \notin {NULL, NOT_STARTED, PUBLISHED}
    BY DEF NULL, NOT_STARTED, PUBLISHED, WAITING_FOR_AGENT
  <2>2. \A t \in frame[h].todo : t \in Task /\ taskStatus[t] # WAITING_FOR_AGENT
    BY <1>1, <2>1, FrameFields DEF DocsGoing
  <2>. QED BY <1>1, <2>2 DEF ExamineWaitingTask, Go
<1>2. Rest(h) /\ frame'[h].job = frame[h].job /\ frame'[h].local = frame[h].local
  BY <1>1, <1>0 DEF ExamineWaitingTask, Go, Frame
<1>3. UNCHANGED docVars /\ pc[h] = "waiting" /\ Others(h)
  BY <1>1, ExamineWaitingTaskTurn DEF ExamineWaitingTask
<1>4. FrameStays(h)
  BY <1>1, <1>2, <1>3, ExamineWaitingTaskTurn, <1>0
     DEF FrameStays, WorkFrame, Brief, Publishes, DocsGoing, Shown, AllLaunched, docVars, StaysAhead, Ahead,
     LaunchesStay
<1>. QED BY <1>3, <1>4, SameDocsHeard, HeardStays

LEMMA WaitingTasksDoneHeard ==
    ASSUME TypeInv, ServeInv, HeardInv, NEW h \in Handler, WaitingTasksDone(h) PROVE HeardInv'
<1>1. Known(h)
  BY HeardKnown
<1>0. pc'[h] = "down" /\ Go(h, "down", frame[h])
  <2>1. pc[h] = "waiting" /\ frame[h].op = "report"
    BY <1>1 DEF WaitingTasksDone, Serves, WorkFrame
  <2>. QED BY <1>1, <2>1 DEF WaitingTasksDone, Go
<1>2. Rest(h) /\ frame'[h].job = frame[h].job /\ frame'[h].local = frame[h].local
  BY <1>1, <1>0 DEF WaitingTasksDone, Go, Frame
<1>3. UNCHANGED docVars /\ pc[h] = "waiting" /\ Others(h)
  BY <1>1, WaitingTasksDoneTurn DEF WaitingTasksDone
<1>4. FrameStays(h)
  BY <1>1, <1>2, <1>3, WaitingTasksDoneTurn, <1>0
     DEF FrameStays, WorkFrame, Brief, Publishes, DocsGoing, Shown, AllLaunched, docVars, StaysAhead, Ahead,
     LaunchesStay
<1>. QED BY <1>3, <1>4, SameDocsHeard, HeardStays

LEMMA ReadSkippedHeard ==
    ASSUME TypeInv, ServeInv, HeardInv, NEW h \in Handler, ReadSkipped(h) PROVE HeardInv'
<1>1. Known(h)
  BY HeardKnown
<1>0. pc'[h] # "skipwrite"
  <2>1. AllLaunched /\ (frame[h].skip # <<>> => Head(frame[h].skip) \in Task)
    BY <1>1, FrameFields, HeadTailProperties DEF ReadSkipped, Shown
  <2>2. frame[h].skip # <<>> => ~MaySkip(Head(frame[h].skip))
    BY <2>1 DEF AllLaunched, MaySkip
  <2>. QED BY <1>1, <2>2 DEF ReadSkipped, Go
<1>2. Rest(h) /\ frame'[h].job = frame[h].job /\ frame'[h].local = frame[h].local
  BY <1>1, <1>0 DEF ReadSkipped, Go, Frame
<1>3. UNCHANGED docVars /\ pc[h] = "skipread" /\ Others(h)
  BY <1>1, ReadSkippedTurn DEF ReadSkipped
<1>4. FrameStays(h)
  BY <1>1, <1>2, <1>3, ReadSkippedTurn, <1>0
     DEF FrameStays, WorkFrame, Brief, Publishes, DocsGoing, Shown, AllLaunched, docVars, StaysAhead, Ahead,
     LaunchesStay
<1>. QED BY <1>3, <1>4, SameDocsHeard, HeardStays

LEMMA DescendEndsHeard ==
    ASSUME TypeInv, ServeInv, HeardInv, NEW h \in Handler, DescendEnds(h) PROVE HeardInv'
<1>1. Known(h) /\ UNCHANGED docVars /\ pc[h] = "downing" /\ Others(h)
  BY HeardKnown, DescendEndsTurn DEF DescendEnds
<1>2. Rest(h) /\ frame'[h].job = frame[h].job /\ frame'[h].local = frame[h].local
  BY <1>1 DEF DescendEnds, Go, Frame
<1>3. FrameStays(h)
  BY <1>1, <1>2, DescendEndsTurn
     DEF FrameStays, WorkFrame, Brief, Publishes, DocsGoing, DescendEnds, Shown, AllLaunched, docVars, StaysAhead,
     Ahead, LaunchesStay
<1>. QED BY <1>1, <1>3, SameDocsHeard, HeardStays

LEMMA LaunchEndsHeard ==
    ASSUME TypeInv, ServeInv, HeardInv, NEW h \in Handler, LaunchEnds(h) PROVE HeardInv'
<1>1. Known(h) /\ UNCHANGED docVars /\ pc[h] = "launching" /\ Others(h)
  BY HeardKnown, LaunchEndsTurn DEF LaunchEnds
<1>2. Rest(h) /\ frame'[h].job = frame[h].job /\ frame'[h].local = frame[h].local
  BY <1>1 DEF LaunchEnds, Go, Frame
<1>3. FrameStays(h)
  BY <1>1, <1>2, LaunchEndsTurn
     DEF FrameStays, WorkFrame, Brief, Publishes, DocsGoing, LaunchEnds, Shown, AllLaunched, docVars, StaysAhead,
     Ahead, LaunchesStay
<1>. QED BY <1>1, <1>3, SameDocsHeard, HeardStays

LEMMA ListOutcomesToRestartHeard ==
    ASSUME TypeInv, ServeInv, HeardInv, NEW h \in Handler, ListOutcomesToRestart(h) PROVE HeardInv'
<1>1. Known(h) /\ UNCHANGED docVars /\ pc[h] = "restartlist" /\ Others(h)
  BY HeardKnown, ListOutcomesToRestartTurn DEF ListOutcomesToRestart
<1>2. Rest(h) /\ frame'[h].job = frame[h].job /\ frame'[h].local = frame[h].local
  BY <1>1 DEF ListOutcomesToRestart, Go, Frame
<1>3. FrameStays(h)
  BY <1>1, <1>2, ListOutcomesToRestartTurn
     DEF FrameStays, WorkFrame, Brief, Publishes, DocsGoing, Shown, AllLaunched, docVars, StaysAhead, Ahead,
     LaunchesStay
<1>. QED BY <1>1, <1>3, SameDocsHeard, HeardStays

LEMMA OutcomesRestartedHeard ==
    ASSUME TypeInv, ServeInv, HeardInv, NEW h \in Handler, OutcomesRestarted(h) PROVE HeardInv'
<1>1. Known(h) /\ UNCHANGED docVars /\ pc[h] = "restarting" /\ Others(h)
  BY HeardKnown, OutcomesRestartedTurn DEF OutcomesRestarted
<1>2. pc'[h] # "idle" => Rest(h) /\ frame'[h].job = frame[h].job /\ frame'[h].local = frame[h].local
  BY <1>1 DEF OutcomesRestarted, Go, Frame
<1>3. FrameStays(h)
  BY <1>1, <1>2, OutcomesRestartedTurn, EmptyHeard, EmptyFields
     DEF FrameStays, WorkFrame, Brief, Publishes, DocsGoing, Shown, AllLaunched, docVars, StaysAhead, Ahead,
     LaunchesStay
<1>. QED BY <1>1, <1>3, SameDocsHeard, HeardStays

LEMMA ReadTasksHeard ==
    ASSUME TypeInv, ServeInv, HeardInv, NEW h \in Handler, ReadTasks(h) PROVE HeardInv'
<1>1. Known(h)
  BY HeardKnown
<1>0. /\ pc[h] = "tasks" /\ (pc'[h] # "idle" => frame'[h].job \in Going \cup {NULL} /\ Rest(h))
      /\ pc'[h] # "idle" /\ frame'[h].job = COMPLETED => AllLaunched
  <2>1. PICK others : others = {t \in WithoutOutcome(frame[h].covered) : taskStatus[t] \in Counted}
    OBVIOUS
  <2>2. PICK present : present = frame[h].present \cup {CountAs(taskStatus[t]) : t \in others}
    OBVIOUS
  <2>3. PICK status : status = CheckJobStatus(frame[h].job, present)
    OBVIOUS
  <2>4. pc[h] = "tasks" /\ (pc'[h] # "idle" => frame'[h].job = status /\ Rest(h))
    BY <1>1, <2>1, <2>2, <2>3 DEF ReadTasks, Go, Frame
  <2>5. status \in Going \cup {NULL} /\ (status = COMPLETED => frame[h].job = COMPLETED \/ NOT_STARTED \notin present)
    BY <1>1, <2>3, CheckedGoing DEF WorkFrame
  <2>6. ASSUME NEW t \in Task, taskStatus[t] = NULL PROVE NOT_STARTED \in present
    <3>1. t \notin frame[h].covered
      BY <1>1, <2>4, <2>6 DEF Shown
    <3>2. t \in others /\ CountAs(taskStatus[t]) = NOT_STARTED
      BY <2>1, <2>6, <3>1 DEF WithoutOutcome, Counted, CountAs
    <3>. QED BY <2>2, <3>2
  <2>. QED BY <1>1, <2>4, <2>5, <2>6 DEF Shown, AllLaunched
<1>3. UNCHANGED docVars /\ pc[h] = "tasks" /\ Others(h)
  BY <1>1, ReadTasksTurn DEF ReadTasks
<1>4. FrameStays(h)
  BY <1>1, <1>3, ReadTasksTurn, <1>0, EmptyHeard, EmptyFields
     DEF FrameStays, WorkFrame, Brief, Publishes, DocsGoing, Shown, AllLaunched, docVars, StaysAhead, Ahead,
     LaunchesStay
<1>. QED BY <1>3, <1>4, SameDocsHeard, HeardStays

LEMMA PublishedHeard ==
    ASSUME TypeInv, ServeInv, HeardInv, NEW h \in Handler, Published(h) PROVE HeardInv'
<1>1. Known(h) /\ UNCHANGED docVars /\ pc[h] = "published" /\ Others(h)
  BY HeardKnown, PublishedTurn DEF Published
<1>2. pc'[h] # "idle" => Rest(h) /\ frame'[h].job = NULL
  BY <1>1 DEF Published, Go, Frame
<1>3. FrameStays(h)
  BY <1>1, <1>2, PublishedTurn, EmptyHeard, EmptyFields, StatusesApart
     DEF FrameStays, WorkFrame, Brief, Publishes, DocsGoing, Thens, Ended, Shown, AllLaunched, docVars, Going,
     StaysAhead, Ahead, LaunchesStay
<1>. QED BY <1>1, <1>3, SameDocsHeard, HeardStays

LEMMA LaunchJobHeard ==
    ASSUME TypeInv, ServeInv, HeardInv, NEW h \in Handler, LaunchJob(h) PROVE HeardInv'
<1>1. Known(h) /\ UNCHANGED docVars /\ pc[h] = "idle" /\ Others(h)
  BY HeardKnown, LaunchJobTurn DEF LaunchJob
<1>2. frame'[h].job = NULL /\ frame'[h].kept = NULL
  BY <1>1, EmptyHeard, EmptyFields DEF LaunchJob, Go, Frame
<1>3. FrameStays(h)
  BY <1>1, <1>2, LaunchJobTurn, EmptyHeard, EmptyFields, StatusesApart
     DEF FrameStays, WorkFrame, Brief, Publishes, DocsGoing, Serves, Ended, Going, Shown, AllLaunched, docVars,
     StaysAhead, Ahead, LaunchesStay
<1>. QED BY <1>1, <1>3, SameDocsHeard, HeardStays

LEMMA TasksStartedHeard ==
    ASSUME TypeInv, ServeInv, HeardInv, NEW h \in Handler, TasksStarted(h) PROVE HeardInv'
<1>1. Known(h) /\ UNCHANGED docVars /\ pc[h] = "starting" /\ Others(h)
  BY HeardKnown, TasksStartedTurn DEF TasksStarted
<1>2. Rest(h) /\ frame'[h].job \in {frame[h].job, frame[h].kept}
  <2>1. CASE frame[h].any
    BY <1>1, <2>1 DEF TasksStarted, Go, UpdatePassedJob, Frame
  <2>2. CASE ~frame[h].any
    <3>1. Go(h, "outcomes", [frame[h] EXCEPT !.job = frame[h].kept, !.back = "started"])
      BY <2>2 DEF TasksStarted, UpdatePassedJob
    <3>. QED BY <1>1, <3>1 DEF Go, Frame
  <2>. QED BY <2>1, <2>2
<1>3. FrameStays(h)
  BY <1>1, <1>2, TasksStartedTurn
     DEF FrameStays, WorkFrame, Brief, Publishes, DocsGoing, Shown, AllLaunched, docVars, StaysAhead, Ahead,
     LaunchesStay
<1>. QED BY <1>1, <1>3, SameDocsHeard, HeardStays

LEMMA StartEndsHeard ==
    ASSUME TypeInv, ServeInv, HeardInv, NEW h \in Handler, StartEnds(h) PROVE HeardInv'
<1>1. Known(h) /\ UNCHANGED docVars /\ pc[h] = "started" /\ Others(h)
  BY HeardKnown, StartEndsTurn DEF StartEnds
<1>2. pc'[h] # "idle" => Rest(h) /\ frame'[h].job = RUNNING
  <2>1. CASE (frame[h].op = "restart")
    <3>1. Go(h, "outcomes", [frame[h] EXCEPT !.job = RUNNING, !.back = "idle"])
      BY <2>1 DEF StartEnds, UpdatePassedJob
    <3>. QED BY <1>1, <3>1 DEF Go, Frame
  <2>2. CASE ~(frame[h].op = "restart")
    BY <1>1, <2>2 DEF StartEnds, Go, UpdatePassedJob, Frame
  <2>. QED BY <2>1, <2>2
<1>3. FrameStays(h)
  BY <1>1, <1>2, StartEndsTurn, EmptyHeard, EmptyFields, StatusesApart
     DEF FrameStays, WorkFrame, Brief, Publishes, DocsGoing, Going, Shown, AllLaunched, docVars, StaysAhead,
     Ahead, LaunchesStay
<1>. QED BY <1>1, <1>3, SameDocsHeard, HeardStays

LEMMA FinishReportHeard ==
    ASSUME TypeInv, ServeInv, HeardInv, NEW h \in Handler, FinishReport(h) PROVE HeardInv'
<1>1. Known(h) /\ UNCHANGED docVars /\ pc[h] = "finish" /\ Others(h)
  BY HeardKnown, FinishReportTurn DEF FinishReport
<1>2. frame'[h].job = NULL /\ frame'[h].kept = NULL
  BY <1>1, EmptyHeard, EmptyFields DEF FinishReport, Go, UpdateJobStatus, Frame
<1>3. FrameStays(h)
  BY <1>1, <1>2, FinishReportTurn, EmptyHeard, EmptyFields, StatusesApart
     DEF FrameStays, WorkFrame, Brief, Publishes, DocsGoing, Serves, Ended, Going, Shown, AllLaunched, docVars,
     StaysAhead, Ahead, LaunchesStay
<1>. QED BY <1>1, <1>3, SameDocsHeard, HeardStays

LEMMA RestartTaskOutcomeHeard ==
    ASSUME TypeInv, ServeInv, HeardInv, NEW h \in Handler, RestartTaskOutcome(h) PROVE HeardInv'
<1>1. Known(h) /\ UNCHANGED docVars /\ pc[h] = "idle" /\ Others(h)
  BY HeardKnown, RestartTaskOutcomeTurn DEF RestartTaskOutcome
<1>2. frame'[h].job = NULL /\ frame'[h].kept = NULL
  BY <1>1, EmptyHeard, EmptyFields DEF RestartTaskOutcome, Go, Frame
<1>3. FrameStays(h)
  BY <1>1, <1>2, RestartTaskOutcomeTurn, EmptyHeard, EmptyFields, StatusesApart
     DEF FrameStays, WorkFrame, Brief, Publishes, DocsGoing, Serves, Ended, Going, Shown, AllLaunched, docVars,
     StaysAhead, Ahead, LaunchesStay
<1>. QED BY <1>1, <1>3, SameDocsHeard, HeardStays

\* Steps that write a document.
LEMMA SetTaskHeard ==
    ASSUME TypeInv, HeardInv, NEW t \in Task, NEW s \in {NOT_STARTED, PUBLISHED}, SetTask(t, s),
           UNCHANGED <<upDep, jobStatus, outcome>>
    PROVE  DocsStay
<1>1. \A u \in Task : taskStatus'[u] = IF u = t THEN s ELSE taskStatus[u]
  BY DEF SetTask, TypeInv, DocumentsOK
<1>2. s # NULL /\ \A o \in Existing : outcome[o].task \in Task
  BY StatusesApart DEF TypeInv, DocumentsOK, Existing
<1>. QED BY <1>1, <1>2 DEF DocsStay, LaunchedStay, TasksStay, NoNewEnd, HeardInv, DocsGoing, AllLaunched, Existing

LEMMA WriteJobHeard ==
    ASSUME TypeInv, ServeInv, HeardInv, NEW h \in Handler, WriteJob(h) PROVE HeardInv'
<1>1. Known(h)
  BY HeardKnown
<1>2. pc'[h] # "idle" => Rest(h) /\ frame'[h].job = frame[h].job
  BY <1>1 DEF WriteJob, Go, Frame
<1>3. UNCHANGED <<taskStatus, upDep, outcome>> /\ jobStatus' = frame[h].job /\ pc[h] = "write" /\ Others(h)
  BY <1>1, WriteJobTurn DEF WriteJob
<1>4. WorkFrame(pc'[h], frame'[h])
  BY <1>1, <1>2, <1>3, WriteJobTurn, EmptyHeard, EmptyFields DEF WorkFrame, Brief, Publishes, DocsGoing
<1>5. Shown(pc[h], frame[h])'
  BY <1>1, <1>2, <1>3, WriteJobTurn, EmptyHeard, EmptyFields DEF Shown, DocsGoing, AllLaunched, docVars,
     WorkFrame
<1>6. StaysAhead(h) /\ LaunchesStay(h)
  BY <1>1, <1>2, <1>3, WriteJobTurn, EmptyHeard, EmptyFields DEF StaysAhead, Ahead, LaunchesStay, WorkFrame,
     Publishes
<1>7. DocsStay
  BY <1>1, <1>2, <1>3, StatusesApart DEF Shown, WorkFrame, DocsStay, LaunchedStay, TasksStay, NoNewEnd, DocsGoing,
     AllLaunched, Existing
<1>. QED BY <1>3, <1>4, <1>5, <1>6, <1>7, HeardStays DEF FrameStays

LEMMA RouteToAgentHeard ==
    ASSUME TypeInv, ServeInv, HeardInv, NEW h \in Handler, RouteToAgent(h) PROVE HeardInv'
<1>1. Known(h)
  BY HeardKnown
<1>2. Rest(h) /\ frame'[h].job = frame[h].job /\ frame'[h].local = frame[h].local
  BY <1>1 DEF RouteToAgent, Go, Frame
<1>3. UNCHANGED <<upDep, jobStatus, outcome>> /\ SetTask(frame[h].task, PUBLISHED) /\ pc[h] = "route" /\ Others(h)
  BY <1>1, RouteToAgentTurn DEF RouteToAgent
<1>4. WorkFrame(pc'[h], frame'[h])
  BY <1>1, <1>2, <1>3, RouteToAgentTurn DEF WorkFrame, Brief, Publishes, DocsGoing
<1>5. Shown(pc[h], frame[h])'
  BY <1>1, <1>2, <1>3, RouteToAgentTurn, StatusesApart DEF Shown, DocsGoing, AllLaunched, docVars,
     WorkFrame, SetTask, TypeInv, DocumentsOK
<1>6. StaysAhead(h) /\ LaunchesStay(h)
  BY <1>1, <1>2, <1>3, RouteToAgentTurn DEF StaysAhead, Ahead, LaunchesStay, WorkFrame, Publishes
<1>7. DocsStay
  BY <1>1, <1>2, <1>3, SetTaskHeard
<1>. QED BY <1>3, <1>4, <1>5, <1>6, <1>7, HeardStays DEF FrameStays

LEMMA StartTaskHeard ==
    ASSUME TypeInv, ServeInv, HeardInv, NEW h \in Handler, StartTask(h) PROVE HeardInv'
<1>1. Known(h)
  BY HeardKnown
<1>2. Rest(h) /\ frame'[h].job = frame[h].job /\ frame'[h].local = NOT_STARTED
  BY <1>1 DEF StartTask, Go, Publish, Frame
<1>3. UNCHANGED <<upDep, jobStatus, outcome>> /\ pc[h] = "starting" /\ Others(h)
  BY <1>1, StartTaskTurn DEF StartTask
<1>4. WorkFrame(pc'[h], frame'[h])
  BY <1>1, <1>2, <1>3, StartTaskTurn DEF WorkFrame, Brief, Publishes, DocsGoing
<1>5. Shown(pc[h], frame[h])'
  BY <1>1, <1>2, <1>3, StartTaskTurn, StatusesApart DEF Shown, DocsGoing, AllLaunched, docVars, WorkFrame,
     SetTask, TypeInv, DocumentsOK
<1>6. StaysAhead(h) /\ LaunchesStay(h)
  BY <1>1, <1>2, <1>3, StartTaskTurn DEF StaysAhead, Ahead, LaunchesStay, WorkFrame, Publishes
<1>7. DocsStay
  BY <1>1, <1>2, <1>3, StartTaskTurn, SetTaskHeard, SameDocsHeard, FrameFields DEF docVars
<1>. QED BY <1>3, <1>4, <1>5, <1>6, <1>7, HeardStays DEF FrameStays

LEMMA LaunchDownstreamTaskHeard ==
    ASSUME TypeInv, ServeInv, HeardInv, NEW h \in Handler, LaunchDownstreamTask(h) PROVE HeardInv'
<1>1. Known(h)
  BY HeardKnown
<1>2. /\ Rest(h) /\ frame'[h].job = frame[h].job /\ (pc'[h] = "route" => frame'[h].local = NOT_STARTED)
      /\ LaunchesStay(h)
  <2>1. PICK t \in frame[h].launch :
          LET g == [frame[h] EXCEPT !.launch = @ \ {t}]
          IN  IF taskStatus[t] = NULL
              THEN SetTask(t, NOT_STARTED) /\ Publish(h, g, t, NOT_STARTED, "launching")
              ELSE UNCHANGED taskStatus /\ Go(h, "launching", g)
    BY DEF LaunchDownstreamTask, NeverLaunched
  <2>2. t \in Task
    BY <1>1, FrameFields
  <2>3. taskStatus'[t] # NULL
    BY <2>1, <2>2, StatusesApart DEF SetTask, TypeInv, DocumentsOK
  <2>4. /\ Rest(h) /\ frame'[h].job = frame[h].job /\ (pc'[h] = "route" => frame'[h].local = NOT_STARTED)
        /\ frame'[h].launch = frame[h].launch \ {t}
    <3>1. CASE taskStatus[t] = NULL
      <4>1. Go(h, "route", [[frame[h] EXCEPT !.launch = @ \ {t}] EXCEPT
                                !.task = t, !.local = NOT_STARTED, !.then = "launching"])
        BY <2>1, <3>1 DEF Publish
      <4>. QED BY <1>1, <4>1 DEF Go, Frame
    <3>2. CASE taskStatus[t] # NULL
      BY <1>1, <2>1, <3>2 DEF Go, Frame
    <3>. QED BY <3>1, <3>2
  <2>. QED BY <2>3, <2>4 DEF LaunchesStay
<1>3. UNCHANGED <<upDep, jobStatus, outcome>> /\ pc[h] = "launching" /\ Others(h)
  BY <1>1, LaunchDownstreamTaskTurn DEF LaunchDownstreamTask
<1>4. WorkFrame(pc'[h], frame'[h])
  BY <1>1, <1>2, <1>3, LaunchDownstreamTaskTurn DEF WorkFrame, Brief, Publishes, DocsGoing
<1>5. Shown(pc[h], frame[h])'
  BY <1>1, <1>2, <1>3, LaunchDownstreamTaskTurn, StatusesApart DEF Shown, DocsGoing, AllLaunched, docVars,
     WorkFrame, SetTask, TypeInv, DocumentsOK
<1>6. StaysAhead(h)
  BY <1>1, <1>2, <1>3, LaunchDownstreamTaskTurn DEF StaysAhead, Ahead, LaunchesStay, WorkFrame, Publishes
<1>7. DocsStay
  BY <1>1, <1>2, <1>3, LaunchDownstreamTaskTurn, SetTaskHeard, SameDocsHeard, FrameFields DEF docVars
<1>. QED BY <1>3, <1>2, <1>4, <1>5, <1>6, <1>7, HeardStays DEF FrameStays

LEMMA ResetTaskHeard ==
    ASSUME TypeInv, ServeInv, HeardInv, NEW h \in Handler, ResetTask(h) PROVE HeardInv'
<1>1. Known(h)
  BY HeardKnown
<1>2. Rest(h) /\ frame'[h].job = frame[h].job /\ frame'[h].local = NOT_STARTED
  BY <1>1 DEF ResetTask, Go, Publish, Frame
<1>3. UNCHANGED <<upDep, jobStatus, outcome>> /\ SetTask(frame[h].task, NOT_STARTED) /\ pc[h] = "reset" /\ Others(h)
  BY <1>1, ResetTaskTurn DEF ResetTask
<1>4. WorkFrame(pc'[h], frame'[h])
  BY <1>1, <1>2, <1>3, ResetTaskTurn DEF WorkFrame, Brief, Publishes, DocsGoing
<1>5. Shown(pc[h], frame[h])'
  BY <1>1, <1>2, <1>3, ResetTaskTurn, StatusesApart DEF Shown, DocsGoing, AllLaunched, docVars, WorkFrame,
     SetTask, TypeInv, DocumentsOK
<1>6. StaysAhead(h) /\ LaunchesStay(h)
  BY <1>1, <1>2, <1>3, ResetTaskTurn DEF StaysAhead, Ahead, LaunchesStay, WorkFrame, Publishes
<1>7. DocsStay
  BY <1>1, <1>2, <1>3, SetTaskHeard
<1>. QED BY <1>3, <1>4, <1>5, <1>6, <1>7, HeardStays DEF FrameStays

LEMMA AfterDownstreamHeard ==
    ASSUME TypeInv, ServeInv, HeardInv, NEW h \in Handler, AfterDownstream(h) PROVE HeardInv'
<1>1. Known(h)
  BY HeardKnown
<1>0. frame[h].new # INTERRUPTED
  BY <1>1, StatusApart DEF WorkFrame
<1>2. Rest(h) /\ frame'[h].job = frame[h].job /\ frame'[h].local = frame[h].local
  BY <1>1, <1>0 DEF AfterDownstream, Go, Frame
<1>3. UNCHANGED docVars /\ pc[h] = "after" /\ Others(h)
  BY <1>0, <1>1, AfterDownstreamTurn DEF AfterDownstream, docVars
<1>4. FrameStays(h)
  BY <1>1, <1>2, <1>3, AfterDownstreamTurn, <1>0
     DEF FrameStays, WorkFrame, Brief, Publishes, DocsGoing, Shown, AllLaunched, docVars, StaysAhead, Ahead,
     LaunchesStay
<1>. QED BY <1>3, <1>4, SameDocsHeard, HeardStays

LEMMA RestartJobHeard ==
    ASSUME TypeInv, ServeInv, HeardInv, NEW h \in Handler, RestartJob(h) PROVE HeardInv'
<1>1. Known(h)
  BY HeardKnown
<1>2. frame'[h].job = NULL /\ frame'[h].kept = NULL
  BY <1>1, EmptyHeard, EmptyFields DEF RestartJob, Go, JobAction, Frame
<1>3. UNCHANGED <<taskStatus, upDep, outcome>> /\ jobStatus' = RUNNING /\ pc[h] = "idle" /\ Others(h)
  BY <1>1, RestartJobTurn DEF RestartJob, JobAction
<1>4. WorkFrame(pc'[h], frame'[h])
  BY <1>1, <1>2, <1>3, RestartJobTurn, EmptyHeard, EmptyFields, StatusesApart DEF WorkFrame, Brief,
     Publishes, DocsGoing, Serves, Ended, Going
<1>5. Shown(pc[h], frame[h])'
  BY <1>1, <1>2, <1>3, RestartJobTurn, EmptyHeard, EmptyFields, StatusesApart DEF Shown, DocsGoing,
     AllLaunched, docVars, WorkFrame, Serves
<1>6. StaysAhead(h) /\ LaunchesStay(h)
  BY <1>1, <1>2, <1>3, RestartJobTurn, EmptyHeard, EmptyFields, StatusesApart DEF StaysAhead, Ahead,
     LaunchesStay, WorkFrame, Publishes, Serves, Ended, Going
<1>7. DocsStay
  BY <1>1, <1>2, <1>3 , StatusesApart DEF DocsStay, LaunchedStay, TasksStay, NoNewEnd, DocsGoing, Going, AllLaunched, Existing
<1>. QED BY <1>3, <1>4, <1>5, <1>6, <1>7, HeardStays DEF FrameStays

LEMMA BeginDownstreamHeard ==
    ASSUME PlainJoins, TypeInv, ServeInv, HeardInv, NEW h \in Handler, BeginDownstream(h) PROVE HeardInv'
<1>0. PICK u : u = outcome[frame[h].of].task
  OBVIOUS
<1>1. Known(h)
  BY HeardKnown
<1>2. /\ pc'[h] = "downing" /\ frame'[h].down = Downstream(u) /\ frame'[h].launchTo = {}
      /\ frame'[h].kept = frame[h].kept /\ frame'[h].job = frame[h].job
  <2>1. frame[h].kept \notin {INTERRUPTING, INTERRUPTED}
    BY <1>1 DEF WorkFrame, Going, RUNNING, COMPLETED, FAILED, NULL, INTERRUPTING, INTERRUPTED
  <2>2. RoutedTo(u, frame[h].route) = {}
    BY DEF PlainJoins, RouteTargets, RoutedTo
  <2>3. Go(h, "downing", [frame[h] EXCEPT !.down = Downstream(u), !.launchTo = {}])
    BY <1>0, <2>1, <2>2 DEF BeginDownstream
  <2>. QED BY <1>1, <2>3 DEF Go, Frame
<1>3. UNCHANGED docVars /\ pc[h] = "down" /\ Others(h)
  BY BeginDownstreamTurn DEF BeginDownstream
<1>4. WorkFrame(pc'[h], frame'[h])
  BY <1>1, <1>2, <1>3, BeginDownstreamTurn DEF WorkFrame, Brief, Publishes
<1>5. Shown(pc[h], frame[h])'
  <2>1. outcome' = outcome /\ taskStatus' = taskStatus /\ frame'[h].of = frame[h].of
    BY <1>3, BeginDownstreamTurn DEF docVars
  <2>. QED BY <1>0, <1>1, <1>2, <2>1 DEF Shown, AllLaunched, Downstream
<1>6. StaysAhead(h) /\ LaunchesStay(h)
  BY <1>0, <1>1, <1>2, <1>3, BeginDownstreamTurn DEF StaysAhead, Ahead, LaunchesStay
<1>. QED BY <1>3, <1>4, <1>5, <1>6, SameDocsHeard, HeardStays DEF FrameStays

\* Agents report on outcomes that have not ended, and none is asked to stop.
LEMMA ReportArrivesHeard ==
    ASSUME TypeInv, ServeInv, ReportInv, HeardInv, NEW h \in Handler, ReportArrives(h) PROVE HeardInv'
<1>1. Known(h) /\ UNCHANGED docVars /\ pc[h] = "idle" /\ Others(h)
  BY HeardKnown, ReportArrivesTurn DEF ReportArrives
<1>0. PICK o \in Existing : \E r \in Report(o) :
        IF Refused(outcome[o].status, r[1])
        THEN Go(h, "idle", EmptyFrame)
        ELSE Go(h, "put", [EmptyFrame EXCEPT !.op = "report", !.of = o, !.new = r[1],
                              !.route = r[2], !.local = outcome[o].status])
  BY DEF ReportArrives
<1>2. PICK r \in Report(o) :
        IF Refused(outcome[o].status, r[1])
        THEN Go(h, "idle", EmptyFrame)
        ELSE Go(h, "put", [EmptyFrame EXCEPT !.op = "report", !.of = o, !.new = r[1],
                              !.route = r[2], !.local = outcome[o].status])
  BY <1>0
<1>3. agent[o] \in {"queued", "running"} /\ outcome[o].status \in {PUBLISHED, RUNNING}
  <2>1. agent[o] \in {"queued", "running"}
    BY ReportValues
  <2>. QED BY <1>1, <2>1 DEF ReportInv, Over, DocsGoing, Ended
<1>4. \/ r[1] = RUNNING \/ (r[1] = FAILED /\ r[2] = "fail") \/ (r[1] = SUCCEEDED /\ r[2] \in UserRoutes)
  <2>1. ~StopRequested(o)
    BY <1>3 DEF StopRequested, PUBLISHED, RUNNING, INTERRUPTING, CANCELING, CANCELLED
  <2>2. \/ r = <<RUNNING, "">> \/ r = <<FAILED, "fail">> \/ \E p \in UserRoutes : r = <<SUCCEEDED, p>>
    BY <1>3, <2>1 DEF Report
  <2>3. \A x, y : r = <<x, y>> => r[1] = x /\ r[2] = y
    OBVIOUS
  <2>. QED BY <2>2, <2>3
<1>5. LaunchesStay(h) /\ StaysAhead(h)
  BY <1>1 DEF LaunchesStay, StaysAhead, Ahead, WorkFrame, Publishes, Serves
<1>6. WorkFrame(pc'[h], frame'[h]) /\ Shown(pc[h], frame[h])'
  <2>1. CASE Refused(outcome[o].status, r[1])
    <3>1. pc'[h] = "idle" /\ frame'[h] = EmptyFrame
      BY <1>1, <1>2, <2>1 DEF Go
    <3>2. WorkFrame("idle", EmptyFrame) /\ EmptyFrame.kept # COMPLETED /\ EmptyFrame.job # COMPLETED
      BY EmptyHeard DEF NULL, COMPLETED
    <3>. QED BY <3>1, <3>2 DEF Shown
  <2>2. CASE ~Refused(outcome[o].status, r[1])
    <3>1. pc'[h] = "put" /\ frame'[h] = [EmptyFrame EXCEPT !.op = "report", !.of = o, !.new = r[1],
                                             !.route = r[2], !.local = outcome[o].status]
      BY <1>1, <1>2, <2>2 DEF Go
    <3>2. /\ frame'[h].op = "report" /\ frame'[h].new = r[1] /\ frame'[h].route = r[2]
          /\ frame'[h].local = outcome[o].status
          /\ frame'[h].kept = NULL /\ frame'[h].job = NULL /\ frame'[h].launch = {} /\ frame'[h].launchTo = {}
      BY <3>1 DEF EmptyFrame
    <3>3. /\ r[1] \in {RUNNING} \cup Ended /\ r[1] # NULL /\ outcome[o].status \notin Ended
          /\ (r[1] = SUCCEEDED => r[2] \in UserRoutes) /\ (r[1] = FAILED => r[2] = "fail")
      BY <1>3, <1>4 DEF Ended, RUNNING, PUBLISHED, SUCCEEDED, FAILED, NULL
    <3>4. NULL # COMPLETED
      BY DEF NULL, COMPLETED
    <3>. QED BY <3>1, <3>2, <3>3, <3>4 DEF WorkFrame, Brief, Shown
  <2>. QED BY <2>1, <2>2
<1>. QED BY <1>1, <1>5, <1>6, SameDocsHeard, HeardStays DEF FrameStays

LEMMA CreateTaskOutcomeHeard ==
    ASSUME TypeInv, ServeInv, HeardInv, NEW h \in Handler, CreateTaskOutcome(h) PROVE HeardInv'
<1>1. Known(h) /\ Others(h) /\ pc[h] = "save" /\ pc'[h] = "recheck" /\ UNCHANGED <<taskStatus, upDep, jobStatus>>
  BY HeardKnown, CreateTaskOutcomeTurn DEF CreateTaskOutcome
<1>2. PICK o \in Unused :
        /\ Existing' = Existing \cup {o} /\ \A p \in Existing : outcome'[p] = outcome[p]
        /\ outcome'[o].task = frame[h].task /\ outcome'[o].status = PUBLISHED
  BY CreateTaskOutcomeWrites
<1>3. Rest(h) /\ frame'[h].job = frame[h].job
  <2>1. PICK p \in Unused : Go(h, "recheck", [frame[h] EXCEPT !.out = p])
    BY DEF CreateTaskOutcome
  <2>. QED BY <1>1, <2>1 DEF Go, Frame
<1>4. frame[h].task \in Task /\ taskStatus[frame[h].task] # NULL
  BY <1>1 DEF Shown
<1>5. DocsStay
  BY <1>1, <1>2, <1>4, StatusesApart DEF DocsStay, LaunchedStay, TasksStay, NoNewEnd, DocsGoing, AllLaunched
<1>6. WorkFrame(pc'[h], frame'[h]) /\ Shown(pc[h], frame[h])'
  BY <1>1, <1>3, <1>4, CreateTaskOutcomeTurn DEF WorkFrame, Brief, Publishes, Shown, AllLaunched
<1>7. StaysAhead(h) /\ LaunchesStay(h)
  BY <1>1, CreateTaskOutcomeTurn DEF StaysAhead, Ahead, LaunchesStay
<1>. QED BY <1>1, <1>5, <1>6, <1>7, HeardStays DEF FrameStays

\* A failed outcome that is restarted is no end any more.
LEMMA RestartOutcomeHeard ==
    ASSUME TypeInv, ServeInv, HeardInv, NEW h \in Handler, RestartOutcome(h) PROVE HeardInv'
<1>1. Known(h) /\ Others(h) /\ pc[h] = "restarting" /\ UNCHANGED <<taskStatus, upDep, jobStatus>>
  BY HeardKnown, RestartOutcomeTurn DEF RestartOutcome
<1>2. PICK o \in frame[h].todoOut :
        LET g == [frame[h] EXCEPT !.todoOut = @ \ {o}]
        IN  IF Restartable(o)
            THEN /\ outcome' = [outcome EXCEPT ![o].status = CANCELLED, ![o].route = ""]
                 /\ Go(h, "reset", [g EXCEPT !.task = outcome[o].task])
            ELSE UNCHANGED outcome /\ Go(h, "restarting", g)
  BY DEF RestartOutcome
<1>3. Rest(h) /\ frame'[h].job = frame[h].job
  <2>1. CASE Restartable(o)
    <3>1. Go(h, "reset", [[frame[h] EXCEPT !.todoOut = @ \ {o}] EXCEPT !.task = outcome[o].task])
      BY <1>2, <2>1
    <3>. QED BY <1>1, <3>1 DEF Go, Frame
  <2>2. CASE ~Restartable(o)
    BY <1>1, <1>2, <2>2 DEF Go, Frame
  <2>. QED BY <2>1, <2>2
<1>4. /\ \A p \in Outcome : outcome'[p].task = outcome[p].task /\ (p # o => outcome'[p] = outcome[p])
      /\ outcome'[o] = outcome[o] \/ outcome'[o].status = CANCELLED
  <2>1. o \in Outcome
    BY <1>1 DEF Existing
  <2>2. CASE Restartable(o)
    <3>1. outcome' = [outcome EXCEPT ![o].status = CANCELLED, ![o].route = ""]
      BY <1>2, <2>2
    <3>. QED BY <2>1, <3>1 DEF TypeInv, DocumentsOK
  <2>3. CASE ~Restartable(o)
    BY <1>2, <2>3
  <2>. QED BY <2>2, <2>3
<1>5. Existing' = Existing
  BY <1>4 DEF Existing
<1>6. DocsStay
  BY <1>1, <1>4, <1>5, StatusesApart DEF DocsStay, LaunchedStay, TasksStay, NoNewEnd, DocsGoing, AllLaunched, Existing
<1>7. WorkFrame(pc'[h], frame'[h]) /\ Shown(pc[h], frame[h])'
  BY <1>1, <1>3, RestartOutcomeTurn DEF WorkFrame, Brief, Publishes, Shown, AllLaunched
<1>8. StaysAhead(h) /\ LaunchesStay(h)
  BY <1>1, RestartOutcomeTurn DEF StaysAhead, Ahead, LaunchesStay
<1>. QED BY <1>1, <1>6, <1>7, <1>8, HeardStays DEF FrameStays

\* The end that is reported has its own chain to tell of it.
LEMMA PutReportHeard ==
    ASSUME TypeInv, ServeInv, ReportInv, HeardInv, NEW h \in Handler, PutReport(h) PROVE HeardInv'
<1>0. PICK o : o = frame[h].of
  OBVIOUS
<1>1. Known(h) /\ pc[h] = "put" /\ Others(h) /\ UNCHANGED <<taskStatus, upDep, jobStatus>>
  BY HeardKnown, PutReportTurn DEF PutReport
<1>2. o \in Existing /\ outcome[o].status \notin Over /\ frame[h].op = "report" /\ frame[h].new \in {RUNNING} \cup Ended
  <2>1. frame[h].op = "report" /\ frame[h].new \in {RUNNING} \cup Ended
    BY <1>1 DEF Fits, ReportSteps, WorkFrame
  <2>. QED BY <1>0, <1>1, <2>1 DEF Fits, ReportInv, Sound, Reports
<1>3. outcome' = [outcome EXCEPT ![o].status = frame[h].new, ![o].route = frame[h].route]
  BY <1>0 DEF PutReport
<1>4. /\ \A p \in Outcome : outcome'[p].task = outcome[p].task /\ (p # o => outcome'[p] = outcome[p])
      /\ outcome'[o].status = frame[h].new /\ outcome'[o].route = frame[h].route
      /\ Existing' = Existing
  <2>1. /\ \A p \in Outcome : outcome'[p].task = outcome[p].task /\ (p # o => outcome'[p] = outcome[p])
        /\ outcome'[o].status = frame[h].new /\ outcome'[o].route = frame[h].route
    BY <1>2, <1>3 DEF TypeInv, DocumentsOK, Existing
  <2>. QED BY <2>1 DEF Existing
<1>5. IF frame[h].new \in Ended THEN pc'[h] = "readjob" /\ frame'[h].back = "waitlist" ELSE pc'[h] = "finish"
  <2>1. CASE frame[h].new \in Ended
    <3>1. frame[h].new # frame[h].local /\ frame[h].new >= SUCCEEDED /\ frame[h].new # INTERRUPTED
      BY <1>1, <2>1 DEF WorkFrame, Ended, SUCCEEDED, FAILED, INTERRUPTED
    <3>2. Go(h, "readjob", [[frame[h] EXCEPT !.local = NULL] EXCEPT !.back = "waitlist"])
      BY <3>1 DEF PutReport, UpdateJobStatus
    <3>. QED BY <1>1, <2>1, <3>2 DEF Go, Frame
  <2>2. CASE frame[h].new = RUNNING
    <3>1. Go(h, "finish", [frame[h] EXCEPT !.local = NULL])
      BY <2>2 DEF PutReport, RUNNING, SUCCEEDED, INTERRUPTED
    <3>. QED BY <1>1, <2>2, <3>1, StatusesApart DEF Go
  <2>. QED BY <1>2, <2>1, <2>2
<1>6. Rest(h) /\ frame'[h].job = frame[h].job
  <2>1. \/ \E b \in Steps : frame'[h] = [[frame[h] EXCEPT !.local = NULL] EXCEPT !.back = b]
        \/ frame'[h] = [frame[h] EXCEPT !.local = NULL]
    BY <1>1 DEF PutReport, UpdateJobStatus, Go, Steps
  <2>. QED BY <1>1, <2>1 DEF Frame
<1>7. WorkFrame(pc'[h], frame'[h]) /\ Shown(pc[h], frame[h])'
  BY <1>1, <1>2, <1>5, <1>6, PutReportTurn DEF WorkFrame, Brief, Publishes, Shown, AllLaunched
<1>8. LaunchedStay /\ TasksStay /\ LaunchesStay(h)
  BY <1>1, <1>4, PutReportTurn DEF LaunchedStay, TasksStay, LaunchesStay, Existing
<1>9. DocsGoing'
  BY <1>1, <1>4, <1>2 DEF DocsGoing, AllLaunched, Existing
<1>10. NoneForgotten'
  <2>. SUFFICES ASSUME NEW p \in Existing, NEW t \in Task, Unheard(p, t)' PROVE \E q \in Handler : Tell(q, p, t)'
    BY <1>4 DEF NoneForgotten
  <2>1. CASE p = o
    <3>1. frame[h].new \in Ended
      BY <1>4, <2>1 DEF Unheard
    <3>2. frame'[h].op = "report" /\ frame'[h].of = o /\ frame'[h].new = frame[h].new /\ frame'[h].route = frame[h].route
      BY <1>0, <1>2, PutReportTurn
    <3>. QED BY <1>4, <1>5, <2>1, <3>1, <3>2 DEF Tell, Ahead
  <2>2. CASE p # o
    <3>1. outcome'[p] = outcome[p] /\ Unheard(p, t)
      BY <1>1, <1>4, <2>2 DEF Unheard, AllLaunched, Follows, Matches, Existing
    <3>2. PICK q \in Handler : Tell(q, p, t)
      BY <3>1 DEF HeardInv, NoneForgotten
    <3>3. q # h
      BY <1>0, <2>2, <3>2 DEF Tell, Ahead
    <3>. QED BY <1>1, <3>1, <3>2, <3>3 DEF Tell, Others
  <2>. QED BY <2>1, <2>2
<1>. QED BY <1>1, <1>7, <1>8, <1>9, <1>10, ShownStays, MissedStays DEF HeardInv

\* One entry of down_dep: the task awaits one less, and the chain that finds itself the last
\* it awaited is the one that launches it.
LEMMA DescendHeard ==
    ASSUME PlainJoins, TypeInv, ServeInv, HeardInv, NEW h \in Handler, Descend(h) PROVE HeardInv'
<1>0. PICK o, u : o = frame[h].of /\ u = outcome[o].task
  OBVIOUS
<1>1. Known(h) /\ pc[h] = "downing" /\ Others(h) /\ UNCHANGED <<taskStatus, outcome, jobStatus>>
  BY HeardKnown, DescendTurn DEF Descend
<1>. DEFINE f == frame[h]
<1>2. f.op = "report" /\ f.new \in Ended /\ f.kept # CANCELING /\ (f.kept = COMPLETED => AllLaunched)
  <2>1. f.op = "report" /\ f.new \in Ended /\ (f.kept = COMPLETED => AllLaunched)
    BY <1>1 DEF Fits, ReportSteps, WorkFrame, Brief, Shown
  <2>2. CANCELING \notin Going \cup {NULL}
    BY DEF Going, CANCELING, RUNNING, COMPLETED, FAILED, NULL
  <2>. QED BY <1>1, <2>1, <2>2 DEF WorkFrame
<1>3. PICK d \in f.down :
        LET k == [f EXCEPT !.down = f.down \ {d}]
        IN  IF f.kept \notin {CANCELING, COMPLETED} /\ Follows(d, u, f.route)
            THEN /\ upDep' = [upDep EXCEPT ![d] = @ \ {u}]
                 /\ Go(h, "downing", [k EXCEPT !.launch = IF LastAwaited(d, u) THEN @ \cup {d} ELSE @])
            ELSE /\ UNCHANGED upDep
                 /\ IF f.kept \in {CANCELING, COMPLETED} \/ f.route # "fail"
                    THEN Go(h, "skipread", [k EXCEPT !.skip = <<d>>])
                    ELSE Go(h, "downing", k)
  BY <1>0 DEF Descend
<1>4. d \in Task /\ f.down \subseteq Downstream(u) /\ u \in Upstream(d)
  BY <1>0, <1>1 DEF Frame, Shown, Downstream, Upstream
<1>. DEFINE k == [f EXCEPT !.down = f.down \ {d}]
<1>5. \/ /\ Follows(d, u, f.route) /\ upDep' = [upDep EXCEPT ![d] = @ \ {u}]
         /\ Go(h, "downing", [k EXCEPT !.launch = IF LastAwaited(d, u) THEN @ \cup {d} ELSE @])
      \/ AllLaunched /\ upDep' = upDep /\ Go(h, "skipread", [k EXCEPT !.skip = <<d>>])
      \/ ~Follows(d, u, f.route) /\ upDep' = upDep /\ Go(h, "downing", k)
  <2>1. Follows(d, u, f.route) \/ f.route = "fail"
    BY <1>1, <1>2, <1>4 DEF PlainJoins, WorkFrame, Ended
  <2>. QED BY <1>2, <1>3, <2>1
<1>6. /\ pc'[h] \in {"downing", "skipread"} /\ (pc'[h] = "skipread" => AllLaunched)
      /\ frame'[h].down = f.down \ {d}
      /\ frame'[h].kept = f.kept /\ frame'[h].job = f.job /\ frame'[h].local = f.local
      /\ f.launch \subseteq frame'[h].launch
  <2>1. /\ k \in Frame /\ k.down = f.down \ {d} /\ k.kept = f.kept /\ k.job = f.job /\ k.local = f.local
        /\ k.launch = f.launch
    BY <1>1 DEF Frame
  <2>. HIDE DEF k
  <2>2. PICK l, z, at : /\ Go(h, at, [[k EXCEPT !.launch = l] EXCEPT !.skip = z])
                        /\ f.launch \subseteq l /\ (at = "downing" \/ (at = "skipread" /\ AllLaunched))
    <3>1. [[k EXCEPT !.launch = k.launch] EXCEPT !.skip = <<d>>] = [k EXCEPT !.skip = <<d>>]
      BY <2>1 DEF Frame
    <3>2. [[k EXCEPT !.launch = k.launch] EXCEPT !.skip = k.skip] = k
      BY <2>1 DEF Frame
    <3>3. \A l : [[k EXCEPT !.launch = l] EXCEPT !.skip = k.skip] = [k EXCEPT !.launch = l]
      BY <2>1 DEF Frame
    <3>4. CASE Go(h, "downing", [k EXCEPT !.launch = IF LastAwaited(d, u) THEN @ \cup {d} ELSE @])
      <4>1. PICK l : l = IF LastAwaited(d, u) THEN k.launch \cup {d} ELSE k.launch
        OBVIOUS
      <4>2. Go(h, "downing", [[k EXCEPT !.launch = l] EXCEPT !.skip = k.skip])
        BY <3>3, <3>4, <4>1
      <4>. WITNESS l, k.skip, "downing"
      <4>. QED BY <2>1, <4>1, <4>2
    <3>5. CASE AllLaunched /\ Go(h, "skipread", [k EXCEPT !.skip = <<d>>])
      <4>. WITNESS k.launch, <<d>>, "skipread"
      <4>. QED BY <2>1, <3>1, <3>5
    <3>6. CASE Go(h, "downing", k)
      <4>. WITNESS k.launch, k.skip, "downing"
      <4>. QED BY <2>1, <3>2, <3>6
    <3>. QED BY <1>5, <3>4, <3>5, <3>6
  <2>3. pc'[h] = at /\ frame'[h] = [[k EXCEPT !.launch = l] EXCEPT !.skip = z]
    BY <1>1, <2>2 DEF Go
  <2>. QED BY <2>1, <2>2, <2>3 DEF Frame
<1>7. \A t \in Task : \/ upDep'[t] = upDep[t]
                      \/ /\ t = d /\ Follows(d, u, f.route) /\ upDep'[d] = upDep[d] \ {u}
                         /\ upDep[d] = {u} => d \in frame'[h].launch
  <2>1. CASE Follows(d, u, f.route) /\ upDep' = [upDep EXCEPT ![d] = @ \ {u}]
           /\ Go(h, "downing", [k EXCEPT !.launch = IF LastAwaited(d, u) THEN @ \cup {d} ELSE @])
    <3>1. LastAwaited(d, u) => d \in frame'[h].launch
      <4>1. k \in Frame
        BY <1>1 DEF Frame
      <4>. HIDE DEF k
      <4>. QED BY <1>1, <2>1, <4>1 DEF Go, Frame
    <3>. QED BY <1>4, <2>1, <3>1 DEF TypeInv, DocumentsOK, LastAwaited
  <2>. QED BY <1>5, <2>1
<1>8. WorkFrame(pc'[h], frame'[h])
  BY <1>1, <1>2, <1>6, DescendTurn DEF WorkFrame, Brief, Publishes
<1>9. Shown(pc[h], frame[h])'
  <2>1. frame'[h].of = o
    BY <1>0, DescendTurn
  <2>. QED BY <1>0, <1>1, <1>4, <1>6, <2>1 DEF Shown, AllLaunched, Downstream
<1>10. LaunchedStay /\ TasksStay /\ DocsGoing'
  BY <1>1 DEF LaunchedStay, TasksStay, DocsGoing, AllLaunched, Existing
<1>11. NoneMissed'
  <2>. SUFFICES ASSUME NEW t \in Task, Upstream(t) # {}, upDep'[t] = {}, taskStatus'[t] = NULL
                PROVE  \E q \in Handler : t \in frame'[q].launch
    BY DEF NoneMissed, Upstream
  <2>1. CASE upDep[t] = {}
    <3>1. PICK q \in Handler : t \in frame[q].launch
      BY <1>1, <2>1 DEF HeardInv, NoneMissed
    <3>. QED BY <1>1, <1>6, <3>1 DEF Others
  <2>2. CASE upDep[t] # {}
    <3>1. t = d /\ upDep[d] = {u}
      BY <1>7, <2>2
    <3>. QED BY <1>7, <2>2, <3>1
  <2>. QED BY <2>1, <2>2
<1>12. NoneForgotten'
  <2>. SUFFICES ASSUME NEW p \in Existing, NEW t \in Task, Unheard(p, t)' PROVE \E q \in Handler : Tell(q, p, t)'
    BY <1>1 DEF NoneForgotten, Existing
  <2>1. Unheard(p, t) /\ outcome[p].task \in upDep'[t]
    BY <1>1, <1>7 DEF Unheard, AllLaunched, Follows, Matches
  <2>2. PICK q \in Handler : Tell(q, p, t)
    BY <2>1 DEF HeardInv, NoneForgotten
  <2>3. CASE q # h
    BY <1>1, <2>2, <2>3 DEF Tell, Others
  <2>4. CASE q = h
    <3>1. p = o /\ t \in f.down /\ f.route = outcome[p].route
      BY <1>0, <1>1, <2>2, <2>4 DEF Tell, Ahead
    <3>2. t # d
      <4>. SUFFICES ASSUME t = d PROVE FALSE
        OBVIOUS
      <4>1. Follows(d, u, f.route) /\ u \in upDep'[d] /\ ~AllLaunched
        BY <1>0, <2>1, <3>1 DEF Unheard
      <4>. QED BY <1>4, <1>5, <4>1 DEF TypeInv, DocumentsOK
    <3>3. /\ frame'[h].op = "report" /\ frame'[h].of = p /\ frame'[h].new \in Ended /\ frame'[h].route = f.route
          /\ t \in frame'[h].down
      BY <1>0, <1>2, <1>6, <3>1, <3>2, DescendTurn
    <3>. QED BY <1>1, <1>6, <3>1, <3>3 DEF Tell, Ahead
  <2>. QED BY <2>3, <2>4
<1>. QED BY <1>1, <1>8, <1>9, <1>10, <1>11, <1>12, ShownStays DEF HeardInv

\* What such a job never comes to: nothing is stopped or skipped, no agent is missing.
LEMMA NothingStops ==
    ASSUME PlainJoins, TypeInv, ServeInv, HeardInv, NEW h \in Handler
    PROVE  /\ ~RouteFails(h) /\ ~CancelNewOutcome(h) /\ ~PutCancelled(h) /\ ~TakeWaitingTask(h)
           /\ ~WriteSkipped(h) /\ ~LaunchRouteTarget(h) /\ ~RepublishTask(h) /\ ~AgentReturns(h)
           /\ ~ListTasksToStop(h) /\ ~StopTask(h) /\ ~ListOutcomesToStop(h) /\ ~StopNextOutcome(h)
           /\ ~JobStopped(h) /\ ~CancelJob(h) /\ ~InterruptJob(h) /\ ~StopTaskOutcome(h)
<1>1. WorkFrame(pc[h], frame[h]) /\ Serves(pc[h], frame[h])
  BY HeardKnown
<1>2. ~RouteFails(h)
  BY <1>1 DEF WorkFrame, RouteFails, PlainJoins, NOT_STARTED, PUBLISHED
<1>3. /\ ~CancelNewOutcome(h) /\ ~PutCancelled(h) /\ ~TakeWaitingTask(h) /\ ~WriteSkipped(h) /\ ~RepublishTask(h)
  BY <1>1 DEF WorkFrame, CancelNewOutcome, PutCancelled, TakeWaitingTask, WriteSkipped, RepublishTask
<1>4. ~LaunchRouteTarget(h)
  BY <1>1 DEF WorkFrame, LaunchRouteTarget
<1>5. pc[h] \notin {"canceltasks", "interrupttasks", "stoptasks", "stopping"}
  BY <1>1 DEF WorkFrame, Serves
<1>6. ~ListTasksToStop(h) /\ ~StopTask(h) /\ ~ListOutcomesToStop(h) /\ ~StopNextOutcome(h) /\ ~JobStopped(h)
  BY <1>5 DEF ListTasksToStop, StopTask, ListOutcomesToStop, StopNextOutcome, JobStopped
<1>7. ~AgentReturns(h) /\ ~CancelJob(h) /\ ~InterruptJob(h) /\ ~StopTaskOutcome(h)
  BY DEF PlainJoins, AgentReturns, CancelJob, InterruptJob, JobAction, StopTaskOutcome
<1>. QED BY <1>2, <1>3, <1>4, <1>6, <1>7

LEMMA InitHeard == Init => HeardInv
<1>. SUFFICES ASSUME Init PROVE HeardInv
  OBVIOUS
<1>1. Existing = {} /\ \A h \in Handler : pc[h] = "idle" /\ frame[h] = EmptyFrame
  BY DEF Init, Existing, NoDocument
<1>2. jobStatus = RUNNING /\ \A t \in Task : taskStatus[t] = NULL /\ upDep[t] = Upstream(t)
  BY DEF Init
<1>3. DocsGoing
  BY <1>1, <1>2, StatusesApart DEF DocsGoing, Going
<1>4. NoneMissed /\ NoneForgotten
  BY <1>1, <1>2 DEF NoneMissed, NoneForgotten
<1>5. \A h \in Handler : WorkFrame(pc[h], frame[h])
  BY <1>1, EmptyHeard
<1>6. \A h \in Handler : Shown(pc[h], frame[h])
  BY <1>1, EmptyHeard DEF Shown, NULL, COMPLETED
<1>. QED BY <1>3, <1>4, <1>5, <1>6 DEF HeardInv

LEMMA StutterHeard == ASSUME HeardInv, UNCHANGED vars PROVE HeardInv'
<1>1. UNCHANGED <<taskStatus, upDep, jobStatus, outcome, pc, frame>> /\ Existing' = Existing
  BY DEF vars, Existing
<1>2. DocsGoing' /\ NoneMissed'
  BY <1>1 DEF HeardInv, DocsGoing, NoneMissed, AllLaunched, Upstream
<1>3. NoneForgotten'
  BY <1>1 DEF HeardInv, NoneForgotten, Unheard, Tell, AllLaunched, Follows, Matches
<1>4. \A h \in Handler : WorkFrame(pc'[h], frame'[h]) /\ Shown(pc[h], frame[h])'
  BY <1>1 DEF HeardInv, Shown, AllLaunched, Downstream
<1>. QED BY <1>2, <1>3, <1>4 DEF HeardInv

LEMMA StepHeard ==
    PlainJoins /\ TypeInv /\ ServeInv /\ ReportInv /\ HeardInv /\ [Next]_vars => HeardInv'
<1>. SUFFICES ASSUME PlainJoins, TypeInv, ServeInv, ReportInv, HeardInv, [Next]_vars PROVE HeardInv'
  OBVIOUS
<1>1. CASE UNCHANGED vars
  BY <1>1, StutterHeard
<1>. SUFFICES ASSUME NEW h \in Handler,
                     Step(h) \/ LaunchJob(h) \/ ReportArrives(h) \/ AgentReturns(h) \/ UserRequest(h)
              PROVE HeardInv'
  BY <1>1 DEF Next
<1>2. CASE UpdateStep(h)
  BY <1>2, ReadJobHeard, ReadOutcomesHeard, ReadTasksHeard, WriteJobHeard, RereadJobHeard DEF UpdateStep
<1>3. CASE PublishStep(h)
  BY <1>3, NothingStops, RouteToAgentHeard, CreateTaskOutcomeHeard, RecheckTaskHeard, SendToAgentHeard,
     PublishedHeard DEF PublishStep
<1>4. CASE StartStep(h)
  BY <1>4, BeginTasksHeard, SnapshotTasksHeard, StartTaskHeard, TasksStartedHeard, StartEndsHeard
     DEF StartStep
<1>5. CASE ReportStep(h)
  BY <1>5, NothingStops, PutReportHeard, ListWaitingTasksHeard, ExamineWaitingTaskHeard,
     WaitingTasksDoneHeard, BeginDownstreamHeard, DescendHeard, ReadSkippedHeard, DescendEndsHeard,
     LaunchDownstreamTaskHeard, LaunchEndsHeard, AfterDownstreamHeard, FinishReportHeard
     DEF ReportStep
<1>6. CASE ActionStep(h)
  BY <1>6, NothingStops, ListOutcomesToRestartHeard, RestartOutcomeHeard, ResetTaskHeard,
     OutcomesRestartedHeard DEF ActionStep
<1>7. CASE UserRequest(h)
  BY <1>7, NothingStops, RestartJobHeard, RestartTaskOutcomeHeard DEF UserRequest
<1>8. CASE LaunchJob(h) \/ ReportArrives(h) \/ AgentReturns(h)
  BY <1>8, NothingStops, LaunchJobHeard, ReportArrivesHeard
<1>. QED BY <1>2, <1>3, <1>4, <1>5, <1>6, <1>7, <1>8 DEF Step

\* At rest no chain has a launch or a task before it, so a task whose upstream tasks have
\* all ended for it awaits nobody, and has been launched.
LEMMA HeardAtRest == JoinInv /\ HeardInv => NoLostJoin
<1>. SUFFICES ASSUME JoinInv, HeardInv, Quiet, NEW t \in Task, Upstream(t) # {},
                     \A u \in Upstream(t) : EndedFor(u, t), taskStatus[t] \in {NULL, SKIPPED}
              PROVE  FALSE
  BY DEF NoLostJoin, AtRest
<1>1. taskStatus[t] = NULL /\ ~AllLaunched
  BY DEF HeardInv, DocsGoing, AllLaunched, SKIPPED, NULL, NOT_STARTED, PUBLISHED
<1>2. CASE upDep[t] = {}
  <2>1. PICK h \in Handler : t \in frame[h].launch
    BY <1>1, <1>2 DEF HeardInv, NoneMissed
  <2>2. WorkFrame("idle", frame[h]) /\ frame[h].launch # {}
    BY <2>1 DEF HeardInv, Quiet
  <2>. QED BY <2>2 DEF WorkFrame, Publishes
<1>3. CASE upDep[t] # {}
  <2>1. PICK u \in Upstream(t) : u \in upDep[t]
    BY <1>3 DEF JoinInv
  <2>2. PICK o \in OutcomesOf(u) : outcome[o].status \in {SUCCEEDED, FAILED} /\ Follows(t, u, outcome[o].route)
    BY DEF EndedFor
  <2>3. o \in Existing /\ Unheard(o, t)
    BY <1>1, <2>1, <2>2 DEF OutcomesOf, Unheard, Ended
  <2>4. PICK h \in Handler : Tell(h, o, t)
    BY <2>3 DEF HeardInv, NoneForgotten
  <2>. QED BY <2>4 DEF Tell, Ahead, Quiet
<1>. QED BY <1>2, <1>3

\* No join is lost in a job without routes that nobody stops and that has its agents, whatever
\* fails and is restarted: once the chains have come to rest, a task whose upstream tasks have
\* all ended for it has been launched, although each of them was reported on by a chain of its
\* own, and a restart publishes again what those chains are still about to launch.
THEOREM JoinNotLost == ASSUME PlainJoins PROVE Spec => []NoLostJoin
<1>. DEFINE All == TypeInv /\ ServeInv /\ JoinInv /\ ReportInv /\ HeardInv
<1>1. Init => All
  BY InitType, InitServes, InitReports, InitHeard
<1>2. All /\ [Next]_vars => All'
  BY StepType, StepServes, StepJoin, StepReports, StepHeard
<1>3. All => NoLostJoin
  BY HeardAtRest
<1>. QED BY <1>1, <1>2, <1>3, PTL DEF Spec
=============================================================================
