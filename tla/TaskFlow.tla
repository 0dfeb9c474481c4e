------------------------------ MODULE TaskFlow ------------------------------
(***************************************************************************)
(* The tasks of ONE running job: which task is launched when, what an      *)
(* outcome reported by an agent sets off, and how the job's status follows *)
(* from its tasks and their outcomes.                                      *)
(*                                                                         *)
(* As in JobLaunch a handler is one asynchronous call chain, and a step is *)
(* one database call (or one message published) with the synchronous code  *)
(* up to the next await.  Tasks are numbered in the order the code lists   *)
(* them, outcomes in the order of their creation.  Agents are external:    *)
(* they send the reports of one outcome one after the other.               *)
(***************************************************************************)
EXTENDS Integers, Sequences, FiniteSets, Enums

CONSTANTS
    Task,         \* the job's tasks, positive numbers in their order
    FromRoutes,   \* <<t, u, p>>: task t waits for task u to end with a route matching p
    ToRoutes,     \* <<u, t, p>>: task u sends its route to task t if it matches p
    AutoRestart,  \* tasks with `autoRestart'
    Handler,      \* bound: call chains in progress at the same time
    Outcome,      \* bound: the outcomes that may be created, positive numbers
    UserRoutes,   \* routes a successful task may choose
    Events        \* the kinds of request and failure of this instance

NoTask == 0
NoOutcome == 0
AnyRoute == "default"                        \* /^(?!fail$).*$/
Route == {"", "fail", "interrupt"} \cup UserRoutes

ASSUME ConstantsAssumption ==
    /\ Task \subseteq Nat \ {0} /\ IsFiniteSet(Task)
    /\ FromRoutes \subseteq Task \X Task \X (Route \cup {AnyRoute})
    /\ ToRoutes \subseteq Task \X Task \X (Route \cup {AnyRoute})
    /\ AutoRestart \subseteq Task
    /\ Outcome \subseteq Nat \ {0}

VARIABLES
    taskStatus,   \* Task.status
    upDep,        \* Task.up_dep: the upstream tasks still awaited
    jobStatus,    \* Job.status
    outcome,      \* the TaskOutcome documents
    agent,        \* external: how far the agent is with an outcome
    pc, frame,    \* per handler: where it stands and its local variables
    started,      \* the launcher has started the job
    matched       \* history: <<u, t>> once u has ended with a route t waits for

docVars == <<taskStatus, upDep, jobStatus, outcome>>
vars == <<taskStatus, upDep, jobStatus, outcome, agent, pc, frame, started, matched>>

Steps == {"idle", "readjob", "outcomes", "tasks", "write", "reread",
          "route", "save", "recheck", "cancelnew", "send", "published",
          "begin", "snapshot", "starting", "started",
          "put", "cancelled", "waitlist", "waiting", "take", "down", "downing",
          "skipread", "skipwrite", "launching", "after", "republish", "finish",
          "restartlist", "restarting", "reset",
          "canceltasks", "interrupttasks", "stoptasks", "stopping"}

\* The locals of a call chain.
\*   op        the request                    of        the outcome it is about
\*   new       the reported status            route     the reported route
\*   job       a job status read or computed  kept      one the request itself uses
\*   present   statuses counted so far        covered   tasks with an outcome (taskIds)
\*   back      where UpdateJobStatus returns  then      where PublishTask returns
\*   task      the task being published       local     its status as the code holds it
\*   out       the outcome just created       any       some task has been published
\*   todo, todoOut, down, launchTo, launch    what the loops have left
\*   skip      the calls of OnTaskSkipped under way, innermost first
EmptyFrame ==
    [op |-> "none", of |-> NoOutcome, new |-> NULL, route |-> "", job |-> NULL, kept |-> NULL,
     present |-> {}, covered |-> {}, back |-> "idle", then |-> "idle", task |-> NoTask,
     local |-> NULL, out |-> NoOutcome, any |-> FALSE, todo |-> {}, todoOut |-> {},
     down |-> {}, launchTo |-> {}, launch |-> {}, skip |-> <<>>]

NoDocument == [task |-> NoTask, status |-> NULL, route |-> ""]
Existing == {o \in Outcome : outcome[o].task # NoTask}
Unused == Outcome \ Existing

IsFirst(x, S) == x \in S /\ \A y \in S : x <= y

\* The tasks of S in their order: there is one such sequence.
Listings(S) ==
    LET N == 1..Cardinality(S) IN {s \in [N -> S] : \A i, j \in N : i < j => s[i] < s[j]}

Upstream(t)   == {r[2] : r \in {r \in FromRoutes : r[1] = t}}
Downstream(u) == {r[1] : r \in {r \in FromRoutes : r[2] = u}}      \* down_dep
RouteTargets  == {r[2] : r \in ToRoutes}

Matches(route, pattern) == IF pattern = AnyRoute THEN route # "fail" ELSE route = pattern
Follows(t, u, route) == \E r \in FromRoutes : r[1] = t /\ r[2] = u /\ Matches(route, r[3])
RoutedTo(u, route) == {r[2] : r \in {r \in ToRoutes : r[1] = u /\ Matches(route, r[3])}}

\* Without upstream tasks (left) and not the target of a route: TaskReadyToPublish.
Root(t) == upDep[t] = {} /\ t \notin RouteTargets

Go(h, next, f) ==
    /\ pc' = [pc EXCEPT ![h] = next]
    /\ frame' = [frame EXCEPT ![h] = IF next = "idle" THEN EmptyFrame ELSE f]

SetTask(t, s) == taskStatus' = [taskStatus EXCEPT ![t] = s]
SetOutcome(o, s) == outcome' = [outcome EXCEPT ![o].status = s]

-----------------------------------------------------------------------------
(***************************************************************************)
(* UpdateJobStatus: with the job read first, or with a job passed to it    *)
(***************************************************************************)
UpdateJobStatus(h, f, back) == Go(h, "readjob", [f EXCEPT !.back = back])

UpdatePassedJob(h, f, status, back) ==
    Go(h, "outcomes", [f EXCEPT !.job = status, !.back = back])

\* Mutant: the job takes the status of its least advanced task.
LeastAdvanced(current, present) ==
    IF present = {} THEN current ELSE CHOOSE s \in present : \A r \in present : s <= r

\* Mutant: tasks that have not started are not looked at.
NotStartedIgnored(current, present) ==
    IF present \cap {WAITING_FOR_AGENT, PUBLISHED, RUNNING, INTERRUPTING, INTERRUPTED, CANCELING} = {}
    THEN IF FAILED \in present THEN FAILED ELSE COMPLETED
    ELSE IF current \in {COMPLETED, INTERRUPTED, FAILED} /\ RUNNING \in present THEN RUNNING
    ELSE current

\* The status of a job whose tasks and outcomes show the statuses `present'.
CheckJobStatus(current, present) ==
    LET Has(s) == s \in present
        complete == present \cap {NOT_STARTED, WAITING_FOR_AGENT, PUBLISHED, RUNNING,
                                  INTERRUPTING, INTERRUPTED, CANCELING} = {}
        stuck == /\ Has(NOT_STARTED) /\ Has(FAILED)
                 /\ present \cap {WAITING_FOR_AGENT, PUBLISHED, RUNNING} = {}
    IN  CASE complete -> IF Has(FAILED) THEN FAILED ELSE COMPLETED
          [] ~complete /\ stuck -> FAILED
          [] ~complete /\ ~stuck /\ current = INTERRUPTING /\ ~Has(RUNNING) -> INTERRUPTED
          [] ~complete /\ ~stuck /\ current \in {COMPLETED, INTERRUPTED, FAILED} /\ Has(RUNNING) -> RUNNING
          [] OTHER -> current

\* Task statuses the second query selects, and how they are counted.
Counted == {NULL, NOT_STARTED, WAITING_FOR_AGENT, PUBLISHED, INTERRUPTED, FAILED, CANCELLED}
CountAs(s) == IF s = NULL THEN NOT_STARTED ELSE s

\* Mutant: a task with an outcome is counted once more with its own status.
CountedTwice(covered) == Task

\* The tasks that are counted with their own status: those without an outcome.
WithoutOutcome(covered) == Task \ covered

ReadJob(h) ==
    /\ pc[h] = "readjob"
    /\ Go(h, "outcomes", [frame[h] EXCEPT !.job = jobStatus])
    /\ UNCHANGED <<docVars, agent, started, matched>>

ReadOutcomes(h) ==
    /\ pc[h] = "outcomes"
    /\ Go(h, "tasks", [frame[h] EXCEPT !.present = {outcome[o].status : o \in Existing},
                                       !.covered = {outcome[o].task : o \in Existing}])
    /\ UNCHANGED <<docVars, agent, started, matched>>

ReadTasks(h) ==
    LET f == frame[h]
        others == {t \in WithoutOutcome(f.covered) : taskStatus[t] \in Counted}
        status == CheckJobStatus(f.job, f.present \cup {CountAs(taskStatus[t]) : t \in others})
        g == [f EXCEPT !.present = {}, !.covered = {}, !.job = status]
    IN  /\ pc[h] = "tasks"
        /\ Go(h, IF status = f.job THEN f.back ELSE "write", g)
        /\ UNCHANGED <<docVars, agent, started, matched>>

\* updateJob, which returns the job as it finds it after the write.
WriteJob(h) ==
    LET f == frame[h]
    IN  /\ pc[h] = "write"
        /\ jobStatus' = f.job
        /\ Go(h, IF f.back = "waitlist" THEN "reread" ELSE f.back, f)
        /\ UNCHANGED <<taskStatus, upDep, outcome, agent, started, matched>>

RereadJob(h) ==
    /\ pc[h] = "reread"
    /\ Go(h, frame[h].back, [frame[h] EXCEPT !.job = jobStatus])
    /\ UNCHANGED <<docVars, agent, started, matched>>

-----------------------------------------------------------------------------
(***************************************************************************)
(* PublishTask, with the creation of the outcome                           *)
(***************************************************************************)
Publish(h, f, t, local, then) ==
    Go(h, "route", [f EXCEPT !.task = t, !.local = local, !.then = then])

\* GetTaskRoutes finds an agent: the task is PUBLISHED before its outcome exists.
RouteToAgent(h) ==
    LET f == frame[h]
    IN  /\ pc[h] = "route"
        /\ f.local <= PUBLISHED
        /\ SetTask(f.task, PUBLISHED)
        /\ Go(h, "save", f)
        /\ UNCHANGED <<upDep, jobStatus, outcome, agent, started, matched>>

\* It finds none, or the task is past being published.
RouteFails(h) ==
    LET f == frame[h]
    IN  /\ pc[h] = "route"
        /\ \/ f.local > PUBLISHED /\ SetTask(f.task, FAILED)
           \/ f.local <= PUBLISHED /\ "noagent" \in Events /\ SetTask(f.task, WAITING_FOR_AGENT)
        /\ UpdateJobStatus(h, f, "published")
        /\ UNCHANGED <<upDep, jobStatus, outcome, agent, started, matched>>

CreateTaskOutcome(h) ==
    LET f == frame[h]
    IN  /\ pc[h] = "save"
        /\ \E o \in Unused :
            /\ IsFirst(o, Unused)
            /\ outcome' = [outcome EXCEPT ![o] = [task |-> f.task, status |-> PUBLISHED, route |-> ""]]
            /\ Go(h, "recheck", [f EXCEPT !.out = o])
        /\ UNCHANGED <<taskStatus, upDep, jobStatus, agent, started, matched>>

\* A task cancelled meanwhile gets its new outcome cancelled.
RecheckTask(h) ==
    /\ pc[h] = "recheck"
    /\ IF taskStatus[frame[h].task] = CANCELLED THEN Go(h, "cancelnew", frame[h])
                                                ELSE UpdateJobStatus(h, frame[h], "send")
    /\ UNCHANGED <<docVars, agent, started, matched>>

Cancellable(o) == outcome[o].status < CANCELING \/ outcome[o].status = FAILED

\* cancelTaskOutcome throws when the outcome was cancelled by someone else;
\* PublishTask then hands the task to the launch error queue and fails.
CancelNewOutcome(h) ==
    LET f == frame[h]
    IN  /\ pc[h] = "cancelnew"
        /\ IF Cancellable(f.out)
           THEN SetOutcome(f.out, CANCELING) /\ UpdateJobStatus(h, f, "send")
           ELSE UNCHANGED outcome /\ Go(h, "published", f)
        /\ UNCHANGED <<taskStatus, upDep, jobStatus, agent, started, matched>>

SendToAgent(h) ==
    LET f == frame[h]
    IN  /\ pc[h] = "send"
        /\ agent' = [agent EXCEPT ![f.out] = "queued"]
        /\ UpdateJobStatus(h, [f EXCEPT !.any = TRUE], "published")
        /\ UNCHANGED <<docVars, started, matched>>

Published(h) ==
    LET f == frame[h]
    IN  /\ pc[h] = "published"
        /\ Go(h, f.then, [f EXCEPT !.task = NoTask, !.local = NULL, !.out = NoOutcome,
                                   !.then = "idle", !.job = NULL, !.back = "idle"])
        /\ UNCHANGED <<docVars, agent, started, matched>>

-----------------------------------------------------------------------------
(***************************************************************************)
(* LaunchTasksWithNoUpstreamDependencies, of the launcher and of restartJob *)
(***************************************************************************)
LaunchJob(h) ==
    /\ pc[h] = "idle"
    /\ ~started
    /\ started' = TRUE
    /\ Go(h, "begin", [EmptyFrame EXCEPT !.op = "start"])
    /\ UNCHANGED <<docVars, agent, matched>>

BeginTasks(h) ==
    /\ pc[h] = "begin"
    /\ Go(h, "snapshot", [frame[h] EXCEPT !.kept = jobStatus])
    /\ UNCHANGED <<docVars, agent, started, matched>>

SnapshotTasks(h) ==
    /\ pc[h] = "snapshot"
    /\ Go(h, "starting", [frame[h] EXCEPT !.any = FALSE,
                                          !.todo = {t \in Task : Root(t) /\ taskStatus[t] = NULL}])
    /\ UNCHANGED <<docVars, agent, started, matched>>

\* The update is conditional, but the task is published whether or not it applied.
StartTask(h) ==
    LET f == frame[h]
    IN  /\ pc[h] = "starting"
        /\ \E t \in f.todo :
            /\ IsFirst(t, f.todo)
            /\ IF taskStatus[t] = NULL THEN SetTask(t, NOT_STARTED) ELSE UNCHANGED taskStatus
            /\ Publish(h, [f EXCEPT !.todo = f.todo \ {t}], t, NOT_STARTED, "starting")
        /\ UNCHANGED <<upDep, jobStatus, outcome, agent, started, matched>>

\* When no task could be published, UpdateJobStatus with the status read first.
TasksStarted(h) ==
    LET f == frame[h]
    IN  /\ pc[h] = "starting"
        /\ f.todo = {}
        /\ IF f.any THEN Go(h, "started", f) ELSE UpdatePassedJob(h, f, f.kept, "started")
        /\ UNCHANGED <<docVars, agent, started, matched>>

\* The launcher is done; restartJob ends with an UpdateJobStatus of its own.
StartEnds(h) ==
    LET f == frame[h]
    IN  /\ pc[h] = "started"
        /\ IF f.op = "restart" THEN UpdatePassedJob(h, f, RUNNING, "idle") ELSE Go(h, "idle", f)
        /\ UNCHANGED <<docVars, agent, started, matched>>

-----------------------------------------------------------------------------
(***************************************************************************)
(* updateTaskOutcome: an agent reports on an outcome                       *)
(***************************************************************************)
\* The agent has been told to interrupt the task.
StopRequested(o) == outcome[o].status \in {INTERRUPTING, CANCELING, CANCELLED}

\* External: what the agent may report next, and the route that goes with it.
Report(o) ==
    IF agent[o] = "queued" THEN {<<RUNNING, "">>}
    ELSE IF agent[o] # "running" THEN {}
    ELSE (IF "fail" \in Events THEN {<<FAILED, "fail">>} ELSE {})
         \cup {<<SUCCEEDED, r>> : r \in UserRoutes}
         \cup (IF StopRequested(o) THEN {<<INTERRUPTED, "interrupt">>} ELSE {})

Reporting(o) == \E h \in Handler : frame[h].op = "report" /\ frame[h].of = o

\* A completed outcome keeps its status, except that CANCELLED may be interrupted.
Refused(current, new) ==
    /\ current # new
    /\ current >= SUCCEEDED
    /\ new # INTERRUPTED \/ current # CANCELLED

ReportArrives(h) ==
    /\ pc[h] = "idle"
    /\ \E o \in Existing :
        /\ ~Reporting(o)
        /\ \E r \in Report(o) :
            /\ agent' = [agent EXCEPT ![o] = IF r[1] = RUNNING THEN "running" ELSE "done"]
            /\ IF Refused(outcome[o].status, r[1])
               THEN Go(h, "idle", EmptyFrame)
               ELSE Go(h, "put", [EmptyFrame EXCEPT !.op = "report", !.of = o, !.new = r[1],
                                     !.route = r[2], !.local = outcome[o].status])
    /\ UNCHANGED <<docVars, started, matched>>

\* The write has no condition on the status that was just checked.
PutReport(h) ==
    LET f == frame[h]
        g == [f EXCEPT !.local = NULL]
        ends == f.new >= SUCCEEDED \/ f.new = INTERRUPTED
    IN  /\ pc[h] = "put"
        /\ outcome' = [outcome EXCEPT ![f.of].status = f.new, ![f.of].route = f.route]
        /\ IF f.new = f.local \/ ~ends THEN Go(h, "finish", g)
           ELSE IF f.new = INTERRUPTED /\ f.local \in {CANCELLED, CANCELING} THEN Go(h, "cancelled", g)
           ELSE UpdateJobStatus(h, g, "waitlist")
        /\ UNCHANGED <<taskStatus, upDep, jobStatus, agent, started, matched>>

\* The interruption was the end of a cancellation.
PutCancelled(h) ==
    LET f == frame[h]
    IN  /\ pc[h] = "cancelled"
        /\ SetOutcome(f.of, CANCELLED)
        /\ UpdateJobStatus(h, [f EXCEPT !.new = CANCELLED], "waitlist")
        /\ UNCHANGED <<taskStatus, upDep, jobStatus, agent, started, matched>>

(***************************************************************************)
(* RepublishTasksWaitingForAgent, after a report and on an agent's return  *)
(***************************************************************************)
AgentReturns(h) ==
    /\ "noagent" \in Events
    /\ pc[h] = "idle"
    /\ \E t \in Task : taskStatus[t] = WAITING_FOR_AGENT
    /\ Go(h, "waitlist", [EmptyFrame EXCEPT !.op = "waiting"])
    /\ UNCHANGED <<docVars, agent, started, matched>>

ListWaitingTasks(h) ==
    LET f == frame[h]
    IN  /\ pc[h] = "waitlist"
        /\ Go(h, "waiting", [f EXCEPT !.kept = f.job, !.job = NULL, !.back = "idle",
                                      !.todo = {t \in Task : taskStatus[t] = WAITING_FOR_AGENT}])
        /\ UNCHANGED <<docVars, agent, started, matched>>

\* Only a task that could be started again by itself is taken.
ExamineWaitingTask(h) ==
    LET f == frame[h]
    IN  /\ pc[h] = "waiting"
        /\ \E t \in f.todo :
            /\ IsFirst(t, f.todo)
            /\ IF Root(t) /\ taskStatus[t] = WAITING_FOR_AGENT
               THEN Go(h, "take", [f EXCEPT !.todo = f.todo \ {t}, !.task = t])
               ELSE Go(h, "waiting", [f EXCEPT !.todo = f.todo \ {t}])
        /\ UNCHANGED <<docVars, agent, started, matched>>

\* The filter of the update in RepublishTask.
StillWaiting(t) == taskStatus[t] = WAITING_FOR_AGENT

\* The conditional update throws when another handler took the task, and the
\* exception ends the whole request, a report included.
TakeWaitingTask(h) ==
    LET f == frame[h]
    IN  /\ pc[h] = "take"
        /\ IF StillWaiting(f.task)
           THEN SetTask(f.task, NOT_STARTED) /\ Publish(h, f, f.task, NOT_STARTED, "waiting")
           ELSE UNCHANGED taskStatus /\ Go(h, "idle", f)
        /\ UNCHANGED <<upDep, jobStatus, outcome, agent, started, matched>>

WaitingTasksDone(h) ==
    LET f == frame[h]
    IN  /\ pc[h] = "waiting"
        /\ f.todo = {}
        /\ Go(h, IF f.op = "report" THEN "down" ELSE "idle", f)
        /\ UNCHANGED <<docVars, agent, started, matched>>

-----------------------------------------------------------------------------
(***************************************************************************)
(* LaunchDownstreamTasks, LaunchTask and OnTaskSkipped                     *)
(***************************************************************************)
BeginDownstream(h) ==
    LET f == frame[h]
        u == outcome[f.of].task
    IN  /\ pc[h] = "down"
        /\ IF f.kept \in {INTERRUPTING, INTERRUPTED} THEN Go(h, "after", f)
           ELSE Go(h, "downing",
                   [f EXCEPT !.down = Downstream(u),
                             !.launchTo = IF f.kept \in {CANCELING, COMPLETED} THEN {}
                                          ELSE RoutedTo(u, f.route)])
        /\ UNCHANGED <<docVars, agent, started, matched>>

\* Mutant: the number of tasks still awaited is not looked at.
OneAwaited(t, u) == u \in upDep[t]

\* Mutant: the update is taken to return the new document.
NoneAwaited(t, u) == upDep[t] = {}

\* The task that was the only one still awaited: $unset returns the old document.
LastAwaited(t, u) == upDep[t] = {u}

\* One entry of down_dep.
Descend(h) ==
    LET f == frame[h]
        u == outcome[f.of].task
        next(d) == [f EXCEPT !.down = f.down \ {d}]
    IN  /\ pc[h] = "downing"
        /\ \E d \in f.down :
            /\ IsFirst(d, f.down)
            /\ IF f.kept \notin {CANCELING, COMPLETED} /\ Follows(d, u, f.route)
               THEN /\ upDep' = [upDep EXCEPT ![d] = @ \ {u}]
                    /\ matched' = matched \cup {<<u, d>>}
                    /\ Go(h, "downing",
                          [next(d) EXCEPT !.launch = IF LastAwaited(d, u) THEN @ \cup {d} ELSE @])
               ELSE /\ UNCHANGED <<upDep, matched>>
                    /\ IF f.kept \in {CANCELING, COMPLETED} \/ f.route # "fail"
                       THEN Go(h, "skipread", [next(d) EXCEPT !.skip = <<d>>])
                       ELSE Go(h, "downing", next(d))
        /\ UNCHANGED <<taskStatus, jobStatus, outcome, agent, started>>

\* Only a task that was never launched is skipped.
MaySkip(t) == taskStatus[t] = NULL

\* OnTaskSkipped: read the task's status ...
ReadSkipped(h) ==
    LET f == frame[h]
    IN  /\ pc[h] = "skipread"
        /\ IF f.skip = <<>> THEN Go(h, "downing", f)
           ELSE IF MaySkip(Head(f.skip)) THEN Go(h, "skipwrite", f)
           ELSE Go(h, "skipread", [f EXCEPT !.skip = Tail(f.skip)])
        /\ UNCHANGED <<docVars, agent, started, matched>>

\* ... write SKIPPED, with no condition, and go on with the tasks that depend on it.
WriteSkipped(h) ==
    LET f == frame[h]
        t == Head(f.skip)
    IN  /\ pc[h] = "skipwrite"
        /\ SetTask(t, SKIPPED)
        /\ \E down \in Listings(Downstream(t)) : Go(h, "skipread", [f EXCEPT !.skip = down \o Tail(f.skip)])
        /\ UNCHANGED <<upDep, jobStatus, outcome, agent, started, matched>>

DescendEnds(h) ==
    /\ pc[h] = "downing"
    /\ frame[h].down = {}
    /\ Go(h, "launching", frame[h])
    /\ UNCHANGED <<docVars, agent, started, matched>>

\* LaunchTask for the target of a route: whatever its status.
LaunchRouteTarget(h) ==
    LET f == frame[h]
    IN  /\ pc[h] = "launching"
        /\ \E t \in f.launchTo :
            /\ IsFirst(t, f.launchTo)
            /\ Publish(h, [f EXCEPT !.launchTo = @ \ {t}], t, taskStatus[t], "launching")
        /\ UNCHANGED <<docVars, agent, started, matched>>

\* The filter of the update in LaunchTask.
NeverLaunched(t) == taskStatus[t] = NULL

\* LaunchTask for a task that no longer waits: only if it was never launched.
LaunchDownstreamTask(h) ==
    LET f == frame[h]
    IN  /\ pc[h] = "launching"
        /\ f.launchTo = {}
        /\ \E t \in f.launch :
            LET g == [f EXCEPT !.launch = @ \ {t}]
            IN  /\ IsFirst(t, f.launch)
                /\ IF NeverLaunched(t)
                   THEN SetTask(t, NOT_STARTED) /\ Publish(h, g, t, NOT_STARTED, "launching")
                   ELSE UNCHANGED taskStatus /\ Go(h, "launching", g)
        /\ UNCHANGED <<upDep, jobStatus, outcome, agent, started, matched>>

LaunchEnds(h) ==
    /\ pc[h] = "launching"
    /\ frame[h].launchTo = {} /\ frame[h].launch = {}
    /\ Go(h, "after", frame[h])
    /\ UNCHANGED <<docVars, agent, started, matched>>

(***************************************************************************)
(* The end of a report: autoRestart, then UpdateJobStatus once more        *)
(***************************************************************************)
\* Mutant: the interrupted outcome is left as it is.
RestartsBesideOld(h) ==
    LET f == frame[h]
        restarts == f.new = INTERRUPTED /\ outcome[f.of].task \in AutoRestart
    IN  /\ pc[h] = "after"
        /\ Go(h, IF restarts THEN "republish" ELSE "finish", f)
        /\ UNCHANGED <<docVars, agent, started, matched>>

AfterDownstream(h) ==
    LET f == frame[h]
        restarts == f.new = INTERRUPTED /\ outcome[f.of].task \in AutoRestart
    IN  /\ pc[h] = "after"
        /\ IF restarts THEN SetOutcome(f.of, CANCELLED) ELSE UNCHANGED outcome
        /\ Go(h, IF restarts THEN "republish" ELSE "finish", f)
        /\ UNCHANGED <<taskStatus, upDep, jobStatus, agent, started, matched>>

\* republishTask, through the server's own REST interface.
RepublishTask(h) ==
    LET f == frame[h]
        t == outcome[f.of].task
    IN  /\ pc[h] = "republish"
        /\ IF taskStatus[t] \in NOT_STARTED..PUBLISHED
           THEN SetTask(t, NOT_STARTED) /\ Publish(h, f, t, NOT_STARTED, "finish")
           ELSE UNCHANGED taskStatus /\ Go(h, "finish", f)
        /\ UNCHANGED <<upDep, jobStatus, outcome, agent, started, matched>>

FinishReport(h) ==
    /\ pc[h] = "finish"
    /\ UpdateJobStatus(h, [EmptyFrame EXCEPT !.op = "report", !.of = frame[h].of], "idle")
    /\ UNCHANGED <<docVars, agent, started, matched>>

-----------------------------------------------------------------------------
(***************************************************************************)
(* The user's actions on the job                                           *)
(***************************************************************************)
\* Bound: requests that publish again need documents to spare.
Spare == Cardinality(Unused) > Cardinality(Task)

JobAction(h, op, from, to, next) ==
    /\ op \in Events
    /\ pc[h] = "idle"
    /\ started
    /\ jobStatus \in from
    /\ jobStatus' = to
    /\ Go(h, next, [EmptyFrame EXCEPT !.op = op])
    /\ UNCHANGED <<taskStatus, upDep, outcome, agent, started, matched>>

RestartJob(h) ==
    Spare /\ JobAction(h, "restart", {INTERRUPTED, FAILED}, RUNNING, "restartlist")

CancelJob(h) ==
    JobAction(h, "cancel", {NOT_STARTED, RUNNING, INTERRUPTING, INTERRUPTED, FAILED}, CANCELING,
              "canceltasks")

InterruptJob(h) ==
    JobAction(h, "interrupt", {RUNNING}, INTERRUPTING, "interrupttasks")

\* cancelJobTasks and interruptJobTasks list tasks, then set their statuses one by one.
ListTasksToStop(h) ==
    LET f == frame[h]
    IN  /\ pc[h] \in {"canceltasks", "interrupttasks"}
        /\ Go(h, "stoptasks",
              [f EXCEPT !.todo = IF f.op = "cancel" THEN Task
                                 ELSE {t \in Task : taskStatus[t] = WAITING_FOR_AGENT}])
        /\ UNCHANGED <<docVars, agent, started, matched>>

StopTask(h) ==
    LET f == frame[h]
    IN  /\ pc[h] = "stoptasks"
        /\ \E t \in f.todo :
            /\ IsFirst(t, f.todo)
            /\ SetTask(t, IF f.op = "cancel" THEN CANCELLED ELSE NULL)
            /\ Go(h, "stoptasks", [f EXCEPT !.todo = f.todo \ {t}])
        /\ UNCHANGED <<upDep, jobStatus, outcome, agent, started, matched>>

\* Then they list the outcomes ...
ListOutcomesToStop(h) ==
    LET f == frame[h]
    IN  /\ pc[h] = "stoptasks"
        /\ f.todo = {}
        /\ Go(h, "stopping",
              [f EXCEPT !.todoOut = {o \in Existing :
                  outcome[o].status < CANCELING \/ (f.op = "cancel" /\ outcome[o].status = FAILED)}])
        /\ UNCHANGED <<docVars, agent, started, matched>>

\* Mutant: an outcome is interrupted whatever its status.
AnyInterruptible(o) == TRUE

Interruptible(o) == outcome[o].status = RUNNING

\* cancelTaskOutcome and interruptTaskOutcome: conditional updates.  The outcomes
\* here have an agent, which is told to interrupt the task.
StopOutcome(op, o) ==
    IF op = "cancel" /\ Cancellable(o) THEN SetOutcome(o, CANCELING)
    ELSE IF op = "interrupt" /\ Interruptible(o) THEN SetOutcome(o, INTERRUPTING)
    ELSE UNCHANGED outcome

\* ... and stop them one by one, skipping those that no longer qualify.
StopNextOutcome(h) ==
    LET f == frame[h]
    IN  /\ pc[h] = "stopping"
        /\ \E o \in f.todoOut :
            /\ IsFirst(o, f.todoOut)
            /\ StopOutcome(f.op, o)
            /\ Go(h, "stopping", [f EXCEPT !.todoOut = @ \ {o}])
        /\ UNCHANGED <<taskStatus, upDep, jobStatus, agent, started, matched>>

JobStopped(h) ==
    LET f == frame[h]
    IN  /\ pc[h] = "stopping"
        /\ f.todoOut = {}
        /\ UpdatePassedJob(h, f, IF f.op = "cancel" THEN CANCELING ELSE INTERRUPTING, "idle")
        /\ UNCHANGED <<docVars, agent, started, matched>>

\* Mutant: an outcome is restarted whatever its status.
AnyRestartable(o) == TRUE

\* restartJobTasks: outcomes that were interrupted or failed while running.
Restartable(o) == outcome[o].status \in {INTERRUPTED, FAILED}

ListOutcomesToRestart(h) ==
    /\ pc[h] = "restartlist"
    /\ Go(h, "restarting", [frame[h] EXCEPT !.todoOut = {o \in Existing : Restartable(o)}])
    /\ UNCHANGED <<docVars, agent, started, matched>>

\* restartTaskOutcome: the old outcome becomes CANCELLED ...
RestartOutcome(h) ==
    LET f == frame[h]
    IN  /\ pc[h] = "restarting"
        /\ \E o \in f.todoOut :
            LET g == [f EXCEPT !.todoOut = @ \ {o}]
            IN  /\ IsFirst(o, f.todoOut)
                /\ IF Restartable(o)
                   THEN /\ outcome' = [outcome EXCEPT ![o].status = CANCELLED, ![o].route = ""]
                        /\ Go(h, "reset", [g EXCEPT !.task = outcome[o].task])
                   ELSE UNCHANGED outcome /\ Go(h, "restarting", g)
        /\ UNCHANGED <<taskStatus, upDep, jobStatus, agent, started, matched>>

\* ... and its task is published again, whatever its status is.
ResetTask(h) ==
    LET f == frame[h]
    IN  /\ pc[h] = "reset"
        /\ SetTask(f.task, NOT_STARTED)
        /\ Publish(h, f, f.task, NOT_STARTED, "restarting")
        /\ UNCHANGED <<upDep, jobStatus, outcome, agent, started, matched>>

\* restartJob goes on with the tasks that have no upstream tasks.
OutcomesRestarted(h) ==
    LET f == frame[h]
    IN  /\ pc[h] = "restarting"
        /\ f.todoOut = {}
        /\ Go(h, IF f.op = "restart" THEN "begin" ELSE "idle", f)
        /\ UNCHANGED <<docVars, agent, started, matched>>

(***************************************************************************)
(* The user's actions on one outcome                                       *)
(***************************************************************************)
StopTaskOutcome(h) ==
    /\ "stopoutcome" \in Events
    /\ pc[h] = "idle"
    /\ \E o \in Existing : \E op \in {"cancel", "interrupt"} : StopOutcome(op, o)
    /\ UNCHANGED <<taskStatus, upDep, jobStatus, agent, pc, frame, started, matched>>

RestartTaskOutcome(h) ==
    /\ "restartoutcome" \in Events
    /\ pc[h] = "idle"
    /\ Spare
    /\ \E o \in Existing :
        Restartable(o) /\ Go(h, "restarting", [EmptyFrame EXCEPT !.op = "restartoutcome", !.todoOut = {o}])
    /\ UNCHANGED <<docVars, agent, started, matched>>

-----------------------------------------------------------------------------
Init ==
    /\ taskStatus = [t \in Task |-> NULL]
    /\ upDep = [t \in Task |-> Upstream(t)]
    /\ jobStatus = RUNNING
    /\ outcome = [o \in Outcome |-> NoDocument]
    /\ agent = [o \in Outcome |-> "none"]
    /\ pc = [h \in Handler |-> "idle"]
    /\ frame = [h \in Handler |-> EmptyFrame]
    /\ started = FALSE
    /\ matched = {}

UpdateStep(h) == ReadJob(h) \/ ReadOutcomes(h) \/ ReadTasks(h) \/ WriteJob(h) \/ RereadJob(h)

PublishStep(h) ==
    \/ RouteToAgent(h) \/ RouteFails(h) \/ CreateTaskOutcome(h) \/ RecheckTask(h)
    \/ CancelNewOutcome(h) \/ SendToAgent(h) \/ Published(h)

StartStep(h) ==
    BeginTasks(h) \/ SnapshotTasks(h) \/ StartTask(h) \/ TasksStarted(h) \/ StartEnds(h)

ReportStep(h) ==
    \/ PutReport(h) \/ PutCancelled(h)
    \/ ListWaitingTasks(h) \/ ExamineWaitingTask(h) \/ TakeWaitingTask(h) \/ WaitingTasksDone(h)
    \/ BeginDownstream(h) \/ Descend(h) \/ ReadSkipped(h) \/ WriteSkipped(h) \/ DescendEnds(h)
    \/ LaunchRouteTarget(h) \/ LaunchDownstreamTask(h) \/ LaunchEnds(h)
    \/ AfterDownstream(h) \/ RepublishTask(h) \/ FinishReport(h)

ActionStep(h) ==
    \/ ListTasksToStop(h) \/ StopTask(h) \/ ListOutcomesToStop(h) \/ StopNextOutcome(h) \/ JobStopped(h)
    \/ ListOutcomesToRestart(h) \/ RestartOutcome(h) \/ ResetTask(h) \/ OutcomesRestarted(h)

Step(h) == UpdateStep(h) \/ PublishStep(h) \/ StartStep(h) \/ ReportStep(h) \/ ActionStep(h)

UserRequest(h) ==
    RestartJob(h) \/ CancelJob(h) \/ InterruptJob(h) \/ StopTaskOutcome(h) \/ RestartTaskOutcome(h)

Next == \E h \in Handler : Step(h) \/ LaunchJob(h) \/ ReportArrives(h) \/ AgentReturns(h) \/ UserRequest(h)

\* Node runs every continuation, MongoDB answers, the launcher starts the job,
\* an agent works off its outcomes and, if one was missing, returns.
Fairness ==
    /\ \A h \in Handler : WF_vars(Step(h))
    /\ WF_vars(\E h \in Handler : LaunchJob(h))
    /\ WF_vars(\E h \in Handler : ReportArrives(h))
    /\ WF_vars(\E h \in Handler : AgentReturns(h))

Spec == Init /\ [][Next]_vars
FairSpec == Spec /\ Fairness

-----------------------------------------------------------------------------
(***************************************************************************)
(* Properties                                                              *)
(***************************************************************************)
Frame ==
    [op : {"none", "start", "report", "waiting", "restart", "cancel", "interrupt", "restartoutcome"},
     of : Outcome \cup {NoOutcome}, new : TaskStatus, route : Route,
     job : JobStatus \cup {NULL}, kept : JobStatus \cup {NULL},
     present : SUBSET TaskStatus, covered : SUBSET Task,
     back : Steps, then : Steps, task : Task \cup {NoTask}, local : TaskStatus,
     out : Outcome \cup {NoOutcome}, any : BOOLEAN,
     todo : SUBSET Task, todoOut : SUBSET Outcome, down : SUBSET Task,
     launchTo : SUBSET Task, launch : SUBSET Task, skip : Seq(Task)]

\* Every document field and every local has a value the code can give it.
TypeOK ==
    /\ taskStatus \in [Task -> TaskStatus]
    /\ upDep \in [Task -> SUBSET Task]
    /\ jobStatus \in JobStatus
    /\ outcome \in [Outcome -> [task : Task \cup {NoTask}, status : TaskStatus, route : Route]]
    /\ agent \in [Outcome -> {"none", "queued", "running", "done"}]
    /\ pc \in [Handler -> Steps]
    /\ frame \in [Handler -> Frame]
    /\ started \in BOOLEAN
    /\ matched \subseteq Task \X Task

OutcomesOf(t) == {o \in Existing : outcome[o].task = t}
Quiet == \A h \in Handler : pc[h] = "idle"
AtRest == Quiet /\ started /\ \A o \in Existing : agent[o] \in {"none", "done"}

\* u has ended with a route that t waits for.
EndedFor(u, t) == \E o \in OutcomesOf(u) :
    outcome[o].status \in {SUCCEEDED, FAILED} /\ Follows(t, u, outcome[o].route)

\* A task with upstream tasks is published only when every one of them has ended with
\* a route it waits for, although the ends are reported in parallel and each report
\* sees only its own update of up_dep, and although tasks are restarted.
JoinComplete ==
    \A t \in Task : OutcomesOf(t) # {} /\ t \notin RouteTargets
        => \A u \in Upstream(t) : <<u, t>> \in matched

\* ... and when all of them have, it is launched: the reports do not each leave the
\* launch to the other, none is dropped on the way, and nobody skips the task.  (A job
\* left INTERRUPTED waits for the user to restart it.)
NoLostJoin ==
    AtRest /\ jobStatus # INTERRUPTED
        => \A t \in Task : (Upstream(t) # {} /\ \A u \in Upstream(t) : EndedFor(u, t))
                            => taskStatus[t] \notin {NULL, SKIPPED}

\* No task runs twice at the same time: each way of launching a task again (a waiting
\* task taken by one of two reports, autoRestart) first puts its last run out of the way.
OneLiveOutcome ==
    \A t \in Task : \A o, p \in OutcomesOf(t) :
        outcome[o].status < SUCCEEDED /\ outcome[p].status < SUCCEEDED => o = p

\* An outcome that succeeded stays SUCCEEDED, although the outcomes to stop are listed
\* before and stopped one by one while agents report.
SuccessIsFinal ==
    [][\A o \in Outcome : outcome[o].status = SUCCEEDED => outcome'[o].status = SUCCEEDED]_vars

Failed == \E o \in Existing : outcome[o].status = FAILED

\* The job comes to an end and stays there: every report and every launch is over, and
\* unless some task failed the job is COMPLETED for good, although overlapping reports
\* compute its status from reads at different moments and write it without a condition.
JobEnds == <>[](AtRest /\ (jobStatus = COMPLETED \/ Failed))

\* Test9.ts:156 expects a job with a failed task to become FAILED: at rest the job has
\* the status of its tasks.
StatusSettled ==
    AtRest => jobStatus = IF Failed THEN FAILED ELSE COMPLETED

\* Test42.ts:139 expects a job that was cancelled to become COMPLETED: at rest no job
\* is left CANCELING.
CancelEnds == AtRest => jobStatus # CANCELING

\* Test53.ts:39 "first task succeeds - interrupt job - only running task should be
\* interrupted - restart job", after which it expects the job to become COMPLETED: a
\* restart does not end with the job RUNNING and nothing left to run.
RestartLeavesWork ==
    [][\A h \in Handler : frame[h].op = "restart" /\ pc'[h] = "idle" /\ AtRest'
          => jobStatus' # RUNNING]_vars

-----------------------------------------------------------------------------
(***************************************************************************)
(* TaskFlow implements DagRun: an outcome is a run of its task, running    *)
(* until an agent has reported its end.                                    *)
(***************************************************************************)
PhaseOf(t) ==
    IF OutcomesOf(t) = {} THEN "waiting"
    ELSE IF \E o \in OutcomesOf(t) : outcome[o].status < SUCCEEDED THEN "running"
    ELSE "ended"

Waits == {<<r[1], r[2]>> : r \in FromRoutes}
phase == [t \in Task |-> PhaseOf(t)]
passed == {e \in Task \X Task : EndedFor(e[1], e[2])}

Dag == INSTANCE DagRun WITH Task <- Task, Waits <- Waits, phase <- phase, passed <- passed

\* Each task runs once, only after its upstream tasks have ended for it, and it does run
\* when all of them have: what the three documents (the task's up_dep, its status, its
\* outcomes) show together.
RunsAll == Dag!FairSpec
=============================================================================
