------------------------------- MODULE Agents -------------------------------
(***************************************************************************)
(* How tasks find agents: the choice of an agent for a task, the message   *)
(* in the agent's queue, its expiry and the dead letter watcher, tasks     *)
(* that wait for an agent and are published again when one comes back, and *)
(* the clearing up after an agent that is no longer heard of.              *)
(*                                                                         *)
(* The tasks here are those of one job and none depends on another: each   *)
(* is ready to publish (TaskReadyToPublish).  Job and task status, joins   *)
(* and user actions are those of TaskFlow and are left out.  A step is one *)
(* database call, message or internal REST call.  Agents are programs of   *)
(* their own, not in this repository: they take messages and report.       *)
(***************************************************************************)
EXTENDS Enums, Sequences, FiniteSets

CONSTANTS
    Agent,
    Task,         \* numbers 1..n, in the order a query returns them
    Target,       \* the kind of target of each task: "single", "all" or "specific"
    Specific,     \* targetAgentId of the tasks that have one
    AutoRestart,  \* the tasks that are restarted when their agent is lost
    LaunchErrors, \* the tasks whose publishing may throw (a script is missing...)
    Handler,      \* bound: requests the server works on at the same time
    Outcome,      \* bound: the task outcome documents 1..n
    Returns,      \* how stale ("stale", "old") an agent may be when it comes back
    MaxLapses,    \* bound: how often agents fall silent
    NoAgent

ASSUME ConstantsAssumption ==
    /\ Task \subseteq Nat \ {0} /\ Outcome \subseteq Nat \ {0}
    /\ IsFiniteSet(Task) /\ IsFiniteSet(Outcome)
    /\ Target \in [Task -> {"single", "all", "specific"}]
    /\ Specific \in [Task -> Agent \cup {NoAgent}] /\ NoAgent \notin Agent
    /\ AutoRestart \subseteq Task /\ LaunchErrors \subseteq Task
    /\ Returns \subseteq {"stale", "old"} /\ MaxLapses \in Nat

VARIABLES
    agent,    \* the Agent documents: offline flag, age of the last heartbeat
    task,     \* the Task documents: status, attemptedRunAgentIds
    outcome,  \* the TaskOutcome documents
    queue,    \* task messages in the queues of agents
    dead,     \* messages in the dead letter queue
    errors,   \* tasks in the launch error queue
    run,      \* the outcomes whose processes run on some agent
    pc, frame,\* per handler
    lapses,
    crowded   \* history: two requests offered waiting tasks to agents at the same time

vars == <<agent, task, outcome, queue, dead, errors, run, pc, frame, lapses, crowded>>
docs == <<agent, task, outcome>>
mail == <<queue, dead, errors, run>>
bounds == <<lapses, crowded>>

\* The age of the last heartbeat against the timeout T: at most T, up to 2T, more.
Age == {"fresh", "stale", "old"}
Active(a) == ~agent[a].offline /\ agent[a].beat = "fresh"

NoOutcome == [task |-> 0, agent |-> NoAgent, status |-> NULL, crashed |-> FALSE]
Existing == {o \in Outcome : outcome[o].task # 0}
Message == [task : Task, outcome : Outcome, agent : Agent]

\* What a handler has still to do: a sequence of items.  "catch" is the end of a
\* block whose exceptions are caught.
Item(do, t, a, o) == [do |-> do, task |-> t, agent |-> a, outcome |-> o]
Catch == Item("catch", 0, NoAgent, 0)

\* The locals of a handler.
\*   todo          see above
\*   task, tried   the copy of the task being published, with its attempted agents
\*   targets       the agents still to be sent the task
\*   outcome       the outcome a message is to be sent for; requeue: it is the old one
\*   cancel        the outcomes the answer to a heartbeat tells the agent to cancel
EmptyFrame == [todo |-> <<>>, task |-> 0, tried |-> {}, targets |-> {}, outcome |-> 0,
               requeue |-> NoAgent, cancel |-> {}]
Steps == {"idle", "work", "claim", "route", "wait", "assign", "published", "create", "send", "resend", "requeued"}

Go(h, next, f) ==
    LET ends == next = "idle" \/ (next = "work" /\ f.todo = <<>>)
    IN  /\ pc' = [pc EXCEPT ![h] = IF ends THEN "idle" ELSE next]
        /\ frame' = [frame EXCEPT ![h] = IF ends THEN EmptyFrame ELSE f]

IsFirst(x, S) == x \in S /\ \A y \in S : x <= y

\* The documents of S in the order a query returns them: there is one such sequence.
Listings(S) ==
    LET N == 1..Cardinality(S) IN {s \in [N -> S] : \A i, j \in N : i < j => s[i] < s[j]}

\* After the item at the head; the locals of publishing are dropped.
Rest(f) == [EmptyFrame EXCEPT !.todo = Tail(f.todo), !.cancel = f.cancel]
\* ... with others before what is left.
Then(f, items) == [Rest(f) EXCEPT !.todo = items \o Tail(f.todo)]

\* An exception leaves the block it is in, or the request.
Throw(h, f) ==
    LET caught == {i \in 2..Len(f.todo) : f.todo[i] = Catch}
    IN  \/ caught = {} /\ Go(h, "idle", f)
        \/ \E i \in caught :
             /\ IsFirst(i, caught)
             /\ Go(h, "work", [Rest(f) EXCEPT !.todo = SubSeq(f.todo, i + 1, Len(f.todo))])

Offers(items) == \E i \in DOMAIN items : items[i].do \in {"orphans", "orphan", "list", "again", "pull"}

Start(h, items) ==
    /\ pc[h] = "idle"
    /\ crowded' = (crowded \/ (Offers(items) /\ \E g \in Handler : Offers(frame[g].todo)))
    /\ pc' = [pc EXCEPT ![h] = "work"]
    /\ frame' = [frame EXCEPT ![h] = [EmptyFrame EXCEPT !.todo = items]]

\* h works on an item of this kind.
At(h, do) == pc[h] = "work" /\ Head(frame[h].todo).do = do

-----------------------------------------------------------------------------
(***************************************************************************)
(* Agents, the broker and time                                             *)
(***************************************************************************)
\* LaunchTask for a task not launched yet.  (A task a requeue has in hand is null too:
\* it is not launched by the code modelled here.)
Launch(h) ==
    /\ pc[h] = "idle"
    /\ \E t \in Task :
         /\ task[t].status = NULL /\ \A o \in Existing : outcome[o].task # t
         /\ task' = [task EXCEPT ![t].status = NOT_STARTED]
         /\ Go(h, "route", [EmptyFrame EXCEPT !.todo = <<Item("launch", t, NoAgent, 0)>>,
                                              !.task = t, !.tried = task[t].attempted])
    /\ UNCHANGED <<agent, outcome, mail, bounds>>

\* An agent falls silent: the next heartbeat is late, and later still.
Lapse(a) ==
    /\ \/ agent[a].beat = "fresh" /\ lapses < MaxLapses /\ lapses' = lapses + 1
          /\ agent' = [agent EXCEPT ![a].beat = "stale"]
       \/ agent[a].beat = "stale" /\ lapses' = lapses
          /\ agent' = [agent EXCEPT ![a].beat = "old"]
    /\ UNCHANGED <<task, outcome, mail, pc, frame, crowded>>

\* ... because its machine went down: what ran there is gone.
Crash(a) ==
    /\ agent[a].beat = "stale"
    /\ \E o \in run : outcome[o].agent = a
    /\ run' = {o \in run : outcome[o].agent # a}
    /\ UNCHANGED <<docs, queue, dead, errors, pc, frame, bounds>>

\* The agent takes a message from its queue, starts the task and reports RUNNING,
\* which the server refuses if the outcome is completed.
Consume(m) ==
    /\ queue' = queue \ {m}
    /\ run' = run \cup {m.outcome}
    /\ outcome' = [outcome EXCEPT ![m.outcome].status = IF @ < SUCCEEDED THEN RUNNING ELSE @]
    /\ UNCHANGED <<agent, task, dead, errors, pc, frame, bounds>>

\* The agent reports that the task is done: updateTaskOutcome, and the tasks that
\* wait for an agent get another chance.
Finish(h, o) ==
    /\ run' = run \ {o}
    /\ IF outcome[o].status < SUCCEEDED
       THEN /\ outcome' = [outcome EXCEPT ![o].status = SUCCEEDED]
            /\ Start(h, <<Item("list", 0, outcome[o].agent, 0)>>)
       ELSE UNCHANGED <<outcome, pc, frame, crowded>>
    /\ UNCHANGED <<agent, task, queue, dead, errors, lapses>>

\* The message's time to live is over.  It is taken to be longer than a request
\* takes, so that none is left from before.
Expire(m) ==
    /\ \A h \in Handler : pc[h] = "idle"
    /\ queue' = queue \ {m}
    /\ dead' = dead \cup {m}
    /\ UNCHANGED <<docs, errors, run, pc, frame, bounds>>

-----------------------------------------------------------------------------
(***************************************************************************)
(* The dead letter watcher: one REST call per message                      *)
(***************************************************************************)
OnTTLMessage(h) ==
    /\ \E m \in dead :
         /\ dead' = dead \ {m}
         /\ IF Target[m.task] = "single"
            THEN Start(h, <<Item("republish", m.task, NoAgent, 0), Catch>>)
            ELSE Start(h, <<Item("requeue", m.task, m.agent, m.outcome)>>)
    /\ UNCHANGED <<docs, queue, errors, run, lapses>>

\* The task is FAILED, then an outcome is created and reported FAILED.
OnLaunchTaskErrorMessage(h) ==
    /\ \E t \in errors :
         /\ errors' = errors \ {t}
         /\ Start(h, <<Item("fail", t, NoAgent, 0), Item("errorOutcome", t, NoAgent, 0), Item("list", 0, NoAgent, 0)>>)
    /\ UNCHANGED <<docs, queue, dead, run, lapses>>

FailTask(h) ==
    LET f == frame[h]
    IN  /\ At(h, "fail")
        /\ task' = [task EXCEPT ![Head(f.todo).task].status = FAILED]
        /\ Go(h, "work", Rest(f))
        /\ UNCHANGED <<agent, outcome, mail, bounds>>

FreeOutcome(o) == o \notin Existing /\ \A p \in Outcome \ Existing : o <= p

ErrorOutcome(h) ==
    LET f == frame[h]
    IN  /\ At(h, "errorOutcome")
        /\ \E o \in Outcome :
             /\ FreeOutcome(o)
             /\ outcome' = [outcome EXCEPT ![o] = [NoOutcome EXCEPT !.task = Head(f.todo).task, !.status = FAILED]]
        /\ Go(h, "work", Rest(f))
        /\ UNCHANGED <<agent, task, mail, bounds>>

-----------------------------------------------------------------------------
(***************************************************************************)
(* PublishTask and GetTaskRoutes                                           *)
(***************************************************************************)
\* Mutant: the first of no candidates is taken.
FirstOfNone(f) == LET left == {a \in Agent : Active(a)} \ f.tried IN IF left = {} THEN {NoAgent} ELSE left

\* The agents a task may go to, from the copy of the task and the agents now.
Candidates(f) ==
    LET active == {a \in Agent : Active(a)}
    IN  CASE f.requeue # NoAgent -> active \cap {f.requeue}
          [] f.requeue = NoAgent /\ Target[f.task] = "specific" -> active \cap {Specific[f.task]}
          [] f.requeue = NoAgent /\ Target[f.task] = "all" -> active
          [] OTHER -> active \ f.tried

\* For a single agent the sort picks one (any: load and times are left out).
GetTaskRoutes(h) ==
    LET f == frame[h]
        to == Candidates(f)
    IN  /\ pc[h] = "route"
        /\ CASE to = {} -> Go(h, "wait", f)
             [] to # {} /\ f.requeue # NoAgent -> Go(h, "resend", f)
             [] to # {} /\ f.requeue = NoAgent /\ Target[f.task] # "single" -> Go(h, "published", [f EXCEPT !.targets = to])
             [] OTHER -> \E a \in to : Go(h, "assign", [f EXCEPT !.targets = {a}])
        /\ UNCHANGED <<docs, mail, bounds>>

\* No agent: the task waits, whatever has become of it meanwhile.
WaitForAgent(h) ==
    LET f == frame[h]
    IN  /\ pc[h] = "wait"
        /\ task' = [task EXCEPT ![f.task].status = WAITING_FOR_AGENT]
        /\ Go(h, "work", Rest(f))
        /\ UNCHANGED <<agent, outcome, mail, bounds>>

\* $addToSet attemptedRunAgentIds
AssignAgent(h) ==
    LET f == frame[h]
    IN  /\ pc[h] = "assign"
        /\ task' = [task EXCEPT ![f.task].attempted = @ \cup f.targets]
        /\ Go(h, "published", f)
        /\ UNCHANGED <<agent, outcome, mail, bounds>>

SetPublished(h) ==
    LET f == frame[h]
    IN  /\ pc[h] = "published"
        /\ \/ /\ task' = [task EXCEPT ![f.task].status = PUBLISHED]
              /\ Go(h, "create", f)
              /\ UNCHANGED errors
           \* an exception while scripts and variables are looked up
           \/ /\ f.task \in LaunchErrors
              /\ errors' = errors \cup {f.task}
              /\ Go(h, "work", Rest(f))
              /\ UNCHANGED task
        /\ UNCHANGED <<agent, outcome, queue, dead, run, bounds>>

CreateOutcome(h) ==
    LET f == frame[h]
    IN  /\ pc[h] = "create"
        /\ \E a \in f.targets, o \in Outcome :
             /\ FreeOutcome(o)
             /\ outcome' = [outcome EXCEPT ![o] = [NoOutcome EXCEPT !.task = f.task, !.agent = a, !.status = PUBLISHED]]
             /\ Go(h, "send", [f EXCEPT !.outcome = o])
        /\ UNCHANGED <<agent, task, mail, bounds>>

SendTask(h) ==
    LET f == frame[h]
        a == outcome[f.outcome].agent
        left == f.targets \ {a}
    IN  /\ pc[h] = "send"
        /\ queue' = queue \cup {[task |-> f.task, outcome |-> f.outcome, agent |-> a]}
        /\ IF left = {} THEN Go(h, "work", Rest(f)) ELSE Go(h, "create", [f EXCEPT !.targets = left])
        /\ UNCHANGED <<docs, dead, errors, run, bounds>>

-----------------------------------------------------------------------------
(***************************************************************************)
(* taskaction/republish, taskaction/requeue                                *)
(***************************************************************************)
RepublishFilter(t) == task[t].status \in NOT_STARTED..PUBLISHED

\* An exception is caught: the answer says that it did not succeed.
RepublishTask(h) ==
    LET f == frame[h]
        t == Head(f.todo).task
    IN  /\ At(h, "republish")
        /\ IF RepublishFilter(t)
           THEN /\ task' = [task EXCEPT ![t].status = NOT_STARTED]
                /\ Go(h, "route", [f EXCEPT !.task = t, !.tried = task[t].attempted])
           ELSE Go(h, "work", Rest(f)) /\ UNCHANGED task
        /\ UNCHANGED <<agent, outcome, mail, bounds>>

\* To the agent of the queue the message died in, if the task is still PUBLISHED;
\* until then its status is null.
RequeueTask(h) ==
    LET f == frame[h]
        i == Head(f.todo)
    IN  /\ At(h, "requeue")
        /\ IF task[i.task].status = PUBLISHED
           THEN /\ task' = [task EXCEPT ![i.task].status = NULL]
                /\ Go(h, "route", [f EXCEPT !.task = i.task, !.requeue = i.agent, !.outcome = i.outcome])
           ELSE Go(h, "work", Rest(f)) /\ UNCHANGED task
        /\ UNCHANGED <<agent, outcome, mail, bounds>>

Resend(h) ==
    LET f == frame[h]
    IN  /\ pc[h] = "resend"
        /\ queue' = queue \cup {[task |-> f.task, outcome |-> f.outcome, agent |-> f.requeue]}
        /\ Go(h, "requeued", f)
        /\ UNCHANGED <<docs, dead, errors, run, bounds>>

Requeued(h) ==
    LET f == frame[h]
    IN  /\ pc[h] = "requeued"
        /\ task' = [task EXCEPT ![f.task].status = PUBLISHED]
        /\ Go(h, "work", Rest(f))
        /\ UNCHANGED <<agent, outcome, mail, bounds>>

-----------------------------------------------------------------------------
(***************************************************************************)
(* Heartbeats, and tasks that wait for an agent                            *)
(***************************************************************************)
\* Mutant: the waiting tasks are looked for once.
ListOnce(a) == <<Item("list", 0, a, 0)>>

\* What follows an agent's return.
Welcome(a) == <<Item("list", 0, a, 0), Item("again", 0, a, 0)>>

\* The document is written and its OLD value decides.  A first heartbeat after more
\* than 2T, or after the agent was declared offline, counts as a return.
Heartbeat(h, a) ==
    LET old == agent[a]
        back == old.offline \/ old.beat = "old"
    IN  /\ pc[h] = "idle"
        /\ old.offline \/ old.beat \in Returns
        /\ agent' = [agent EXCEPT ![a] = [offline |-> FALSE, beat |-> "fresh"]]
        /\ IF back THEN Start(h, <<Item("lost", 0, a, 0)>> \o Welcome(a) \o <<Item("answer", 0, a, 0)>>)
           ELSE UNCHANGED <<pc, frame, crowded>>
        /\ UNCHANGED <<task, outcome, mail, lapses>>

\* The agent's outcomes that were cancelled because it was silent.
ListLost(h) ==
    LET f == frame[h]
        lost == {o \in Existing : /\ outcome[o].agent = Head(f.todo).agent
                                  /\ outcome[o].status = CANCELLED /\ outcome[o].crashed}
    IN  /\ At(h, "lost")
        /\ Go(h, "work", [Rest(f) EXCEPT !.cancel = lost])
        /\ UNCHANGED <<docs, mail, bounds>>

Answer(h) ==
    /\ At(h, "answer")
    /\ run' = run \ frame[h].cancel
    /\ Go(h, "work", Rest(frame[h]))
    /\ UNCHANGED <<docs, queue, dead, errors, bounds>>

\* RepublishTasksWaitingForAgent (the limit of 10 is out of reach here)
ListWaiting(h) ==
    LET f == frame[h]
        Pull(t) == Item("pull", t, Head(f.todo).agent, 0)
    IN  /\ At(h, "list")
        /\ \E waiting \in Listings({t \in Task : task[t].status = WAITING_FOR_AGENT}) :
             Go(h, "work", Then(f, [i \in DOMAIN waiting |-> Pull(waiting[i])]))
        /\ UNCHANGED <<docs, mail, bounds>>

\* NumNotStartedTasks, a second's sleep and a second look.  It is assumed that a
\* second is enough for what is being published to be published, or to wait.
LookAgain(h) ==
    LET f == frame[h]
        pending == \E t \in Task : task[t].status \in {NOT_STARTED, WAITING_FOR_AGENT}
    IN  /\ At(h, "again")
        /\ pending => \A g \in Handler \ {h} : pc[g] \in {"idle", "work"}
        /\ Go(h, "work", IF pending THEN Then(f, <<Item("list", 0, Head(f.todo).agent, 0)>>) ELSE Rest(f))
        /\ UNCHANGED <<docs, mail, bounds>>

\* RepublishTask: the agent may be tried again, or all of them; the task read back
\* tells whether it still waits.
PullAgent(h) ==
    LET f == frame[h]
        i == Head(f.todo)
    IN  /\ At(h, "pull")
        /\ task' = [task EXCEPT ![i.task].attempted = IF i.agent = NoAgent THEN {} ELSE @ \ {i.agent}]
        /\ IF task[i.task].status = WAITING_FOR_AGENT THEN Go(h, "claim", f) ELSE Go(h, "work", Rest(f))
        /\ UNCHANGED <<agent, outcome, mail, bounds>>

\* Mutant: the update has no condition.
ClaimAnyway(t) == TRUE

ClaimFilter(t) == task[t].status = WAITING_FOR_AGENT

\* Another handler may have been faster: then this request ends here.
ClaimTask(h) ==
    LET f == frame[h]
        t == Head(f.todo).task
    IN  /\ pc[h] = "claim"
        /\ IF ClaimFilter(t)
           THEN /\ task' = [task EXCEPT ![t].status = NOT_STARTED]
                /\ Go(h, "route", [f EXCEPT !.task = t, !.tried = task[t].attempted])
           ELSE Throw(h, f) /\ UNCHANGED task
        /\ UNCHANGED <<agent, outcome, mail, bounds>>

-----------------------------------------------------------------------------
(***************************************************************************)
(* processOrphanedTasks                                                    *)
(***************************************************************************)
\* Started from outside for an agent of findDisconnectedAgents.
ProcessOrphanedTasks(h, a) ==
    /\ ~agent[a].offline /\ agent[a].beat # "fresh"
    /\ Start(h, <<Item("orphans", 0, a, 0)>>)
    /\ UNCHANGED <<docs, mail, lapses>>

ListOrphans(h) ==
    LET f == frame[h]
        a == Head(f.todo).agent
        Handle(o) == Item("orphan", outcome[o].task, a, o)
    IN  /\ At(h, "orphans")
        /\ \E orphans \in Listings({o \in Existing : outcome[o].agent = a /\ outcome[o].status < SUCCEEDED}) :
             Go(h, "work", Then(f, [i \in DOMAIN orphans |-> Handle(orphans[i])] \o <<Item("offline", 0, a, 0)>>))
        /\ UNCHANGED <<docs, mail, bounds>>

\* The first task of the job is published again, not the orphan (queryTasks[0]).
Restarted(t) == CHOOSE u \in Task : IsFirst(u, Task)

\* updateTaskOutcome with its condition: CANCELLED for a task that restarts, else
\* INTERRUPTED; then the tasks that wait for an agent, then the restart.  An exception
\* of any of these is caught and the next orphan follows.
Orphan(h) ==
    LET f == frame[h]
        i == Head(f.todo)
        restarts == i.task \in AutoRestart
        again == <<Item("list", 0, i.agent, 0)>>
                 \o (IF restarts THEN <<Item("republish", Restarted(i.task), NoAgent, 0)>> ELSE <<>>)
                 \o <<Catch>>
    IN  /\ At(h, "orphan")
        /\ IF outcome[i.outcome].status < SUCCEEDED
           THEN /\ outcome' = [outcome EXCEPT ![i.outcome].status = IF restarts THEN CANCELLED ELSE INTERRUPTED,
                                              ![i.outcome].crashed = TRUE]
                /\ Go(h, "work", Then(f, again))
           ELSE Go(h, "work", Rest(f)) /\ UNCHANGED outcome
        /\ UNCHANGED <<agent, task, mail, bounds>>

CatchItem(h) ==
    /\ At(h, "catch")
    /\ Go(h, "work", Rest(frame[h]))
    /\ UNCHANGED <<docs, mail, bounds>>

SetOffline(h) ==
    LET f == frame[h]
    IN  /\ At(h, "offline")
        /\ agent' = [agent EXCEPT ![Head(f.todo).agent].offline = TRUE]
        /\ Go(h, "work", Rest(f))
        /\ UNCHANGED <<task, outcome, mail, bounds>>

-----------------------------------------------------------------------------
Serve(h) ==
    \/ FailTask(h) \/ ErrorOutcome(h)
    \/ GetTaskRoutes(h) \/ WaitForAgent(h) \/ AssignAgent(h)
    \/ SetPublished(h) \/ CreateOutcome(h) \/ SendTask(h)
    \/ RepublishTask(h) \/ RequeueTask(h) \/ Resend(h) \/ Requeued(h)
    \/ ListLost(h) \/ Answer(h) \/ ListWaiting(h) \/ LookAgain(h) \/ PullAgent(h) \/ ClaimTask(h)
    \/ ListOrphans(h) \/ Orphan(h) \/ CatchItem(h) \/ SetOffline(h)

Environment ==
    \/ \E a \in Agent : Lapse(a) \/ Crash(a)
    \/ \E m \in queue : Consume(m) \/ Expire(m)
    \/ \E h \in Handler :
         \/ Launch(h) \/ OnTTLMessage(h) \/ OnLaunchTaskErrorMessage(h)
         \/ \E o \in run : Finish(h, o)
         \/ \E a \in Agent : Heartbeat(h, a) \/ ProcessOrphanedTasks(h, a)

Init ==
    /\ agent \in [Agent -> {[offline |-> FALSE, beat |-> "fresh"], [offline |-> TRUE, beat |-> "old"]}]
    /\ task = [t \in Task |-> [status |-> NULL, attempted |-> {}]]
    /\ outcome = [o \in Outcome |-> NoOutcome]
    /\ queue = {} /\ dead = {} /\ errors = {} /\ run = {} /\ lapses = 0 /\ crowded = FALSE
    /\ pc = [h \in Handler |-> "idle"]
    /\ frame = [h \in Handler |-> EmptyFrame]

Next == Environment \/ \E h \in Handler : Serve(h)
Spec == Init /\ [][Next]_vars

-----------------------------------------------------------------------------
(***************************************************************************)
(* Properties                                                              *)
(***************************************************************************)
\* The documents, the messages, the processes of agents and the handlers' locals are what
\* the code can make them; every route leads to an agent there is.
TypeOK ==
    /\ agent \in [Agent -> [offline : BOOLEAN, beat : Age]]
    /\ \A t \in Task : task[t].status \in TaskStatus /\ task[t].attempted \subseteq Agent
    /\ \A o \in Existing : outcome[o].task \in Task /\ outcome[o].agent \in Agent \cup {NoAgent}
                           /\ outcome[o].status \in TaskStatus
    /\ queue \subseteq Message /\ dead \subseteq Message /\ errors \subseteq Task /\ run \subseteq Existing
    /\ pc \in [Handler -> Steps]
    /\ \A h \in Handler : frame[h].targets \subseteq Agent /\ frame[h].cancel \subseteq Existing

\* A task for a single agent, one that does not restart by itself, is at one place at
\* a time: a message, a process, or a handler that is about to send a message.  It
\* takes the claim of a waiting task to be exclusive, and expiry to move a message.
OneRunner ==
    \A t \in Task \ AutoRestart : Target[t] = "single" =>
        Cardinality({m \in queue \cup dead : m.task = t})
        + Cardinality({o \in run : outcome[o].task = t})
        + Cardinality({h \in Handler : frame[h].task = t /\ pc[h] # "idle"}) <= 1

Quiet == dead = {} /\ errors = {} /\ \A h \in Handler : pc[h] = "idle"

\* When the server is at rest, a task for a single agent that waits has been tried on
\* every agent that is active: none came back unnoticed while the task was about to
\* wait.  Two requests that do this at once can miss: the one that
\* loses a claim ends there, and one publishes with the tried agents it read before.
WaitingJustified ==
    Quiet /\ ~crowded => \A t \in Task : Target[t] = "single" /\ task[t].status = WAITING_FOR_AGENT =>
        {a \in Agent : Active(a)} \subseteq task[t].attempted

\* AgentService.ts:405: "For auto restart tasks - cancel the existing taskoutcome
\* and re-publish the task".  At rest, a task whose outcome was cancelled so has a
\* later outcome, waits for an agent, or failed to launch.
OrphanRestarted ==
    Quiet => \A o \in Existing :
        outcome[o].status = CANCELLED /\ outcome[o].crashed =>
            \/ \E p \in Existing : p > o /\ outcome[p].task = outcome[o].task
            \/ task[outcome[o].task].status \in {WAITING_FOR_AGENT, FAILED}
=============================================================================
