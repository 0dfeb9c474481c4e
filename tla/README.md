# A specification of the SaaSGlue workflow engine

SaaSGlue (sg-server) runs jobs: directed graphs of tasks, instantiated from job
definitions, whose tasks are executed by agents on other machines.  The server
is a set of stateless Node processes over one MongoDB database and one RabbitMQ
broker.  Nothing in the server holds a lock across an `await` and nothing uses a
transaction: the whole state of a job is in documents that concurrent requests,
un-awaited calls and agent reports read and write one `findOneAndUpdate` at a
time.  That is what these modules are about.

## Inventory

Paths are under `src/server/src/` unless they say otherwise.

| Component | State | Operations | What must hold |
|---|---|---|---|
| Job launching (`api/services/JobService.ts`, `JobActionService.ts`, `JobDefService.ts`) | `JobDef.status`, `launchingJobs`, `maxInstances`, `coalesce`, `misfireGraceTime`, `pauseOnFailedJob`; `Job.status` | `createJobFromJobDef`, `LaunchReadyJobs`, `updateJob`, `UpdateJobStatus`, `interruptJob`, `restartJob`, `cancelJob`, `updateJobDef` | one launcher at a time; the limit; the lock comes back; every ready job is started; pausing works |
| Tasks of a job (`TaskOutcomeService.ts`, `TaskOutcomeActionService.ts`, `TaskActionService.ts`, `TaskService.ts`, `api/utils/Shared.ts`) | `Task.status`, `up_dep`, `down_dep`, `toRoutes`; `TaskOutcome.status`, `route` | `PublishTask`, `createTaskOutcome`, `updateTaskOutcome`, `LaunchDownstreamTasks`, `OnTaskSkipped`, `RepublishTasksWaitingForAgent`, cancel / interrupt / restart of outcomes | a join waits for all and is not lost; one run at a time; results are final; the job's status follows |
| Agent routing (`api/utils/Shared.ts`) | `Agent.lastHeartbeatTime`, `tags`, `numActiveTasks`; `Task.attemptedRunAgentIds` | `GetTaskRoutes` and helpers | an active agent, not tried before |
| Agents (`AgentService.ts`, `AgentController.ts`) | `Agent.offline`, heartbeat; outcomes | `updateAgentHeartbeat`, `processOrphanedTasks` | a lost agent's tasks are interrupted or run again, once; who waits has been offered to every agent |
| Dead letter watcher (`workers/AgentDeadLetterWatcher.ts`) | queues | `OnTTLMessage`, `OnLaunchTaskErrorMessage`, `requeueTask` | an expired message is not lost and not run twice |
| Definition graphs (`shared/SGUtils.ts`, `TaskDefService.ts`; `src/clientv3/src/views/JobDesigner.vue`, `components/DesignerTask.vue`, `utils/TaskRoutes.ts`) | `TaskDef.name`, `fromRoutes`, `toRoutes` | create, update, rename, delete, `isJobDefCyclical`, the designer's search | no cycle, no dangling route; server and designer agree |
| Schedules (`ScheduleService.ts`, `workers/JobScheduler.py`) | `Schedule`, the update queue, the scheduler's job store | create / update / delete, messages, firing | the scheduler follows the documents; orphaned schedules stop |
| Invoices, payments (`InvoiceService.ts`, `PayInvoiceAutoService.ts`, `PayInvoiceManualService.ts`) | `Invoice`, `PaymentTransaction`, `Team.paymentStatus`, Stripe | pay, update | an invoice is charged once, and PAID only if it was paid |
| Broker client (`shared/AMQPLib.ts`) | connection, channels, offline queue, subscriptions | publish, consume, reconnect | nothing sent twice, nothing kept for ever |
| Script editing (`src/clientv3/src/components/ScriptEditor.vue`, `store/scriptShadow`, `store/script`, `store/core`, `utils/StompHandler.ts`; `UserScriptShadowCopyService.ts`, `ScriptService.ts`) | the stores of a tab, its requests and pushes; `Script`, `UserScriptShadowCopy` | type, pick, autosave, publish, revert; answers and pushes | one shadow per user and script; nothing published that is not backed up |
| Steps (`StepOutcomeService.ts`) | `StepOutcome` | reports of steps | order of steps |
| Teams, users, Saascipes, artifacts, rest of the web client, deployment | documents | single-document CRUD | outside the engine |

How they interact: a schedule or a user creates a job; the launcher starts it and
publishes its root tasks to agents' queues; agents report outcomes over HTTP;
each report recomputes the job's status, launches downstream tasks, retries
waiting tasks, may pause the definition, and (when the job is over) calls the
launcher for the next job.  The dead letter watcher and an agent's return call
the same functions again.  Definitions are drawn in the browser and copied into a
job when it is created; scripts are edited there as shadows; every change of a
document is pushed to every browser.  All messages go through the broker client.

What is hard: handlers interleave at every `await`; several calls are not
awaited at all (the launcher after creation, SKIPPED updates, the relaunch after
"no tasks to run"); statuses are computed from several reads and written without
a condition; exceptions of one part of a handler cut off the rest of it; a
server can die with the launcher's lock held.  The list, line by line, is
`hazards` in `PROJECT.json`.

## Modules

| Module | Contents |
|---|---|
| `Enums` | the numeric status codes; their order matters to the code |
| `JobLaunch` | the jobs of one definition: creation, launcher, lock, status updates, actions, pause; its properties |
| `JobLaunch_proofs` | inductive invariants of `JobLaunch` and the theorems |
| `MCJobLaunch` | instances for TLC |
| `DagRun` | abstract: every task runs once, after those it waits for |
| `TaskFlow` | the tasks and outcomes of one running job; its properties; the refinement of `DagRun` |
| `Agents` | agents, their heartbeats and queues; routing, publishing, waiting, expiry, launch errors, orphans |
| `TaskDefs` | the task templates of one job definition, the requests that change them, both searches for cycles |
| `Schedules` | schedule documents, the update queue, the scheduler's consumer, jobs and launches |
| `Payments` | the invoices of one team, two payment services, Stripe |
| `ScriptEditing` | tabs with their stores, requests and pushes; scripts and shadows |
| `Broker` | one connector: connections, channels, the calls that share them |
| `TaskFlow_proofs` | inductive invariants of `TaskFlow`, its theorems, and the proof that it implements `DagRun` |
| `TaskDefs_proofs` | what both searches compute; from that the theorems of `TaskDefs` |
| `Agents_proofs`, `Schedules_proofs`, `Payments_proofs`, `ScriptEditing_proofs`, `Broker_proofs` | inductive invariants of these modules and the theorems |
| `MCTaskFlow`, `MCAgents`, `MCTaskDefs`, `MCSchedules`, `MCPayments`, `MCScriptEditing`, `MCBroker` | instances for TLC |

### How code becomes actions

A *handler* is one asynchronous call chain: an HTTP request, or a call made
without awaiting it.  `pc[h]` is the point at which it is suspended and
`frame[h]` its local variables.  A step is **one database call** (or one message
published) **with the synchronous code up to the next await**, which is how Node
and MongoDB interleave such chains, be they in one server or in several.
`findOneAndUpdate` with a filter is one atomic step; the model writes its filter
as an operator of its own (`LockFilter`, `StartFilter`, `StillWaiting`,
`Cancellable`, ...), and where the code writes without a filter so does the model.
`$unset` returning the *old* document is in `LastAwaited`.  Reads that feed only
messages, mails or log lines have no step.

`JobLaunch` abstracts the tasks of a job to what `CheckJobStatus` may compute
from them (`MayBecome`); `TaskFlow` has the tasks and the real `CheckJobStatus`.
The two meet in the job's status.  In `TaskFlow` the launcher is one action that
starts the job (`LaunchJob`), and the nested calls of `updateJob` that concern
the definition are left to `JobLaunch`.

Numbers stand for jobs in order of creation and for tasks in the order the
database lists them, because the code goes through its lists in that order.
Route patterns are a literal route or the default `/^(?!fail$).*$/`.

`Agents` is about one way of running a task and takes the rest of `PublishTask`'s
callers from `TaskFlow`: its tasks are ready to publish and depend on nothing.
What `TaskFlow` calls "no agent" is there the result of `GetTaskRoutes` over
agents with heartbeats.  Time is the age of a heartbeat in three classes: within
the timeout T, up to 2T (the second test of the heartbeat handler), older.

`TaskDefs` has the server's handlers and the designer's edits, which are
computed from the browser's copy, here taken to be current.  `IsCyclic` is
the depth first search of `isCyclicUtil`, call by call (`CyclicUtil` is a table of
its calls by depth, `Loop` its loop over neighbours), and `Downstream` the designer's
level by level search; `DesignerRuleExact` compares the two.  `Acyclic` is the
reference: no task reaches itself.  History variables (`history` here, `disturbed`, `overlapped` and
`dropped` elsewhere) record what a property excepts; no action reads them.

`Schedules` keeps of a timetable whether it recurs, is for one date, or is
refused by apscheduler, of the free tier that any launch may be refused (`Launch`); of `on_message` the order *look up the job, decide, change it, report,
acknowledge*, each a step of its own because the firing thread runs beside it.

In `Payments` a request is a chain of calls to Stripe and the database.  A manual payment's
amount is the text the user typed (`InvoicePayment.vue:35`), which the server compares as a
number but *appends* to `paidAmount` if it is less than what is due (`PaidAfter`).  A charge
may succeed, be declined, fail, or succeed with its answer lost.  In `Broker`, publishing is
`PublishRoute`; `PublishQueue` differs in that a message without a channel goes to the offline
queue, where `PublishRoute` never returns.  In `ScriptEditing`
a step is one event of a tab (a browser runs one at a time) or one request on the
server; in `Broker` one event of the Node process.  A handler of an event is
one action with everything it calls before its next await.

*External*: agents (they take an outcome from their queue, report RUNNING, then
one end; `INTERRUPTED` only when told to stop), the death of a server, MongoDB
(each call atomic and answered), RabbitMQ (no message lost or duplicated).

### Properties

`JobLaunch`

- `LaunchExclusion`: while a launcher is between taking and releasing
  `launchingJobs`, the field is true and no other launcher is there.
- `InstancesWithinLimit`: a start never brings the jobs that launchers have put
  in RUNNING, and that have not left it, above the `maxInstances` the launcher
  read.  It is stated for jobs *launched*: a job that a user restarts, or that
  `CheckJobStatus` puts back to RUNNING, is beyond the launcher's count.
- `LockReleased`: under fairness the lock is given back, whichever of the launcher's
  queries and updates throw and whatever its nested calls do.  Two exceptions: its
  server dies, or the release update itself throws, which the `finally` block only
  logs (`JobService.ts:683`).

`TaskFlow`

- `JoinComplete` / `NoLostJoin`: a task is published only when all tasks it waits
  for have ended with an accepted route, and it is launched when they have.
- `OneLiveOutcome`: no task has two runs that are not over.
- `SuccessIsFinal`: an outcome that succeeded stays so.
- `JobEnds`: every report and launch is over at last, and a job none of whose tasks
  failed is COMPLETED and stays so.  Of a job with a failed task the status may come
  out wrong (`StatusSettled`, *Other disagreements*).
- `RunsAll`: `TaskFlow` implements `DagRun` with its fairness
  (`Dag == INSTANCE DagRun WITH ...`).  The mapping
  (`PhaseOf`, `EndedFor`) reads a task's outcomes only: an outcome is a run,
  running until an agent has reported its end.

`Agents`

- `OneRunner`: a task for one agent is in one message, in one process or in the
  hands of one handler, though several requests and the watcher republish it.
- `WaitingJustified`: at rest, a task that waits has been tried on every active
  agent: an agent that comes back while the task is about to wait is noticed.
- `OrphanRestarted` (violated): a cancelled orphan is published again.

`TaskDefs`

- `EditsKeepOrder`: names stay unique, routes resolve and no cycle arises as long
  as users wait for answers and use the edits the designer checks.
- `JobGraphAcyclic`: whatever overlaps, no job of several tasks is built with a cycle.
- `DesignerRuleExact`: the designer forbids exactly the routes the server refuses.

`Schedules`

- `SchedulerAgrees`: at rest, after changes that followed one another, the
  scheduler's jobs are those of the documents.
- `OrphansStop`: a schedule whose definition is gone stops, by its next firing that is
  not refused.  `POST job` applies the limit of the free tier before it looks the
  definition up (`JobController.ts:133`), and only the 404 of a missing definition
  deletes the schedule.

`Payments`

- `PaidIsCovered`: PAID only if the transactions cover the bill, and `paidAmount` says
  no more than they do; until an entered amount has been appended.
- `BooksBalance`: the bill is charged at most once, and the invoice, the transactions and the
  cards agree; after an appended amount `paidAmount` may say more than was charged, never less.
- `TeamStanding`: delinquent exactly while an invoice is rejected.
- `ChargedNeverRejects`: a failure after a charge is not taken for a declined card.

`ScriptEditing`

- `OneShadowEach`, `OwnShadow`: one shadow per user and script; nobody edits
  another's.
- `PublishedIsBackedUp`: what is in a script was in a shadow before.
- `SelectAnswerable`: no select waits without a request that will answer it.

`Broker`

- `ChannelsLive`: the connector has no channel of a closed connection.
- `PublishedOnce`: what is published again had not reached the broker.
- `OfflineDrains`: the offline queue empties, under fairness.

## Runs

| Run | Instance | Distinct states | Shows |
|---|---|---|---|
| `JobLaunch_core` | 2 jobs, limit 1, 2 handlers; reports, restarts, cancels, exceptions | 1 284 407 | type, exclusion, limit |
| `JobLaunch_crash` | 1 job, limits 0 and 1, coalesce, misfire, exceptions, pause, interrupt, one crash or failed release; fair | 1 027 546 | the lock comes back |
| `TaskFlow_join` | 1 and 2 before 3, any may fail; fair | 28 069 | type, end of the job, refinement of `DagRun` with fairness |
| `TaskFlow_restart` | the same; failures, restarts of job and outcomes, 6 outcomes | 3 049 035 | join complete and not lost, successes final |
| `TaskFlow_actions` | 2 waits for route `ok` of 1, which restarts by itself and sends `no` to 3; stops, missing agents, cancel, interrupt | 5 220 844 | one run at a time, successes final |
| `TaskDefs` | 3 templates, 4 names, 2 handlers, 2 requests of eight kinds, any start in good order | 498 231 | order, acyclic jobs, the designer's rule |
| `Agents` | 2 agents, a task for any and one for a specific agent, 2 handlers, 3 outcomes | 3 877 870 | one runner, justified waiting |
| `Agents_orphans` | two tasks for any agent, the second restarts | | *violated*: see Findings |
| `Payments` | 2 invoices of 3 and 1 units, amounts 1 and 2, 2 payers, 4 requests, 1 crash | 2 406 548 | books, standing, no rejection after a charge |
| `Schedules` | 2 schedules, one timetable of each kind, 2 requests, one restart; fair | 1 041 389 | agreement, orphans stop |
| `ScriptEditing` | 2 users with a tab each, 2 scripts, 3 acts, 2 requests under way | 1 050 773 | shadows, backup, answers |
| `Broker` | 1 message, 1 subscription, 7 connection numbers, 1 fault, 1 stop; fair | 202 092 | channels, once, drained |

### Bounds, and why they are enough

- `Handler` = 2 call chains at a time.  Every race above is between two chains
  (two updates of one field, or a read and a write of another chain); a third
  waits, because un-awaited calls are kept in `fired` and `skipping` until a
  handler is free.  The proofs are for any number.
- `Job` = 1 or 2: a launcher needs two jobs to exceed a limit of one.
- `MaxUnawaited` = 1 un-awaited launcher call outstanding; a further one finds
  what the first finds.  `MaxCrashes` = 1, a dying
  server or a release that fails.  There are none in `JobLaunch_core`, whose properties are proved
  with them.
- `Task` = 2 or 3, the least with a join, a fork and a route.  `Outcome` is 2 per
  task where the user runs tasks again (requests that publish need documents to
  spare, `Spare`); in `TaskFlow_actions` 3, for task 1 and its rerun and for the
  task its route chooses.
- `TaskDefs`: a cycle through two edits needs three templates, a rename a fourth
  name; two requests overlap in every pair of kinds.
- `Agents`: one agent to be lost and one to take over; `MaxLapses` = 1, after
  which agents stay away or come back; 3 outcomes are two tasks and one run again.
- `Payments`: two invoices so that paying one leaves the team delinquent for the
  other, one of 3 units so that it can be paid in parts of 1 and 2.  `Amounts` are entered as
  text of up to three digits (`Appended`); zero, signs and fractions are left out.
- `Schedules`: `MaxQueue` = 2 bounds firing only: a schedule fires while one message is
  queued or handled, not while two are; requests queue beyond it.  Two requests are enough for
  a change and its overtaking one; `OrphansStop` needs the definition's deletion
  beside an edit.  One recurring timetable: that the scheduler has the *new* one of two
  is the theorem `SchedulerFollows`, which is for any timetables.  New schedules get their
  ids in order (`Fresh`), since which id is new makes no difference.
- `ScriptEditing`: one act to pick, one to type, one to publish or pick away.
  `KeepsItsText` needs a fourth, of one tab alone.
- `Broker`: a fault while everything is under way brings up to seven connections
  at once; with two faults the space is beyond exhaustive search.
- Deadlock is not checked: a job that is over, a request that was answered and an
  editor at rest are final states.
- Handlers are symmetric (used in safety runs only); jobs, tasks and outcomes
  are ordered, hence not.

### Fairness

`WF` on every step of a handler (Node runs every continuation, MongoDB answers
every call), on the un-awaited calls (they are already on the event loop), on
the start of the job, on the next report of an agent (an agent works off its
queue and reports its end) and, where agents are missing, on an agent's return.
There is none on users' requests and none on crashes.  `Schedules`: requests go on,
the consumer and the executor threads of the scheduler run, and a due job fires
(apscheduler's clock).  `Broker`: the broker answers, sleeping handlers wake, and a
connection attempt succeeds in the end (thirty attempts with up to a minute between
them); none on faults, publishing, subscribing and stopping.  The other modules
state safety only.

## Findings

**`Agents_orphans`** (`AgentService.ts:448`).  An agent goes offline with a task that
has `autoRestart`.  `processOrphanedTasks` cancels its outcome, as the comment
at line 405 says, and then publishes `queryTasks[0]`, the first task of the job,
instead of the orphaned one.  The orphan stays CANCELLED with no later run, and the
first task of the job runs a second time.

### Other disagreements

Each is stated as a property of its module, after the properties that hold, and
is not kept by the code.  To see it, name the property in a copy of a
configuration with the constants given (two handlers, `MaxUnawaited` 1, no crash).

| Property | Text | Instance | What happens |
|---|---|---|---|
| `OnlyCreatedJobsLaunched` | `JobService.ts:563` | 2 jobs, limit 1, `{"report"}` | the job document is visible NOT_STARTED before its tasks are saved; another job's end launches it half built |
| `PausedDefinitionLaunchesNothing` | `JobService.ts:557` | 2 jobs, limit 1, `{"report", "pause"}` | the pause comes after the launcher read the status |
| `RestartResumes` | `JobService.ts:474` | 1 job, `PauseOnFailedJob`, `{"report", "restart"}` | `restartJob` does not go through `updateJob` |
| `PausedOnlyWhileFailed` | `Test42.ts:22` | 2 jobs, `PauseOnFailedJob`, `{"report", "cancel"}` | the job is cancelled between a report's reading FAILED and its pausing the definition |
| `SkippedNeverRan` | `JobService.ts:608` | 2 jobs, limit 2, coalesce, `{"report"}` | the un-awaited SKIPPED update is applied after another launcher started the job |
| `FailureHoldsNextJob` | `JobDesigner.vue:1193` | 2 jobs, `PauseOnFailedJob`, `{"report"}` | recording FAILED launches the next job; the pause comes after |
| `ReadyJobLaunched` | `JobService.ts:643` | 2 jobs, limit 2, `{"report"}`, fair | the launcher's last query for ready jobs (676) is never awaited, its test (681) looks at the query object: a job whose own launcher found the lock taken stays NOT_STARTED with room to run |
| `NoLostJoin` | `Test52.ts:30` | `Join`, `{"noagent"}` | the loser of the claim of a waiting task throws (`Shared.ts:531`) and leaves `updateTaskOutcome` before `LaunchDownstreamTasks` |
| `RestartLeavesWork` | `Test53.ts:39` | 1 before 2, `{"interrupt", "restart"}` | a success reported while the job is INTERRUPTING launches nothing downstream (`TaskOutcomeService.ts:276`); a restart restarts interrupted outcomes and root tasks only |
| `StatusSettled` | `Test9.ts:156` | `Join`, `{"fail"}` | `UpdateJobStatus` writes without a condition what it computed from three earlier reads (`JobService.ts:812`): the last writer may have the oldest |
| `UpdatesRefuseCycles` | `TaskDefService.ts:236` | that of `TaskDefs` | "route all to" saves outbound routes alone, without the designer's check; the server reads missing inbound routes as none |
| `PaidIsFinal` | `InvoiceService.ts:102` | that of `Payments` | PAID is looked for in one query and the write is another: a second payment's decline overwrites it |
| `PaidInFull` | `PayInvoiceManualService.ts:126` | that of `Payments` | the amount entered is text (`InvoicePayment.vue:35`) and `paidAmount + amount` appends it: a paid 1 and an entered 1 make 11, which covers a bill of 3 |
| `KeepsItsText` | `store/script/actions.ts:44` | 1 user with 1 tab, 2 scripts, 4 acts, no events | the answer of a save selects its shadow again after another script was picked; publishing writes it there |
| `CancelEnds` | `Test42.ts:139` | `Pair`, 2 outcomes, `{"cancel"}` | a new outcome is cancelled twice, the second call throws and the task is never sent |

### Other hazards

`hazards` in `PROJECT.json` lists those that properties are about and the worst of the
others.  Further ones, met while modelling, which no text excludes and no
property covers:

- Jobs.  After restarting outcomes `restartJob` publishes root tasks beside a
  launcher that still starts the job (`JobActionService.ts:141`); a user restarts an
  outcome that `autoRestart` is about to restart (`TaskOutcomeActionService.ts:57`).
- Reports.  A cancellation between a report's check and its write is overwritten
  (`TaskOutcomeService.ts:162`); a late RUNNING takes back CANCELING (148);
  `PublishTask` marks a task PUBLISHED that was cancelled during the routing (651);
  a task that is both a route's target and the last of a join is published twice,
  `toHexString` being compared and not called (442); `OnTaskSkipped` writes SKIPPED on
  a task that was launched since its read (752; instance of `TaskFlow_actions` with
  `restartoutcome`).
- Agents.  The outcome of an expired message stays PUBLISHED beside the new one
  (`TaskActionService.ts:57`); the loser of a claim leaves other waiting tasks untried
  (`Shared.ts:531`); an agent late by one to two timeouts and never marked offline is
  not offered the waiting tasks (`AgentController.ts:327`; `Returns = {"stale"}`); only ten
  waiting tasks are looked at (`Shared.ts:570`); a step that uses a team variable
  assigns into `undefined` (`TaskOutcomeService.ts:581`).
- Definitions.  Overlapping edits close a cycle or leave a route to a deleted
  template (`TaskDefService.ts:243`), for whose tasks a job waits for ever; two
  overlapping creations have one name (78); a definition of one task is never
  checked (`SGUtils.ts:389`).
- Schedules.  A team at the limit of the free tier gets 401 for a definition that is gone as
  for any other (`JobController.ts:133`, `FreeTierChecks.ts:40`), so that `on_launch_job`
  does not delete the schedule (`JobScheduler.py:225`), which fires for ever;
  the report of a refused timetable deactivates a newer one
  (`JobScheduler.py:664`); overlapping update and deletion leave a job without a
  document.
- Payments.  A charge whose answer is lost (`PayInvoiceAutoService.ts:77`) is on no record and
  is made again by the next payment, there being no idempotency key; so is that of a
  second payment under way at the same time.
- Launcher.  A release that fails leaves `launchingJobs` true for ever, as a crash does
  (`JobService.ts:683`).
- Scripts.  Text typed while a publish saves is overwritten by the answer
  (`ScriptEditor.vue:495`); two tabs of one user create two shadows.
- Broker.  A publish returns before the confirmation, so a message on a connection
  that breaks is lost (`AMQPLib.ts:360`); without a channel it never returns (351); a
  subscription whose renewal fails is gone (171).
- Steps.  Output is appended by read and write, and a late report gets an error,
  because the condition on `lastUpdateId` ends up in the second query too
  (`StepOutcomeService.ts:140`).

## Proofs

### `JobLaunch_proofs`

It proves, for every set of jobs, every set of handlers, every
limit and every bound, from `ConstantsAssumption` alone:

| Theorem | Statement |
|---|---|
| `TypeCorrect` | `Spec => []TypeOK` |
| `LauncherExclusion` | `Spec => []LaunchExclusion` |
| `LimitKept` | `Spec => InstancesWithinLimit` |

`TypeOK` alone is not inductive: a step indexes `jobStatus` by a job kept in a
frame, so the frame must hold a *job* wherever the chain is about to use it.
`TypeInv` adds that, per program point (`DocumentsOK /\ FramesOK`).

`LaunchExclusion` needs, besides itself, only that release and the loop are
reached inside the `try` block.  `LimitKept` is the interesting one: the count of
running jobs is taken once, and the starts come later.  `LaunchInv` therefore
carries `QuotaKept`: while a launcher works, the jobs launched and running plus
its remaining quota are within the limit it read.  Ends, cancellations and
interruptions only lower the first summand; no other step raises it because only
launchers do and only one launcher works (`LaunchExclusion`), which is where the
lock is used.  Exceptions do no harm to either: those of a job's start and tasks
take the loop to its next job with the quota already lowered, the others lead to the
`finally` block, and a release that fails keeps the lock with no launcher at work.

Helpers that rewrite frames have lemmas of their own (`LiveFits`, `GoKeeps`, ...);
each group of actions has one lemma for the types and one for the launcher's
invariant.

### `TaskFlow_proofs`

For any tasks and routes (also graphs that no designer would accept), any outcomes,
any number of call chains at a time and any kinds of request, from
`ConstantsAssumption`:

| Theorem | Statement |
|---|---|
| `TypeCorrect` | `Spec => []TypeOK` |
| `JoinStaysComplete` | `Spec => []JoinComplete` |
| `SuccessStays` | `Spec => SuccessIsFinal` |

Each of the forty or so actions has a `Turn` lemma: what the step does to the locals of its
chain, and that the others keep theirs.  `TypeInv` (`DocumentsOK /\ FramesOK`) says what
the locals satisfy at each point; `ServeInv` which requests a point serves, for most
points are shared by several callers of `PublishTask`.

`JoinComplete` relates outcomes to `matched`, but the code tests neither: it tests
`up_dep`, long before it creates the outcome.  `JoinInv` therefore says that the tasks
awaited and not matched are in `up_dep` (its only writers remove what has matched), and
that a chain about to publish a task, or holding it on a list of launches, awaits nobody
(`Ready`).

`SuccessIsFinal` is about a check and a write in different steps (`ReportArrives`, then
`PutReport`).  `ReportInv` says why nothing comes between: at most one chain handles a
report on an outcome, while it does the agent is neither running nor about to report,
and in the steps from the check to the write the outcome's status is not one of an
outcome that ended (`Sound`).

The other theorems have hypotheses:

| Theorem | Statement |
|---|---|
| `OneRunEach` | `RestartsApart` implies `Spec => []`(one live outcome of each task that is no route's target) |
| `OneLive` | `RestartsApart` and no routes imply `Spec => []OneLiveOutcome` |
| `RunsAsDag` | `NoStops` and no routes imply `Spec => Dag!Spec` |
| `JoinNotLost` | `PlainJoins` implies `Spec => []NoLostJoin` |

`OneRunEach`: a task that is not the target of a route never has two runs that are not
over; `OneLive` is `OneLiveOutcome`, which says it of all tasks, where there are no
routes.  The argument is one of *claims*.  A claim on a task is whatever entitles somebody to
publish it once, now or later: a job that is not started yet (for a task without upstream
tasks), upstream tasks still awaited, its name on the launcher's list or on a report's list of
launches, a chain that publishes, resets or republishes it, the status that waits for an
agent, and an outcome that is not CANCELLED.  `ClaimInv` says that a task has at most one
claim.  Every step keeps the claims, drops some, or turns one into another: `Descend`
the last task awaited into a place on the list of launches, `CreateTaskOutcome` a chain that
publishes into the outcome, `TakeWaitingTask` the status into a chain, `AfterDownstream` an
outcome into its republication.  The invariant of outcomes alone is not inductive: that a
step may create an outcome rests on nobody else being about to.  `PlacedInv` says where
chains stand when they publish, and that the outcome of a report on its way to `autoRestart`
is not cancelled by others; `StartInv` that there is one launcher and, until it has
listed the tasks to start with, no outcome, no match and no other work.

The hypotheses are exactly what the code needs.  `RestartsApart`: the job is not restarted,
because `restartJob` publishes root tasks beside a launcher that still starts the
job; and no outcome is restarted by hand where a task has `autoRestart`, because a report that
has found its outcome INTERRUPTED republishes the task after the user has.  TLC finds two live
outcomes in either case (*Other hazards*).  Targets of routes are left out because they are
launched whatever their status is.

`RunsAsDag`: a job without routes that nobody stops implements `DagRun`, `Spec => Dag!Spec`
under the mapping `PhaseOf`, `EndedFor` that the run `TaskFlow_join` uses.  `CreateTaskOutcome`
is `Launch`, `PutReport` of an end is `End`, and every other step is a stutter.  The claims give
the first: a chain about to create an outcome holds the task's one claim, so there is no outcome
yet (`LaunchesFirst`).  What they do not give is `PlainInv`: no task is cancelled, an outcome is
PUBLISHED, RUNNING or ended, a chain that goes on from an end (past `PutReport`) holds the status
and the route its outcome has, and a match on record is of a task that ended with that route.
With `JoinComplete` the last makes a launch one that `DagRun` allows.

`NoStops` leaves only the events `fail` and `noagent`, and here too the code needs it.  An
interruption is no end to `DagRun`, since the task may be restarted, and yet it launches the
tasks that accept the route `interrupt`; an outcome that FAILED may still be set to CANCELING by a user who cancels; and
a restart runs a task again.  `AutoRestart` is any set of tasks.  `RunsAll` asks for fairness
as well, and that half stays with TLC.

`JoinNotLost`: the reports on the upstream tasks of a join are handled by chains of their own,
each of which takes its task out of `up_dep` and launches the join only if it finds itself the
last.  That none leaves the launch to another is `HeardInv`, which speaks of every state, where
`NoLostJoin` speaks of a job at rest.  A task that awaits nobody and was never launched is on the
list of launches of some chain (`NoneMissed`).  An outcome that has ended for a task which still
awaits its task has a chain that reports this end, with the same route, and has the task still
before it (`NoneForgotten`), unless every task has been launched.  The rest of the invariant says
why no chain turns away on its path: the job is RUNNING, COMPLETED or FAILED (`DocsGoing`), and a
chain that holds COMPLETED, which would skip the tasks below, has it from reads that
show every task launched (`Shown`), however old those reads are.  At rest there is no chain, and
what remains is the join that was launched.  `Descend` is the one step that moves a task from
the second statement to the first.

`PlainJoins` leaves the events `fail`, `restart` and `restartoutcome`, as in the run
`TaskFlow_restart`, no targets of routes, and patterns that accept every route of a task
that succeeds.  With a missing agent the property is false (*Other disagreements*).  Interruption and
cancellation stop chains on purpose; a pattern that a success does not match has the task
skipped, and skipping is a second path to a status other than NULL that this invariant
does not follow.

### `Agents_proofs`

For any agents, tasks, targets, outcomes and handlers, from `ConstantsAssumption`:

| Theorem | Statement |
|---|---|
| `TypeCorrect` | `Spec => []TypeOK` |
| `OneRunnerAtATime` | `RestartsRestart` implies `Spec => []OneRunner` |
| `WaitersJustified` | `NoneLost` implies `Spec => []WaitingJustified` |

A handler here has a list of things to do, each naming an agent, a task or an outcome;
`TypeInv` says that what an item or a message says of an outcome is so (`ItemOK`,
`MessageOK`), which survives because outcomes never change hands (`Grown`).

`PlaceInv` is the argument for `OneRunner`: a task for one agent that is not restarted
automatically is in one message, in one process, with one handler, or in the error
queue, and in no two of these (`Once`, `Apart`); while its status says that it waits for
an agent, or was never launched, it is in none (`AtRest`), which makes it safe to publish.

The hypothesis `RestartsRestart` is a finding of the proof.  When an agent is lost with a
task that restarts, the code publishes *the first task of the job*
(`AgentService.ts:448`), whichever was lost.  If that one is not a task that restarts, it
may be waiting in a queue or running at the time.  In the model each task names the one
that is published for it (`Restarted`); the hypothesis is that it restarts too, as it does in
jobs of one task and wherever the first task has the flag.

`WaitInv` is the argument for `WaitingJustified`.  While no two requests have offered
waiting tasks at the same time (`OfferInv`):

* at most one handler has such items on its list (`Solo`), and a task it is still to offer
  does wait (`PullsWait`), so no claim is lost;
* a handler that looks for an agent goes by the task's own list of tried agents
  (`TriedKnown`), and when it has found none, all active agents are on that list or somebody
  will look a second time (`AgainComes`): the agent that came back meanwhile;
* hence for a task that waits, some handler is to list the waiting tasks or to offer this
  one, or all active agents have tried it (`WaitersSeen`).  At rest no handler has anything
  to do, and that is the property.

A task for one agent cannot be given a status behind the back of these, because it is at one
place (`PlaceInv`).  For tasks for several agents `OneRunner` says nothing: `Lock` says who
writes their status, so that none of them is mistaken for one that waits.  `Plan` says in which
order a handler's items come: tasks are offered each once and before anything else.

`NoneLost` is the instance that the run `agents` checks.  TLC refutes the property without
either half: an agent that was silent for more than T but less than 2T comes back and nobody
offers it the waiting tasks (`AgentController.ts:327`); and the first task of the job, published
for a lost one while it was being published already, counts as PUBLISHED when the returning
agent's request looks a second time, and is set to wait after that.

### `Schedules_proofs`

For any schedules, timetables, requests and crashes, from `ConstantsAssumption`:

| Theorem | Statement |
|---|---|
| `TypeCorrect` | `Spec => []TypeOK` |
| `SchedulerFollows` | `Spec => []SchedulerAgrees` |

`SchedulerAgrees` is about undisturbed histories at rest; `AgreeInv` says what holds on the
way there.  Undisturbed, those at work are alone (`Alone`), each message still tells what
its document says (`MessagesTell`), and where scheduler and document disagree somebody
is on his way to mend it (`Settled`): the message, the handler about to send it, or the
thread that will delete the document of a schedule that fired for the last time.

### `Payments_proofs`

For any invoices, bills, number of requests at a time and crashes, from
`ConstantsAssumption`:

| Theorem | Statement |
|---|---|
| `TypeCorrect` | `Spec => []TypeOK` |
| `PaidStaysCovered` | `Spec => []PaidIsCovered` |
| `BooksStayBalanced` | `Spec => []BooksBalance` |
| `ChargedNeverRejected` | `Spec => ChargedNeverRejects` |
| `TeamStands` | `Spec => []TeamStanding` |

`PaidIsCovered` says nothing of requests, so it is not inductive: `PayInv` adds what
each request carries at each point (`Fits`). After a charge the update says what was
paid, which is no less than the sum (`PaidAfterGrows`: an amount appended is an amount
added, and more), and exactly the sum unless an amount was appended; then the bill is
not exceeded, and the transactions cover it but for the one still to be recorded.
Because transactions are only ever added, a step of one request disturbs no other
(`FitsGrows`), which is why overlap does no harm here.

`BooksBalance` is about an invoice with no request under way; the invariant `BooksInv`
says how far its accounts have come while there is one (`Account`): first the
transactions are behind the cards, then `paidAmount`, then nothing. After an appended
amount `paidAmount` is only known to say no less, which is enough for the bill not to be
charged again. It carries that an invoice with a single request is open until that
request writes it, or `updateInvoice` would throw and leave the accounts apart.
`BooksStep` reduces a step to the request's own invoice.

`TeamStanding` excepts disturbed histories; `StandInv` follows the one request under way
(`Stands`).  Up to its write of the invoice the team is DELINQUENT exactly if some
invoice is rejected (`Agree`).  Afterwards the request carries what the team has yet to
hear: it knows the team's status from before, so it either looks for other rejected
invoices and heals the team, or blames it.  `Unpaid` (what is rejected is not paid in
full) excludes the request that finds nothing to charge and marks a rejected invoice PAID
with the team left as it was.

### `ScriptEditing_proofs`

For any tabs, users, scripts and texts and any order of answers and pushes, from
the module's assumptions:

| Theorem | Statement |
|---|---|
| `TypeCorrect` | `Spec => []TypeOK` |
| `OnlyOwnShadow` | `Spec => []OwnShadow` |
| `BackedUp` | `Spec => []PublishedIsBackedUp` |
| `SelectIsAnswered` | `Spec => []SelectAnswerable` |
| `OneShadow` | when every user has one tab: `Spec => []OneShadowEach` |

`EditInv` (documents, tabs, calls, pushes) says what a tab and its requests may refer to:
what is selected and what a promise resolved to is an object that shows a shadow of
the tab's own user, although pushes bring everybody's shadows into the store.
`AskInv` ties a pending promise to exactly one request.  `FirstInv` is the reason for
`OneShadow`: a request that found no shadow stays right until it creates one, since the
only one who could have created it meanwhile is that same request.  With two tabs
this is false, which is the run's reason for having one tab per user there.

### `Broker_proofs`

For any messages, queues, connections and number of faults, from
`ConnAssumption` and `CallsAssumption` (a call is of one kind):

| Theorem | Statement |
|---|---|
| `TypeCorrect` | `Spec => []TypeOK` |
| `ChannelsStayLive` | `Spec => []ChannelsLive` |
| `NoDuplicate` | `Spec => []PublishedOnce` |

The parts of a call (`Close`, `Failed`, `Ready`, `CreateChannel`, `Drain`,
`Resubscribe`, `RejectAll`) take a state to a state, several of them in one step.
`SoundBut(s, P, D)` is what a state must satisfy but for the calls `P`, which may
wait over a connection just closed, and with the messages `D` done; each part has
a lemma that it keeps it, and `RejectAll` one that it takes `P` away.  The type
invariant contains that calls wait over connections that are not closed: that is
what makes a channel that arrives late one of a live connection.  `PublishedOnce`
is the choice `D` = the messages received.

### `TaskDefs_proofs`

For any names, templates, numbers of handlers and of requests, from
`ConstantsAssumption` (there are finitely many names and templates):

| Theorem | Statement |
|---|---|
| `SearchExact` | `IsCyclic(taskDefs) <=> ~Acyclic(taskDefs)`, for any set of templates with names |
| `TypeCorrect` | `Spec => []TypeOK` |
| `JobsAcyclic` | `Spec => []JobGraphAcyclic` |
| `DesignerAndServerAgree` | `Spec => []DesignerRuleExact` |
| `EditsInOrder` | `Spec => []EditsKeepOrder` |

`SearchExact` is the correctness of the server's depth first search, with its one set of
visited nodes that is shared by all calls.  A call is made for a node not visited, that every
node of the path (`recStack`) reaches, while what is visited and not on the path is *good*: closed
under arcs and without a cycle (`Callable`).  It returns a cycle only if there is one,
and otherwise has visited the node and left more good nodes (`Answers`).  The proof is by induction
over the nodes still to be visited, and inside it over the neighbours the loop has done
(`Midway`, `Further`).  The induction theorems of the library take an operator as a
parameter, which the provers cannot instantiate; `LeastNumber` derives the principle
from `WFMin` as a statement about sets, and folds are brought to it by
`Iterates`.  `ReachLeast` says that the levels of `Reach` end in the least closed set.

From these `DesignerAndServerAgree` takes a step about graphs: an arc added to an acyclic graph
closes a cycle exactly if its end reaches its start (`OneMoreArc`).

`EditsKeepOrder` is about histories without overlap, at rest.  `OrderInv` says
what is so on the way (`UnderWay`): one request at a time, and what remains to be done of it
leads to documents in good order.  The long way is a renaming: the handler writes
the routes of the other templates one by one before the name itself, so between these
steps routes lead to a task that does not exist yet.  What holds then is that the
*renamed* documents would be in good order (`Renamed`), that the writes left on its
list are exactly those still needed, and that the task does not mention itself
(`NoSelfRoute`).  A deletion keeps order at each of its steps (`FewerRoutes`).

`JobGraphAcyclic` used to say this of every job, and the run agreed, since no request that it
makes leads a task to itself.  The proof did not go through: `isJobDefCyclical` accepts every definition of
one task (`SGUtils.ts:389`), so the job of a single task that waits for itself
would be built, and never run.  The property is therefore stated for jobs of several tasks.

### Only model-checked

* Liveness: out of the prover's reach.
* `TaskFlow`: that a job without failures stays COMPLETED (`JobEnds`; with failures see
  *Other disagreements*): the last writer of the job's status may have the oldest reads, and that
  its value is the right one rests on the order in which all tasks end, which `HeardInv` does not
  record.  `NoLostJoin` with routes not taken.  `RunsAll`: its safety half is `RunsAsDag`, the
  other is fairness.

## Not modelled

In the modelled parts: tasks without a job and jobs without a definition; runtime
variables; tags and the choice of the least loaded agent; AWS Lambda tasks;
expired interrupt messages as such (`TaskFlow` has their effect); edits of
definitions with live jobs; two patterns between the same pair of tasks; failure
codes, except that a failed outcome is one that `restartTaskOutcome` accepts (its three
codes are those agents report); repetition schedules, misfires and
`nextScheduledRunDate`; making invoices and Stripe's webhooks; creating,
renaming and deleting scripts; acknowledgements and a connector that gives up after
thirty attempts.

Other components, with the reason in `PROJECT.json`: steps (their output is lost by
overlapping reports, but nothing depends on it); teams, users and access, artifacts
and variables (documents read and written one at a time); Saascipes
(conversion of documents); the HTTP layer, browser notifications, pages of the web
client other than those above, images and charts.  These make up most of the
repository's lines: pages and controllers that pass one document between the
database and a form, with no state of their own to go wrong.

## Plan

1. `JobLaunch`, `TaskFlow`, `DagRun`: the engine's core.  *Done*, with the first proofs.
2. `Agents`, `TaskDefs`, `Schedules`, `Payments`, `ScriptEditing`, `Broker`.  *Done.*
3. `JobLaunch_proofs`, `Payments_proofs`, `Broker_proofs`, `ScriptEditing_proofs`,
   `Schedules_proofs`.  *Done.*
4. `TaskFlow_proofs`, `Agents_proofs`: the types, and the safety properties above.  *Done.*
5. `TaskFlow_proofs`: `OneLiveOutcome` and the refinement of `DagRun`.  *Done.*
6. `TaskDefs_proofs`: the searches, and all properties of `TaskDefs`.  *Done.*
7. `Agents_proofs`: `WaitingJustified`.  *Done.*
