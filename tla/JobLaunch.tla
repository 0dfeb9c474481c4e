------------------------------ MODULE JobLaunch ------------------------------
(***************************************************************************)
(* The life of the jobs of ONE job definition, as the API servers keep it  *)
(* in MongoDB: creation, the launcher LaunchReadyJobs with its             *)
(* `launchingJobs' lock, UpdateJobStatus, the user's job actions, and the  *)
(* pausing and resuming of the definition.                                 *)
(*                                                                         *)
(* A handler is one asynchronous call chain in an API server (an HTTP      *)
(* request, or a call the code makes without awaiting it).  Every step is  *)
(* one database call together with the synchronous code up to the next     *)
(* await, so handlers interleave exactly where the code can be suspended.  *)
(* What the tasks of a job do is abstracted to the results CheckJobStatus  *)
(* may compute from them.                                                  *)
(***************************************************************************)
EXTENDS Integers, FiniteSets, Enums

CONSTANTS
    Job,               \* jobs of the definition: positive numbers in order of creation
    Handler,           \* bound: call chains in progress at the same time
    Limits,            \* values maxInstances may be given; 0 means no limit
    Coalesce,          \* the definition's `coalesce'
    PauseOnFailedJob,  \* the definition's `pauseOnFailedJob'
    Events,            \* the kinds of request and failure of this instance
    MaxUnawaited,      \* bound: launcher calls not awaited and not yet running
    MaxCrashes         \* bound: how many call chains may die in mid-flight or fail to
                       \* give the lock back

ASSUME ConstantsAssumption ==
    /\ Job \subseteq Nat \ {0} /\ IsFiniteSet(Job)
    /\ Limits \subseteq Nat /\ Limits # {}
    /\ Coalesce \in BOOLEAN /\ PauseOnFailedJob \in BOOLEAN
    /\ MaxUnawaited \in Nat \ {0}
    /\ MaxCrashes \in Nat

VARIABLES
    defStatus,      \* JobDef.status
    launchingJobs,  \* JobDef.launchingJobs: the launcher's lock
    maxInstances,   \* JobDef.maxInstances
    jobStatus,      \* Job.status; NULL before the document is saved
    built,          \* jobs whose Task documents are all saved
    late,           \* jobs past their misfire grace time
    skipping,       \* SKIPPED updates issued without await and not yet applied
    fired,          \* number of LaunchReadyJobs calls made without await, not yet running
    published,      \* jobs with at least one task published to an agent
    pc, frame,      \* per handler: where it stands and its local variables
    crashes,        \* how many handlers have died or failed to give the lock back
    launched,       \* history: jobs a launcher has ever started
    inst            \* history: those that have been RUNNING ever since

defVars  == <<defStatus, launchingJobs, maxInstances>>
histVars == <<launched, inst>>
vars == <<defStatus, launchingJobs, maxInstances, jobStatus, built, late, skipping,
          fired, published, pc, frame, crashes, launched, inst>>

NoJob == 0
Finished == {COMPLETED, FAILED, SKIPPED}      \* status >= COMPLETED
Steps == {"idle", "create", "created", "read", "decide", "write", "check", "resume",
          "reread", "pause", "lock", "query", "count", "start", "tasks", "publish",
          "fire", "release"}

\* The locals of a call chain.
\*   target    the job of the request       starting  the job a launcher is starting
\*   status    a job status read or about to be written
\*   then      where the chain goes after its UpdateJobStatus
\*   again     another LaunchReadyJobs call is due after this one
\*   launching it is inside the try block of LaunchReadyJobs
\*   seenLate  currentTime of LaunchReadyJobs: the jobs that were late when it was called
\*   limit, todo, quota   jobDef.maxInstances as read, jobsToRun, numJobsToStart
Frame == [target : Job \cup {NoJob}, starting : Job \cup {NoJob}, status : JobStatus \cup {NULL},
          then : {"idle", "reread", "fire"}, again : BOOLEAN, launching : BOOLEAN,
          seenLate : SUBSET Job, limit : Limits \cup {0}, todo : SUBSET Job, quota : Nat]

EmptyFrame == [target |-> NoJob, starting |-> NoJob, status |-> NULL, then |-> "idle",
               again |-> FALSE, launching |-> FALSE, seenLate |-> {}, limit |-> 0, todo |-> {}, quota |-> 0]

Existing       == {j \in Job : jobStatus[j] # NULL}
WithStatus(S)  == {j \in Job : jobStatus[j] \in S}

\* The job that UpdateJobStatus or the launching of tasks is about.
Subject(f) == IF f.launching THEN f.starting ELSE f.target

\* Jobs are read in the order of their creation.
IsOldest(j, S) == \A k \in S : j <= k
Newest(S)      == {j \in S : \A k \in S : k <= j}

-----------------------------------------------------------------------------
(***************************************************************************)
(* Control helpers                                                         *)
(***************************************************************************)
\* The locals f that are still of use at `next'; the others are forgotten.
Live(next, f) ==
    IF next = "idle" THEN EmptyFrame
    ELSE [f EXCEPT
            !.status = IF next \in {"decide", "write", "check", "resume", "pause"} THEN @ ELSE NULL,
            !.starting = IF next \in {"start", "release"} THEN NoJob ELSE @,
            !.target = IF f.then = "idle" /\ (f.launching \/ next = "lock") THEN NoJob ELSE @]

\* Handler h goes on at `next' with locals f.
Go(h, next, f) ==
    /\ pc' = [pc EXCEPT ![h] = next]
    /\ frame' = [frame EXCEPT ![h] = Live(next, f)]

\* A call of LaunchReadyJobs starts by reading the clock.
Calling(f) == [f EXCEPT !.seenLate = late]

\* Where a chain goes when the UpdateJobStatus it awaited returns.
Continue(f) == IF f.launching \/ f.then = "fire" THEN "fire" ELSE f.then

\* What updateJob does after its write and the resumption of the definition:
\* finished jobs make room, so it launches ready jobs.  The launcher's own
\* nested call returns at once, because the lock is its own (LaunchExclusion).
AfterUpdate(h, f) ==
    IF f.status \in Finished /\ ~f.launching
    THEN Go(h, "lock", Calling([f EXCEPT !.again = FALSE]))
    ELSE Go(h, Continue(f), f)

\* LaunchReadyJobs returns: to the second call of updateJob, or to the caller.
AfterLaunch(h, f) ==
    LET g == [f EXCEPT !.launching = FALSE, !.seenLate = {}, !.limit = 0,
                       !.todo = {}, !.quota = 0, !.again = FALSE]
    IN  IF f.again THEN Go(h, "lock", Calling(g)) ELSE Go(h, Continue(g), g)

\* One more call of LaunchReadyJobs is made and not awaited; some handler runs it.
FireLaunch == fired' = IF fired < MaxUnawaited THEN fired + 1 ELSE fired

SetStatus(j, s) ==
    /\ jobStatus' = [jobStatus EXCEPT ![j] = s]
    /\ inst' = IF s = RUNNING THEN inst ELSE inst \ {j}

-----------------------------------------------------------------------------
(***************************************************************************)
(* Creating a job: the Job document is saved NOT_STARTED first, then its   *)
(* tasks one by one, then the launcher is called without await.            *)
(***************************************************************************)
CreateJob(h) ==
    /\ pc[h] = "idle"
    /\ \E j \in Job \ Existing :
        /\ IsOldest(j, Job \ Existing)
        /\ jobStatus' = [jobStatus EXCEPT ![j] = NOT_STARTED]
        /\ Go(h, "create", [EmptyFrame EXCEPT !.target = j])
    /\ UNCHANGED <<defVars, built, late, skipping, fired, published, crashes, histVars>>

CreateTasks(h) ==
    /\ pc[h] = "create"
    /\ built' = built \cup {Subject(frame[h])}
    /\ FireLaunch
    /\ Go(h, "created", frame[h])
    /\ UNCHANGED <<defVars, jobStatus, late, skipping, published, crashes, histVars>>

CreateSucceeds(h) ==
    /\ pc[h] = "created"
    /\ Go(h, "idle", frame[h])
    /\ UNCHANGED <<defVars, jobStatus, built, late, skipping, fired, published, crashes, histVars>>

\* A cyclic definition, a missing script or a schedule that cannot be repeated.
CreateFails(h) ==
    /\ "createfails" \in Events
    /\ pc[h] \in {"create", "created"}
    /\ Go(h, "write", [frame[h] EXCEPT !.status = FAILED])
    /\ UNCHANGED <<defVars, jobStatus, built, late, skipping, fired, published, crashes, histVars>>

-----------------------------------------------------------------------------
(***************************************************************************)
(* UpdateJobStatus: read the job, compute a status from its tasks, and     *)
(* write it with no condition on what the job's status is by then.         *)
(***************************************************************************)
\* Mutant: a task's status taken for the job's.
TaskStatusReturned(current) == {current, FAILED, CANCELLED}

\* What CheckJobStatus may return for some statuses of the job's tasks.
MayBecome(current) ==
    {current, FAILED, COMPLETED}
        \cup (IF current = INTERRUPTING THEN {INTERRUPTED} ELSE {})
        \cup (IF current \in {COMPLETED, INTERRUPTED, FAILED} THEN {RUNNING} ELSE {})

ReadJob(h) ==
    /\ pc[h] = "read"
    /\ Go(h, "decide", [frame[h] EXCEPT !.status = jobStatus[Subject(frame[h])]])
    /\ UNCHANGED <<defVars, jobStatus, built, late, skipping, fired, published, crashes, histVars>>

Decide(h) ==
    /\ pc[h] = "decide"
    /\ \E s \in MayBecome(frame[h].status) :
        IF s # frame[h].status
        THEN Go(h, "write", [frame[h] EXCEPT !.status = s])
        ELSE LET next == Continue(frame[h])
             IN  Go(h, IF next = "reread" THEN "pause" ELSE next, frame[h])
    /\ UNCHANGED <<defVars, jobStatus, built, late, skipping, fired, published, crashes, histVars>>

(***************************************************************************)
(* updateJob                                                               *)
(***************************************************************************)
Resuming(s, old) == /\ s \in {RUNNING, COMPLETED, SKIPPED}
                    /\ old \in {INTERRUPTED, CANCELING, FAILED}

WriteStatus(h) ==
    LET f == frame[h]
    IN  /\ pc[h] = "write"
        /\ SetStatus(Subject(f), f.status)
        /\ IF Resuming(f.status, jobStatus[Subject(f)]) THEN Go(h, "check", f)
                                                      ELSE AfterUpdate(h, f)
        /\ UNCHANGED <<defVars, built, late, skipping, fired, published, crashes, launched>>

\* The launcher's SKIPPED updates, which nobody awaits.
WriteSkipped(h) ==
    /\ pc[h] = "idle"
    /\ \E j \in skipping :
        LET f == [EmptyFrame EXCEPT !.target = j, !.status = SKIPPED]
        IN  /\ skipping' = skipping \ {j}
            /\ SetStatus(j, SKIPPED)
            /\ IF Resuming(SKIPPED, jobStatus[j]) THEN Go(h, "check", f)
                                                  ELSE AfterUpdate(h, f)
    /\ UNCHANGED <<defVars, built, late, fired, published, crashes, launched>>

CheckFailedJobs(h) ==
    /\ pc[h] = "check"
    /\ IF WithStatus({INTERRUPTED, FAILED}) = {} THEN Go(h, "resume", frame[h])
                                                 ELSE AfterUpdate(h, frame[h])
    /\ UNCHANGED <<defVars, jobStatus, built, late, skipping, fired, published, crashes, histVars>>

\* updateJobDef {status: RUNNING} where the definition is PAUSED; it launches
\* ready jobs itself, and a finished job launches them once more afterwards.
ResumeJobDef(h) ==
    LET f == frame[h]
    IN  /\ pc[h] = "resume"
        /\ defStatus' = RUNNING
        /\ IF defStatus = PAUSED /\ ~f.launching
           THEN Go(h, "lock", Calling([f EXCEPT !.again = f.status \in Finished]))
           ELSE AfterUpdate(h, f)
        /\ UNCHANGED <<launchingJobs, maxInstances, jobStatus, built, late, skipping,
                       fired, published, crashes, histVars>>

-----------------------------------------------------------------------------
(***************************************************************************)
(* LaunchReadyJobs                                                         *)
(***************************************************************************)
RunLaunch(h) ==
    /\ pc[h] = "idle"
    /\ fired > 0
    /\ fired' = fired - 1
    /\ Go(h, "lock", Calling(EmptyFrame))
    /\ UNCHANGED <<defVars, jobStatus, built, late, skipping, published, crashes, histVars>>

\* Mutant: an update without its filter.
NoLockFilter == TRUE

\* The filters of the two conditional updates.
LockFilter == ~launchingJobs

StartFilter(j) == jobStatus[j] = NOT_STARTED

TakeLock(h) ==
    /\ pc[h] = "lock"
    /\ LockFilter
    /\ launchingJobs' = TRUE
    /\ Go(h, IF defStatus = PAUSED THEN "release" ELSE "query",
          [frame[h] EXCEPT !.launching = TRUE, !.limit = maxInstances])
    /\ UNCHANGED <<defStatus, maxInstances, jobStatus, built, late, skipping, fired, published,
                   crashes, histVars>>

\* Another launcher holds the lock: log an error and give up.
LockTaken(h) ==
    /\ pc[h] = "lock"
    /\ ~LockFilter
    /\ AfterLaunch(h, frame[h])
    /\ UNCHANGED <<defVars, jobStatus, built, late, skipping, fired, published, crashes, histVars>>

QueryReadyJobs(h) ==
    LET ready   == WithStatus({NOT_STARTED})
        expired == ready \cap frame[h].seenLate
    IN  /\ pc[h] = "query"
        /\ skipping' = skipping \cup expired
        /\ Go(h, IF ready = {} THEN "release" ELSE "count",
              [frame[h] EXCEPT !.todo = ready \ expired])
        /\ UNCHANGED <<defVars, jobStatus, built, late, fired, published, crashes, histVars>>

\* Mutant: the running jobs are not counted.
RunningJobsIgnored(limit, running, ready) == IF limit = 0 \/ ready <= limit THEN ready ELSE limit

\* numJobsToStart, never below zero
NumJobsToStart(limit, running, ready) ==
    IF limit = 0 \/ ready + running <= limit THEN ready
    ELSE IF running < limit THEN limit - running ELSE 0

CountRunningJobs(h) ==
    LET f      == frame[h]
        quota  == NumJobsToStart(f.limit, Cardinality(WithStatus({RUNNING})),
                                 Cardinality(f.todo))
        latest == Newest(f.todo)
    IN  /\ pc[h] = "count"
        /\ IF quota > 0 /\ Coalesce
           THEN /\ skipping' = skipping \cup (f.todo \ latest)
                /\ Go(h, "start", [f EXCEPT !.todo = latest, !.quota = 1])
           ELSE /\ skipping' = skipping
                /\ Go(h, "start", [f EXCEPT !.quota = quota])
        /\ UNCHANGED <<defVars, jobStatus, built, late, fired, published, crashes, histVars>>

\* One turn of the loop: RUNNING if the job is still NOT_STARTED, else the next one.
StartJob(h) ==
    LET f == frame[h]
        Started(j) == [f EXCEPT !.starting = j, !.todo = f.todo \ {j}, !.quota = f.quota - 1]
    IN  /\ pc[h] = "start"
        /\ f.quota > 0
        /\ \E j \in f.todo :
            /\ IsOldest(j, f.todo)
            /\ IF StartFilter(j)
               THEN /\ jobStatus' = [jobStatus EXCEPT ![j] = RUNNING]
                    /\ launched' = launched \cup {j}
                    /\ inst' = inst \cup {j}
                    /\ Go(h, "tasks", Started(j))
               ELSE /\ UNCHANGED <<jobStatus, histVars>>
                    /\ Go(h, "start", Started(j))
        /\ UNCHANGED <<defVars, built, late, skipping, fired, published, crashes>>

\* The launcher is in its finally block, or its loop is over and takes it there.
Releasing(h) == \/ pc[h] = "release"
                \/ pc[h] = "start" /\ frame[h].quota = 0

Release(h) ==
    /\ Releasing(h)
    /\ launchingJobs' = FALSE
    /\ AfterLaunch(h, frame[h])
    /\ UNCHANGED <<defStatus, maxInstances, jobStatus, built, late, skipping, fired, published,
                   crashes, histVars>>

\* The release update itself throws: the error is logged, the launcher returns, and
\* the lock stays taken.
ReleaseFails(h) ==
    /\ "error" \in Events
    /\ Releasing(h)
    /\ crashes < MaxCrashes
    /\ crashes' = crashes + 1
    /\ AfterLaunch(h, frame[h])
    /\ UNCHANGED <<defVars, jobStatus, built, late, skipping, fired, published, histVars>>

\* Mutant: no finally block.
ThrowsWithoutFinally(h) ==
    /\ "error" \in Events
    /\ pc[h] \in {"query", "count"}
    /\ Go(h, "idle", EmptyFrame)
    /\ UNCHANGED <<defVars, jobStatus, built, late, skipping, fired, published, crashes, histVars>>

\* A query of the try block, outside its loop over the jobs, throws: the finally block
\* still runs, and then the caller's chain ends with the error.
LaunchThrows(h) ==
    /\ "error" \in Events
    /\ pc[h] \in {"query", "count"}
    /\ Go(h, "release", [frame[h] EXCEPT !.then = "idle", !.again = FALSE])
    /\ UNCHANGED <<defVars, jobStatus, built, late, skipping, fired, published, crashes, histVars>>

\* The update that starts a job throws: the loop logs the error and goes on with the
\* next job.
StartThrows(h) ==
    LET f == frame[h]
    IN  /\ "error" \in Events
        /\ pc[h] = "start"
        /\ f.quota > 0
        /\ \E j \in f.todo :
            /\ IsOldest(j, f.todo)
            /\ Go(h, "start", [f EXCEPT !.starting = j, !.todo = f.todo \ {j}, !.quota = f.quota - 1])
        /\ UNCHANGED <<defVars, jobStatus, built, late, skipping, fired, published, crashes, histVars>>

\* So does anything in the launching of the job's tasks; the job stays RUNNING.
TasksThrow(h) ==
    /\ "error" \in Events
    /\ frame[h].launching
    /\ pc[h] \in {"tasks", "publish", "decide", "write", "check", "resume"}
    /\ Go(h, "start", frame[h])
    /\ UNCHANGED <<defVars, jobStatus, built, late, skipping, fired, published, crashes, histVars>>

(***************************************************************************)
(* LaunchTasksWithNoUpstreamDependencies: the launcher's, and restartJob's *)
(***************************************************************************)
BeginTasks(h) ==
    /\ pc[h] = "tasks"
    /\ Go(h, "publish", [frame[h] EXCEPT !.status = jobStatus[Subject(frame[h])]])
    /\ UNCHANGED <<defVars, jobStatus, built, late, skipping, fired, published, crashes, histVars>>

\* What follows the tasks: the launcher's next job, or restartJob's UpdateJobStatus.
AfterTasks(f) == IF f.launching THEN "start" ELSE "decide"

TasksPublished(h) ==
    LET f == frame[h]
    IN  /\ pc[h] = "publish"
        /\ published' = published \cup {Subject(f)}
        /\ Go(h, AfterTasks(f), [f EXCEPT !.status = RUNNING,
                                         !.then = IF f.launching THEN @ ELSE "idle"])
        /\ UNCHANGED <<defVars, jobStatus, built, late, skipping, fired, crashes, histVars>>

\* No task could be published: UpdateJobStatus with the status read before ...
NothingPublished(h) ==
    /\ pc[h] = "publish"
    /\ Go(h, "decide", frame[h])
    /\ UNCHANGED <<defVars, jobStatus, built, late, skipping, fired, published, crashes, histVars>>

\* ... and then a launcher that is not awaited.
LaunchAfterNothing(h) ==
    LET f == frame[h]
    IN  /\ pc[h] = "fire"
        /\ FireLaunch
        /\ Go(h, AfterTasks(f), [f EXCEPT !.status = RUNNING,
                                         !.then = IF f.launching THEN @ ELSE "idle"])
        /\ UNCHANGED <<defVars, jobStatus, built, late, skipping, published, crashes, histVars>>

-----------------------------------------------------------------------------
(***************************************************************************)
(* updateTaskOutcome, as far as the job is concerned: UpdateJobStatus, the *)
(* pause of the definition, UpdateJobStatus again.                         *)
(***************************************************************************)
ReportOutcome(h) ==
    /\ "report" \in Events
    /\ pc[h] = "idle"
    /\ \E j \in published :
        Go(h, "read", [EmptyFrame EXCEPT !.target = j, !.then = "reread"])
    /\ UNCHANGED <<defVars, jobStatus, built, late, skipping, fired, published, crashes, histVars>>

\* updateJob returns the job as it is now, nested launches included.
RereadJob(h) ==
    /\ pc[h] = "reread"
    /\ Go(h, "pause", [frame[h] EXCEPT !.status = jobStatus[Subject(frame[h])]])
    /\ UNCHANGED <<defVars, jobStatus, built, late, skipping, fired, published, crashes, histVars>>

PauseOnFailure(h) ==
    /\ pc[h] = "pause"
    /\ defStatus' = IF frame[h].status \in {INTERRUPTED, FAILED} /\ PauseOnFailedJob
                    THEN PAUSED ELSE defStatus
    /\ Go(h, "read", [frame[h] EXCEPT !.then = "idle"])
    /\ UNCHANGED <<launchingJobs, maxInstances, jobStatus, built, late, skipping,
                   fired, published, crashes, histVars>>

(***************************************************************************)
(* The user's job actions.  Each is one conditional update, the tasks'     *)
(* part (abstracted), and UpdateJobStatus with the status just written.    *)
(***************************************************************************)
JobAction(h, from, to, next, then) ==
    /\ pc[h] = "idle"
    /\ \E j \in WithStatus(from) :
        /\ SetStatus(j, to)
        /\ Go(h, next, [EmptyFrame EXCEPT !.target = j, !.status = to, !.then = then])
    /\ UNCHANGED <<defVars, built, late, skipping, fired, published, crashes, launched>>

InterruptJob(h) ==
    "interrupt" \in Events /\ JobAction(h, {RUNNING}, INTERRUPTING, "decide", "idle")

RestartJob(h) ==
    "restart" \in Events /\ JobAction(h, {INTERRUPTED, FAILED}, RUNNING, "tasks", "fire")

CancelJob(h) ==
    /\ "cancel" \in Events
    /\ JobAction(h, {NOT_STARTED, RUNNING, INTERRUPTING, INTERRUPTED, FAILED}, CANCELING,
                 "decide", "idle")

(***************************************************************************)
(* updateJobDef by a user                                                  *)
(***************************************************************************)
PauseJobDef ==
    /\ "pause" \in Events
    /\ defStatus' = PAUSED
    /\ UNCHANGED <<launchingJobs, maxInstances, jobStatus, built, late, skipping, fired, published,
                   pc, frame, crashes, histVars>>

UnpauseJobDef(h) ==
    /\ "pause" \in Events
    /\ pc[h] = "idle"
    /\ defStatus = PAUSED
    /\ defStatus' = RUNNING
    /\ Go(h, "lock", Calling(EmptyFrame))
    /\ UNCHANGED <<launchingJobs, maxInstances, jobStatus, built, late, skipping, fired, published,
                   crashes, histVars>>

SetMaxInstances(h) ==
    /\ "limit" \in Events
    /\ pc[h] = "idle"
    /\ \E m \in Limits :
        /\ maxInstances' = m
        /\ Go(h, IF m > maxInstances THEN "lock" ELSE "idle", Calling(EmptyFrame))
    /\ UNCHANGED <<defStatus, launchingJobs, jobStatus, built, late, skipping, fired, published,
                   crashes, histVars>>

(***************************************************************************)
(* The environment: time passes, and a server dies with its call chains.   *)
(***************************************************************************)
BecomeLate ==
    /\ "misfire" \in Events
    /\ \E j \in Existing \ late : late' = late \cup {j}
    /\ UNCHANGED <<defVars, jobStatus, built, skipping, fired, published, pc, frame, crashes, histVars>>

Crash(h) ==
    /\ pc[h] # "idle"
    /\ crashes < MaxCrashes
    /\ crashes' = crashes + 1
    /\ Go(h, "idle", EmptyFrame)
    /\ UNCHANGED <<defVars, jobStatus, built, late, skipping, fired, published, histVars>>

-----------------------------------------------------------------------------
Init ==
    /\ defStatus \in IF "pause" \in Events THEN JobDefStatus ELSE {RUNNING}
    /\ launchingJobs = FALSE
    /\ maxInstances \in Limits
    /\ jobStatus = [j \in Job |-> NULL]
    /\ built = {} /\ late = {} /\ skipping = {} /\ fired = 0 /\ published = {}
    /\ pc = [h \in Handler |-> "idle"]
    /\ frame = [h \in Handler |-> EmptyFrame]
    /\ crashes = 0
    /\ launched = {} /\ inst = {}

\* Requests of clients and agents, which may come or not.
Request(h) ==
    \/ CreateJob(h) \/ ReportOutcome(h) \/ InterruptJob(h) \/ RestartJob(h)
    \/ CancelJob(h) \/ UnpauseJobDef(h) \/ SetMaxInstances(h)

\* The steps of a chain under way, which the event loop and the database take.
Step(h) ==
    \/ CreateTasks(h) \/ CreateSucceeds(h) \/ CreateFails(h)
    \/ ReadJob(h) \/ Decide(h) \/ WriteStatus(h) \/ CheckFailedJobs(h) \/ ResumeJobDef(h)
    \/ TakeLock(h) \/ LockTaken(h) \/ QueryReadyJobs(h) \/ CountRunningJobs(h)
    \/ StartJob(h) \/ StartThrows(h) \/ TasksThrow(h) \/ LaunchThrows(h)
    \/ Release(h) \/ ReleaseFails(h)
    \/ BeginTasks(h) \/ TasksPublished(h) \/ NothingPublished(h) \/ LaunchAfterNothing(h)
    \/ RereadJob(h) \/ PauseOnFailure(h)

Next ==
    \/ \E h \in Handler : Request(h) \/ Step(h) \/ RunLaunch(h) \/ WriteSkipped(h) \/ Crash(h)
    \/ PauseJobDef
    \/ BecomeLate

\* Node runs every continuation and MongoDB answers every call.
Fairness ==
    /\ \A h \in Handler : WF_vars(Step(h))
    /\ WF_vars(\E h \in Handler : RunLaunch(h))
    /\ WF_vars(\E h \in Handler : WriteSkipped(h))

Spec == Init /\ [][Next]_vars
FairSpec == Spec /\ Fairness

-----------------------------------------------------------------------------
(***************************************************************************)
(* Properties                                                              *)
(***************************************************************************)
\* Every document field and every local has a value the code can give it.
TypeOK ==
    /\ defStatus \in JobDefStatus
    /\ launchingJobs \in BOOLEAN
    /\ maxInstances \in Limits
    /\ jobStatus \in [Job -> JobStatus \cup {NULL}]
    /\ built \subseteq Job /\ late \subseteq Job
    /\ skipping \subseteq Job /\ fired \in 0..MaxUnawaited /\ published \subseteq Job
    /\ pc \in [Handler -> Steps]
    /\ frame \in [Handler -> Frame]
    /\ crashes \in 0..MaxCrashes
    /\ launched \subseteq Job /\ inst \subseteq launched

\* The lock of LaunchReadyJobs works although it is a plain database field taken
\* and released by separate updates: while a launcher is between the two, the field
\* is true and no other launcher is there.  It also makes the launcher's own nested
\* calls of LaunchReadyJobs return at once.
LaunchExclusion ==
    /\ \A h \in Handler : frame[h].launching => launchingJobs
    /\ \A h, i \in Handler : frame[h].launching /\ frame[i].launching => h = i

\* "Can't start more than maxInstances jobs": a launcher counts the running jobs once
\* and then starts several with awaits in between, while jobs end, are interrupted,
\* cancelled and restarted.  A start never brings the jobs that launchers have put in
\* RUNNING, and that have not left it, above the limit the launcher read.
InstancesWithinLimit ==
    [][\A h \in Handler :
          StartJob(h) /\ inst' # inst /\ frame[h].limit # 0
             => Cardinality(inst') <= frame[h].limit]_vars

\* A launcher that has the lock gives it back, whichever of its queries, of the updates
\* that start jobs and of the steps that launch their tasks throw, and whatever its
\* nested calls of updateJob and LaunchReadyJobs do.  Only a server that dies with a
\* call chain, or an error of the release update itself, which the finally block logs
\* and forgets, may leave it taken.
LockReleased == launchingJobs ~> (~launchingJobs \/ crashes > 0)
-----------------------------------------------------------------------------
(***************************************************************************)
(* What the repository says of the launcher and the code does not keep     *)
(* (README, "Other disagreements").                                        *)
(***************************************************************************)
Quiet == (\A h \in Handler : pc[h] = "idle") /\ skipping = {} /\ fired = 0

HasRoom == maxInstances = 0 \/ Cardinality(WithStatus({RUNNING})) < maxInstances

\* JobService.ts:643 "Run up to maxInstances jobs ... remaining jobs will stay in not
\* started status": a job does not stay NOT_STARTED for ever while its definition is
\* running, has room and no launcher works.
ReadyJobLaunched ==
    \A j \in Job :
        (jobStatus[j] = NOT_STARTED /\ j \in built /\ defStatus = RUNNING /\ HasRoom)
            ~> ~(jobStatus[j] = NOT_STARTED /\ j \in built /\ defStatus = RUNNING /\ HasRoom)

\* JobService.ts:563 "Get jobs created but not started": a launcher starts only jobs
\* whose creation is over, so that it sees all of their tasks.
OnlyCreatedJobsLaunched == launched \subseteq built

\* JobService.ts:557 "Don't launch any jobs if the JobDef is paused".
PausedDefinitionLaunchesNothing ==
    [][inst' \ inst # {} => defStatus # PAUSED]_vars

\* JobService.ts:474 "When an interrupted/failed job is running, succeded, canceled or
\* skipped (and there are no other interrupted/failed jobs), resume the job definition":
\* once the one failed job of a paused definition has been restarted, the definition is
\* not found paused at rest.
RestartResumes ==
    \A j \in Job :
        [](Quiet /\ defStatus = PAUSED /\ WithStatus({INTERRUPTED, FAILED}) = {j}
             => [](Quiet /\ jobStatus[j] = RUNNING /\ WithStatus({INTERRUPTED, FAILED}) = {}
                     => defStatus = RUNNING))

\* Test42.ts:22 "Pause on failed job test - cancel job to resume": at rest, a definition
\* that no user paused is paused only while it has an unresolved job.
PausedOnlyWhileFailed ==
    Quiet /\ defStatus = PAUSED => WithStatus({INTERRUPTED, CANCELING, FAILED}) # {}

\* JobService.ts:608 "If coalesce, skip all ready jobs except the most recent": a job
\* that is skipped is one that was not run.
SkippedNeverRan == \A j \in Job : jobStatus[j] = SKIPPED => j \notin launched

\* JobDesigner.vue:1193 "Pause on Failed Job": the failure of a job keeps the next ones from starting until it is resolved.
FailureHoldsNextJob ==
    [][PauseOnFailedJob /\ inst' \ inst # {} => WithStatus({FAILED}) = {}]_vars
=============================================================================
