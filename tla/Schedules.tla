----------------------------- MODULE Schedules -----------------------------
(***************************************************************************)
(* The schedules of ONE job definition: the Schedule documents of the API  *)
(* server, the queue of schedule updates, and the jobs of the scheduler    *)
(* process (workers/JobScheduler.py) that launch the definition in time.   *)
(*                                                                         *)
(* The scheduler's job store and the queue survive a restart.  What a      *)
(* timetable says is left out but for its kind: it recurs (cron, interval),*)
(* it is for one date, or it cannot be read at all.                        *)
(***************************************************************************)
EXTENDS Integers, Sequences, FiniteSets

CONSTANTS
    Schedule,     \* bound: schedule documents that may ever exist, positive numbers
    Recurring,    \* timetables of a cron or interval trigger
    Once,         \* timetables of a date trigger
    Unreadable,   \* cron timetables that apscheduler refuses
    Handler,      \* bound: requests the server works on at the same time
    MaxRequests,  \* bound: requests made by users
    MaxQueue,     \* bound: schedules fire while the queue is shorter than this
    MaxCrashes    \* bound: restarts of the server (a request is dropped) or the scheduler

NoPlan == "none"
KEEP == "keep"
Plan == Recurring \cup Once \cup Unreadable
Kind(plan) == IF plan \in Once THEN "date" ELSE "cron"

ASSUME ConstantsAssumption ==
    /\ Schedule \subseteq Nat \ {0} /\ IsFiniteSet(Schedule)
    /\ NoPlan \notin Plan /\ KEEP \notin Plan
    /\ Recurring \cap Once = {} /\ Unreadable \cap (Recurring \cup Once) = {}
    /\ MaxRequests \in Nat /\ MaxQueue \in Nat \ {0} /\ MaxCrashes \in Nat

VARIABLES
    doc,          \* the Schedule documents: timetable and isActive
    defExists,    \* the JobDef document is there
    queue,        \* rmqScheduleUpdatesQueue; its head stays until it is acknowledged
    job,          \* the jobs of the scheduler: trigger, and whether next_run_time is set
    pc, frame,    \* per handler of the server
    consumer,     \* the thread that takes schedule updates
    runner,       \* per schedule: the executor thread that runs on_launch_job
    created,      \* schedules that have existed
    requests, crashes,
    disturbed     \* history: "overlap", something began before all else had come to
                  \* rest; "crash"

server == <<pc, frame>>
history == <<created, requests, crashes, disturbed>>
vars == <<doc, defExists, queue, job, server, consumer, runner, history>>

Gone == [plan |-> NoPlan, active |-> FALSE]

\* A message; a RemoveJob carries the schedule's id and nothing else.
Message == [action : {"UpdateJob"}, id : Schedule, plan : Plan, active : BOOLEAN]
           \cup [action : {"RemoveJob"}, id : Schedule, plan : {NoPlan}, active : {FALSE}]
RemoveJob(s) == [action |-> "RemoveJob", id |-> s, plan |-> NoPlan, active |-> FALSE]
UpdateJob(s, d) == [action |-> "UpdateJob", id |-> s, plan |-> d.plan, active |-> d.active]

\* The locals of a request: what it does, to which schedule, with which data, what is
\* left to do (the schedules of a definition to be deleted), the message to publish.
EmptyFrame == [op |-> "none", id |-> 0, plan |-> KEEP, active |-> FALSE, ids |-> {}, message |-> {}]

Exists(s) == doc[s].plan # NoPlan

Go(h, next, f) ==
    /\ pc' = [pc EXCEPT ![h] = next]
    /\ frame' = [frame EXCEPT ![h] = IF next = "idle" THEN EmptyFrame ELSE f]

AtRest ==
    /\ \A h \in Handler : pc[h] = "idle"
    /\ queue = <<>> /\ consumer.pc = "idle"
    /\ \A s \in Schedule : runner[s] = "idle"

Began == IF AtRest THEN disturbed ELSE disturbed \cup {"overlap"}

-----------------------------------------------------------------------------
(***************************************************************************)
(* The API server                                                          *)
(***************************************************************************)
\* Ids are given to new schedules in order.
Fresh(s) == \A r \in Schedule : r < s => r \in created

\* Requests: POST, PUT (all of a schedule, or only isActive) and DELETE of a schedule,
\* DELETE of the definition.
Request(h) ==
    /\ pc[h] = "idle" /\ requests < MaxRequests
    /\ \/ \E s \in Schedule \ created, plan \in Plan, active \in BOOLEAN :
            /\ Fresh(s)
            /\ Go(h, "write", [EmptyFrame EXCEPT !.op = "create", !.id = s, !.plan = plan, !.active = active])
            /\ created' = created \cup {s}
       \/ \E s \in created, plan \in Plan \cup {KEEP}, active \in BOOLEAN :
            /\ Exists(s)
            /\ Go(h, "write", [EmptyFrame EXCEPT !.op = "update", !.id = s, !.plan = plan, !.active = active])
            /\ UNCHANGED created
       \/ \E s \in created :
            /\ Exists(s)
            /\ Go(h, "write", [EmptyFrame EXCEPT !.op = "delete", !.id = s])
            /\ UNCHANGED created
       \/ /\ defExists /\ Go(h, "list", [EmptyFrame EXCEPT !.op = "deletedef"])
          /\ UNCHANGED created
    /\ requests' = requests + 1 /\ disturbed' = Began
    /\ UNCHANGED <<doc, defExists, queue, job, consumer, runner, crashes>>

\* Mutant: a request without a timetable clears it.
Replaced(d, plan, active) == [plan |-> plan, active |-> active]

\* $set of the fields the request has.
Merged(d, plan, active) == [plan |-> IF plan = KEEP THEN d.plan ELSE plan, active |-> active]

\* The database call of createSchedule, updateSchedule or deleteSchedule.
Write(h) ==
    LET f == frame[h]
        saved == IF f.op = "update" THEN Merged(doc[f.id], f.plan, f.active)
                 ELSE [plan |-> f.plan, active |-> f.active]
    IN  /\ pc[h] = "write"
        /\ \/ /\ f.op = "update" /\ ~Exists(f.id)      \* MissingObjectError
              /\ Go(h, "idle", f) /\ UNCHANGED doc
           \/ /\ f.op = "create" \/ (f.op = "update" /\ Exists(f.id))
              /\ doc' = [doc EXCEPT ![f.id] = saved]
              /\ Go(h, "publish", [f EXCEPT !.message = {UpdateJob(f.id, saved)}])
           \/ /\ f.op \in {"delete", "deletedef"}
              /\ doc' = [doc EXCEPT ![f.id] = Gone]
              /\ Go(h, "publish", [f EXCEPT !.message = {RemoveJob(f.id)}])
        /\ UNCHANGED <<defExists, queue, job, consumer, runner, history>>

\* publishScheduleUpdate.  deleteJobDef goes on with the next schedule.
Publish(h) ==
    LET f == frame[h] IN
    /\ pc[h] = "publish"
    /\ \E m \in f.message : queue' = Append(queue, m)
    /\ Go(h, IF f.op = "deletedef" THEN "next" ELSE "idle", f)
    /\ UNCHANGED <<doc, defExists, job, consumer, runner, history>>

\* deleteJobDef: the schedules are listed once and deleted one by one, then the
\* definition goes.
ListSchedules(h) ==
    /\ pc[h] = "list"
    /\ Go(h, "next", [frame[h] EXCEPT !.ids = {s \in Schedule : Exists(s)}])
    /\ UNCHANGED <<doc, defExists, queue, job, consumer, runner, history>>

NextSchedule(h) ==
    LET f == frame[h] IN
    /\ pc[h] = "next"
    /\ \/ /\ f.ids = {} /\ defExists' = FALSE /\ Go(h, "idle", f)
       \/ \E s \in f.ids : /\ Go(h, "write", [f EXCEPT !.id = s, !.ids = @ \ {s}])
                           /\ UNCHANGED defExists
    /\ UNCHANGED <<doc, queue, job, consumer, runner, history>>

\* The server stops: what is not written or published never will be.
Drop(h) ==
    /\ pc[h] # "idle" /\ crashes < MaxCrashes
    /\ Go(h, "idle", EmptyFrame)
    /\ crashes' = crashes + 1 /\ disturbed' = disturbed \cup {"crash"}
    /\ UNCHANGED <<doc, defExists, queue, job, consumer, runner, created, requests>>

Handle(h) == Write(h) \/ Publish(h) \/ ListSchedules(h) \/ NextSchedule(h)

-----------------------------------------------------------------------------
(***************************************************************************)
(* The scheduler's consumer of updates (on_message)                        *)
(***************************************************************************)
NoJob == [plan |-> NoPlan, runs |-> FALSE]

\* Mutant: a paused job that is made active again has not changed.
ByTimetable(old, m) == Kind(old.plan) # Kind(m.plan) \/ Kind(old.plan) = "cron"

\* schedule_changed: of a date trigger a new date is never noticed (the message has
\* "RunDate", "run_date" is looked for); a cron or interval trigger always differs.
ScheduleChanged(old, m) ==
    \/ Kind(old.plan) # Kind(m.plan)
    \/ ~old.runs /\ m.active
    \/ Kind(old.plan) = "cron"

\* What add_job makes of an update: a date trigger runs even if it is not active.
Added(m) == [plan |-> m.plan, runs |-> m.active \/ m.plan \in Once]

\* What reschedule_job and modify_job make of the job.
Modified(old, m) ==
    IF ~m.active THEN [old EXCEPT !.runs = FALSE]
    ELSE IF ScheduleChanged(old, m) THEN [plan |-> m.plan, runs |-> TRUE]
    ELSE old

\* get_job.
Take ==
    LET m == Head(queue) IN
    /\ consumer.pc = "idle" /\ queue # <<>>
    /\ consumer' = [pc |-> "apply", message |-> {m}, old |-> job[m.id]]
    /\ UNCHANGED <<doc, defExists, queue, job, server, runner, history>>

\* The calls that change the job.  They raise an exception if the timetable cannot be
\* read or the job found before is gone meanwhile.  One raised, the message is
\* acknowledged at once.
Apply ==
    \E m \in consumer.message :
        LET old == consumer.old
            found == old # NoJob
            trigger == m.action = "UpdateJob" /\ (found => m.active /\ ScheduleChanged(old, m))
            raises == (trigger /\ m.plan \in Unreadable) \/ (found /\ job[m.id] = NoJob)
        IN  /\ consumer.pc = "apply"
            /\ \/ /\ raises
                  /\ queue' = Tail(queue) /\ consumer' = [consumer EXCEPT !.pc = "failed"]
                  /\ UNCHANGED job
               \/ /\ ~raises
                  /\ job' = [job EXCEPT ![m.id] =
                        IF m.action = "RemoveJob" THEN NoJob
                        ELSE IF found THEN Modified(@, m) ELSE Added(m)]
                  /\ consumer' = [consumer EXCEPT !.pc = "report"]
                  /\ UNCHANGED queue
            /\ UNCHANGED <<doc, defExists, server, runner, history>>

Rested == [pc |-> "idle", message |-> {}, old |-> NoJob]

\* PUT schedule/fromscheduler with the next run date (left out), then the message is
\* acknowledged.
Acknowledge ==
    /\ consumer.pc = "report"
    /\ queue' = Tail(queue) /\ consumer' = Rested
    /\ UNCHANGED <<doc, defExists, job, server, runner, history>>

\* PUT schedule/fromscheduler with the error: the schedule is no longer active.
ReportError ==
    \E m \in consumer.message :
        /\ consumer.pc = "failed"
        /\ doc' = IF m.action = "UpdateJob" /\ Exists(m.id) THEN [doc EXCEPT ![m.id].active = FALSE] ELSE doc
        /\ consumer' = [consumer EXCEPT !.pc = "pause"]
        /\ UNCHANGED <<defExists, queue, job, server, runner, history>>

\* pause_job raises JobLookupError if there is no such job; nothing catches it, and
\* the thread ends.
PauseJob ==
    \E m \in consumer.message :
        /\ consumer.pc = "pause"
        /\ \/ /\ job[m.id] # NoJob
              /\ job' = [job EXCEPT ![m.id].runs = FALSE] /\ consumer' = Rested
           \/ /\ job[m.id] = NoJob
              /\ consumer' = [Rested EXCEPT !.pc = "dead"] /\ UNCHANGED job
        /\ UNCHANGED <<doc, defExists, queue, server, runner, history>>

Consume == Take \/ Apply \/ Acknowledge \/ ReportError \/ PauseJob

-----------------------------------------------------------------------------
(***************************************************************************)
(* Jobs that fire (on_launch_job)                                          *)
(***************************************************************************)
\* A job is due.  A date trigger has no next run: its job is removed.
Fire(s) ==
    /\ runner[s] = "idle" /\ job[s].runs /\ Len(queue) < MaxQueue
    /\ runner' = [runner EXCEPT ![s] = "launch"]
    /\ job' = IF job[s].plan \in Once THEN [job EXCEPT ![s] = NoJob] ELSE job
    /\ disturbed' = Began
    /\ UNCHANGED <<doc, defExists, queue, server, consumer, created, requests, crashes>>

\* Mutant: a definition that is gone is taken for any other failure.
AnyFailure(exists, capped) == IF capped THEN "refused" ELSE "look"

\* Only a definition that is not found deletes the schedule; after any other failure, such
\* as a refusal, the runner goes on as after a success.
AfterLaunch(exists, capped) ==
    IF capped THEN "refused" ELSE IF exists THEN "look" ELSE "delete"

\* POST job.  A team that has run all its free scripts is refused before the definition is
\* looked up; a definition that is gone is answered with 404.  Teams reach the limit and
\* leave the free tier as they like: what the check finds may differ each time.
Launch(s) ==
    /\ runner[s] = "launch"
    /\ \E capped \in BOOLEAN : runner' = [runner EXCEPT ![s] = AfterLaunch(defExists, capped)]
    /\ UNCHANGED <<doc, defExists, queue, job, server, consumer, history>>

\* get_job: if it is there, the dates of its document are updated (left out).
LookAgain(s) ==
    /\ runner[s] \in {"look", "refused"}
    /\ runner' = [runner EXCEPT ![s] = IF job[s] # NoJob THEN "idle" ELSE "delete"]
    /\ UNCHANGED <<doc, defExists, queue, job, server, consumer, history>>

\* DELETE schedule, in the two steps of deleteSchedule.
DeleteSchedule(s) ==
    /\ runner[s] = "delete"
    /\ doc' = [doc EXCEPT ![s] = Gone]
    /\ runner' = [runner EXCEPT ![s] = "publish"]
    /\ UNCHANGED <<defExists, queue, job, server, consumer, history>>

PublishRemoval(s) ==
    /\ runner[s] = "publish"
    /\ queue' = Append(queue, RemoveJob(s))
    /\ runner' = [runner EXCEPT ![s] = "idle"]
    /\ UNCHANGED <<doc, defExists, job, server, consumer, history>>

Run(s) == Fire(s) \/ Launch(s) \/ LookAgain(s) \/ DeleteSchedule(s) \/ PublishRemoval(s)

\* The scheduler is restarted: its threads are gone, the message that was not
\* acknowledged is delivered again.
Restart ==
    /\ crashes < MaxCrashes
    /\ consumer' = Rested /\ runner' = [s \in Schedule |-> "idle"]
    /\ crashes' = crashes + 1 /\ disturbed' = disturbed \cup {"crash"}
    /\ UNCHANGED <<doc, defExists, queue, job, server, created, requests>>

-----------------------------------------------------------------------------
\* The definition has no schedule, or one that the scheduler has heard of.
Init ==
    /\ \/ /\ doc = [s \in Schedule |-> Gone] /\ job = [s \in Schedule |-> NoJob] /\ created = {}
       \/ \E first \in Schedule, plan \in Recurring \cup Once, active \in BOOLEAN :
            /\ active \/ plan \in Recurring
            /\ \A s \in Schedule : first <= s
            /\ doc = [s \in Schedule |-> IF s = first THEN [plan |-> plan, active |-> active] ELSE Gone]
            /\ job = [s \in Schedule |-> IF s = first THEN [plan |-> plan, runs |-> active] ELSE NoJob]
            /\ created = {first}
    /\ defExists = TRUE /\ queue = <<>>
    /\ pc = [h \in Handler |-> "idle"] /\ frame = [h \in Handler |-> EmptyFrame]
    /\ consumer = Rested /\ runner = [s \in Schedule |-> "idle"]
    /\ requests = 0 /\ crashes = 0 /\ disturbed = {}

Next ==
    \/ \E h \in Handler : Request(h) \/ Handle(h) \/ Drop(h)
    \/ Consume
    \/ \E s \in Schedule : Run(s)
    \/ Restart

\* Requests under way, the threads of the scheduler and its clock go on; users,
\* restarts and crashes owe nothing.
Fairness ==
    /\ \A h \in Handler : WF_vars(Handle(h))
    /\ WF_vars(Consume)
    /\ \A s \in Schedule : WF_vars(Run(s))

Spec == Init /\ [][Next]_vars /\ Fairness

-----------------------------------------------------------------------------
(***************************************************************************)
(* Properties                                                              *)
(***************************************************************************)
\* Documents, messages and the scheduler's jobs are what the code can make them: a merged
\* update keeps the timetable, and the job store has no job apscheduler would refuse.
TypeOK ==
    /\ doc \in [Schedule -> [plan : Plan \cup {NoPlan}, active : BOOLEAN]]
    /\ job \in [Schedule -> [plan : Recurring \cup Once \cup {NoPlan}, runs : BOOLEAN]]
    /\ defExists \in BOOLEAN /\ queue \in Seq(Message)
    /\ pc \in [Handler -> {"idle", "write", "publish", "list", "next"}]
    /\ \A h \in Handler : frame[h].message \subseteq Message /\ frame[h].ids \subseteq Schedule
    /\ consumer.pc \in {"idle", "apply", "report", "failed", "pause", "dead"}
    /\ consumer.message \subseteq Message
    /\ runner \in [Schedule -> {"idle", "launch", "look", "refused", "delete", "publish"}]
    /\ created \subseteq Schedule /\ requests \in 0..MaxRequests /\ crashes \in 0..MaxCrashes
    /\ disturbed \subseteq {"overlap", "crash"}

\* When requests, updates and firings follow one another and none is cut short, the
\* scheduler agrees with the documents at rest: a schedule that is gone or refused does
\* not fire, an active one does, a recurring one by the timetable it now has and only
\* while it is active.
SchedulerAgrees == (AtRest /\ disturbed = {}) => \A s \in Schedule :
    /\ ~Exists(s) => job[s] = NoJob
    /\ doc[s].active => /\ job[s].runs /\ doc[s].plan \notin Unreadable
                        /\ doc[s].plan \in Recurring => job[s].plan = doc[s].plan
    /\ ~doc[s].active /\ doc[s].plan \notin Once => ~job[s].runs

\* Whatever overlapped or was cut short: no schedule of a definition that is gone goes on
\* firing for ever, unless the consumer of updates has died, or the team is at the limit of
\* the free tier each time or again and again.
OrphansStop == \A s \in Schedule :
    <>[](runner[s] # "refused") =>
        ((~defExists /\ job[s].runs) ~> (consumer.pc = "dead" \/ ~job[s].runs))
=============================================================================
