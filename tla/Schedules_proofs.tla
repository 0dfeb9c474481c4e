-------------------------- MODULE Schedules_proofs ---------------------------
(***************************************************************************)
(* Schedules: the invariants, for any schedules, timetables and requests.  *)
(*                                                                         *)
(* TypeInv holds whatever overlaps and crashes.  AgreeInv is about what    *)
(* happens when nothing overlaps: it says who may be at work with whom,    *)
(* that every message on its way still tells what its document says, and   *)
(* that a schedule on which scheduler and document disagree has someone    *)
(* who will mend it: its message, the handler about to send it, or the     *)
(* thread that will delete the document.                                   *)
(***************************************************************************)
EXTENDS Schedules, SequenceTheorems, TLAPS

USE ConstantsAssumption

Job == [plan : Recurring \cup Once \cup {NoPlan}, runs : BOOLEAN]

\* What the locals f of a request satisfy at a point.
FrameOK(at, f) ==
    /\ f \in [op : {"none", "create", "update", "delete", "deletedef"}, id : Schedule \cup {0},
              plan : Plan \cup {KEEP, NoPlan}, active : BOOLEAN, ids : SUBSET Schedule, message : SUBSET Message]
    /\ at = "write" => /\ f.op # "none" /\ f.id \in Schedule
                       /\ f.op = "create" => f.plan \in Plan
                       /\ f.op = "update" => f.plan \in Plan \cup {KEEP}
    /\ at \in {"list", "next"} => f.op = "deletedef"

DocumentsOK ==
    /\ doc \in [Schedule -> [plan : Plan \cup {NoPlan}, active : BOOLEAN]]
    /\ defExists \in BOOLEAN
    /\ created \subseteq Schedule /\ requests \in 0..MaxRequests /\ crashes \in 0..MaxCrashes
    /\ disturbed \subseteq {"overlap", "crash"}

HandlersOK ==
    /\ pc \in [Handler -> {"idle", "write", "publish", "list", "next"}]
    /\ DOMAIN frame = Handler
    /\ \A h \in Handler : FrameOK(pc[h], frame[h])

\* The message an update is applied for is the head of the queue, and the job the consumer
\* has found is the job there is, or it has fired for the last time since.
SchedulerOK ==
    /\ queue \in Seq(Message)
    /\ job \in [Schedule -> Job]
    /\ runner \in [Schedule -> {"idle", "launch", "look", "refused", "delete", "publish"}]
    /\ consumer \in [pc : {"idle", "apply", "report", "failed", "pause", "dead"},
                     message : SUBSET Message, old : Job]
    /\ consumer.pc \in {"apply", "report"} => queue # <<>> /\ consumer.message = {Head(queue)}
    /\ consumer.pc = "apply" => job[Head(queue).id] \in {consumer.old, NoJob}

TypeInv == DocumentsOK /\ HandlersOK /\ SchedulerOK

-----------------------------------------------------------------------------
Agrees(s) ==
    /\ ~Exists(s) => job[s] = NoJob
    /\ doc[s].active => /\ job[s].runs /\ doc[s].plan \notin Unreadable
                        /\ doc[s].plan \in Recurring => job[s].plan = doc[s].plan
    /\ ~doc[s].active /\ doc[s].plan \notin Once => ~job[s].runs

\* What the message m says of its schedule is still so.
Tells(m) ==
    IF m.action = "RemoveJob" THEN doc[m.id] = Gone ELSE doc[m.id] = [plan |-> m.plan, active |-> m.active]

NoRequest == \A h \in Handler : pc[h] = "idle"
NoRunner == \A s \in Schedule : runner[s] = "idle"

\* One is at work, and after it the consumer; only the schedules of a definition are
\* deleted while the consumer is busy with those deleted before.
Alone ==
    /\ \A g, h \in Handler : pc[g] # "idle" /\ pc[h] # "idle" => g = h
    /\ \A r, s \in Schedule : runner[r] # "idle" /\ runner[s] # "idle" => r = s
    /\ NoRequest \/ NoRunner
    /\ NoRunner \/ (queue = <<>> /\ consumer.pc = "idle")
    /\ \A h \in Handler : pc[h] # "idle" /\ frame[h].op # "deletedef" => queue = <<>> /\ consumer.pc = "idle"

Updating(m) == m.action = "UpdateJob" => Len(queue) = 1 /\ NoRequest

MessagesTell == \A i \in DOMAIN queue : Tells(queue[i]) /\ Updating(queue[i])

\* A refused update, at the two steps of its report.
Refused ==
    /\ queue = <<>> /\ NoRequest /\ NoRunner
    /\ \E m \in Message : /\ consumer.message = {m} /\ m.action = "UpdateJob" /\ doc[m.id].plan = m.plan
                          /\ consumer.pc = "pause" => ~doc[m.id].active

ConsumerAgrees ==
    /\ consumer.pc = "apply" => consumer.old = job[Head(queue).id]
    /\ consumer.pc = "report" => Agrees(Head(queue).id)
    /\ consumer.pc \in {"failed", "pause"} => Refused

PublishersAgree ==
    /\ \A h \in Handler : pc[h] = "publish" =>
        /\ frame[h].id \in Schedule
        /\ \A m \in frame[h].message :
              Tells(m) /\ m.id = frame[h].id /\ (frame[h].op = "deletedef" => m.action = "RemoveJob")
    /\ \A s \in Schedule : runner[s] = "publish" => doc[s] = Gone

\* Someone is about to mend what scheduler and document say of s.
Mended(s) ==
    \/ \E i \in DOMAIN queue : queue[i].id = s
    \/ \E h \in Handler : pc[h] = "publish" /\ frame[h].id = s
    \/ runner[s] \in {"launch", "look", "refused"} /\ job[s] = NoJob
    \/ runner[s] \in {"delete", "publish"}
    \/ consumer.pc \in {"failed", "pause"} /\ \E m \in consumer.message : m.id = s

Settled == \A s \in Schedule : Agrees(s) \/ Mended(s)

Undisturbed == disturbed = {} /\ consumer.pc # "dead"

AgreeInv == Undisturbed => Alone /\ MessagesTell /\ ConsumerAgrees /\ PublishersAgree /\ Settled

-----------------------------------------------------------------------------
(***************************************************************************)
(* The types                                                               *)
(***************************************************************************)
LEMMA MessageFacts ==
    ASSUME NEW m \in Message
    PROVE  /\ m.id \in Schedule /\ m.action \in {"UpdateJob", "RemoveJob"} /\ m.active \in BOOLEAN
           /\ m.plan \in Plan \cup {NoPlan}
           /\ m.action = "UpdateJob" => m.plan \in Plan
BY DEF Message

LEMMA Removal ==
    ASSUME NEW s \in Schedule
    PROVE  RemoveJob(s) \in Message /\ RemoveJob(s).id = s /\ RemoveJob(s).action = "RemoveJob"
BY DEF RemoveJob, Message

LEMMA Updates ==
    ASSUME NEW s \in Schedule, NEW d \in [plan : Plan, active : BOOLEAN]
    PROVE  LET m == UpdateJob(s, d)
           IN  m \in Message /\ m.id = s /\ m.action = "UpdateJob" /\ m.plan = d.plan /\ m.active = d.active
BY DEF UpdateJob, Message

LEMMA QueueFacts ==
    ASSUME TypeInv
    PROVE  /\ queue \in Seq(Message) /\ Len(queue) \in Nat /\ DOMAIN queue = 1..Len(queue)
           /\ \A i \in DOMAIN queue : queue[i] \in Message
           /\ queue # <<>> => /\ Head(queue) \in Message /\ Head(queue) = queue[1] /\ Len(queue) > 0
                              /\ Tail(queue) \in Seq(Message) /\ Len(Tail(queue)) = Len(queue) - 1
                              /\ \A i \in 1..Len(Tail(queue)) : Tail(queue)[i] = queue[i + 1]
<1>1. queue \in Seq(Message)
  BY DEF TypeInv, SchedulerOK
<1>2. Len(queue) \in Nat /\ DOMAIN queue = 1..Len(queue)
  BY <1>1, LenProperties
<1>3. \A i \in DOMAIN queue : queue[i] \in Message
  BY <1>1, <1>2, ElementOfSeq
<1>4. ASSUME queue # <<>>
      PROVE  /\ Head(queue) \in Message /\ Head(queue) = queue[1] /\ Len(queue) > 0
             /\ Tail(queue) \in Seq(Message) /\ Len(Tail(queue)) = Len(queue) - 1
             /\ \A i \in 1..Len(Tail(queue)) : Tail(queue)[i] = queue[i + 1]
  <2>1. Len(queue) > 0
    BY <1>1, <1>2, <1>4, EmptySeq
  <2>. QED BY <1>1, <1>2, <1>3, <1>4, <2>1, HeadTailProperties
<1>. QED BY <1>1, <1>2, <1>3, <1>4

LEMMA JobFacts ==
    /\ NoJob \in Job /\ Gone \in [plan : Plan \cup {NoPlan}, active : BOOLEAN]
    /\ \A m \in Message : m.action = "UpdateJob" /\ m.plan \notin Unreadable => Added(m) \in Job
<1>1. NoJob \in Job /\ Gone \in [plan : Plan \cup {NoPlan}, active : BOOLEAN]
  BY DEF NoJob, Job, Gone
<1>2. ASSUME NEW m \in Message, m.action = "UpdateJob", m.plan \notin Unreadable PROVE Added(m) \in Job
  <2>1. m.plan \in Recurring \cup Once
    BY <1>2, MessageFacts DEF Plan
  <2>2. (m.active \/ m.plan \in Once) \in BOOLEAN
    OBVIOUS
  <2>. QED BY <2>1, <2>2 DEF Added, Job
<1>. QED BY <1>1, <1>2

LEMMA GoOK ==
    ASSUME HandlersOK, NEW h \in Handler, NEW next \in {"idle", "write", "publish", "list", "next"},
           NEW f, FrameOK(next, f), Go(h, next, f)
    PROVE  HandlersOK'
<1>1. FrameOK("idle", EmptyFrame)
  BY DEF FrameOK, EmptyFrame
<1>2. FrameOK(next, IF next = "idle" THEN EmptyFrame ELSE f)
  BY <1>1
<1>. QED BY <1>2 DEF HandlersOK, Go

LEMMA Idle == FrameOK("idle", EmptyFrame)
BY DEF FrameOK, EmptyFrame

LEMMA BeganOK == DocumentsOK => Began \subseteq {"overlap", "crash"}
BY DEF DocumentsOK, Began

LEMMA RequestType == ASSUME TypeInv, NEW h \in Handler, Request(h) PROVE TypeInv'
<1>1. DocumentsOK'
  <2>1. requests' \in 0..MaxRequests
    <3>1. requests < MaxRequests /\ requests' = requests + 1
      BY DEF Request
    <3>. QED BY <3>1 DEF TypeInv, DocumentsOK
  <2>2. created' \subseteq Schedule
    BY DEF TypeInv, DocumentsOK, Request
  <2>3. disturbed' \subseteq {"overlap", "crash"}
    BY BeganOK DEF TypeInv, Request
  <2>. QED BY <2>1, <2>2, <2>3 DEF TypeInv, DocumentsOK, Request
<1>2. HandlersOK'
  <2>. DEFINE new(s, plan, active) == [EmptyFrame EXCEPT !.op = "create", !.id = s, !.plan = plan, !.active = active]
              updated(s, plan, active) == [EmptyFrame EXCEPT !.op = "update", !.id = s, !.plan = plan, !.active = active]
              deleted(s) == [EmptyFrame EXCEPT !.op = "delete", !.id = s]
  <2>1. ASSUME NEW s \in Schedule, NEW plan \in Plan \cup {KEEP}, NEW active \in BOOLEAN
        PROVE  /\ plan \in Plan => FrameOK("write", new(s, plan, active))
               /\ FrameOK("write", updated(s, plan, active))
               /\ FrameOK("write", deleted(s))
    BY DEF FrameOK, EmptyFrame
  <2>2. FrameOK("list", [EmptyFrame EXCEPT !.op = "deletedef"])
    BY DEF FrameOK, EmptyFrame
  <2>. HIDE DEF new, updated, deleted
  <2>3. \/ \E s \in Schedule, plan \in Plan, active \in BOOLEAN : Go(h, "write", new(s, plan, active))
        \/ \E s \in Schedule, plan \in Plan \cup {KEEP}, active \in BOOLEAN : Go(h, "write", updated(s, plan, active))
        \/ \E s \in Schedule : Go(h, "write", deleted(s))
        \/ Go(h, "list", [EmptyFrame EXCEPT !.op = "deletedef"])
    BY DEF Request, TypeInv, DocumentsOK, new, updated, deleted
  <2>. QED BY <2>1, <2>2, <2>3, GoOK DEF TypeInv
<1>3. SchedulerOK'
  BY DEF TypeInv, SchedulerOK, Request
<1>. QED BY <1>1, <1>2, <1>3 DEF TypeInv

\* What an update or a request that creates a schedule saves.
Saved(f) ==
    IF f.op = "update" THEN Merged(doc[f.id], f.plan, f.active) ELSE [plan |-> f.plan, active |-> f.active]

LEMMA SavedOK ==
    ASSUME TypeInv, NEW h \in Handler, pc[h] = "write",
           frame[h].op = "create" \/ (frame[h].op = "update" /\ Exists(frame[h].id))
    PROVE  frame[h].id \in Schedule /\ Saved(frame[h]) \in [plan : Plan, active : BOOLEAN]
<1>. DEFINE f == frame[h]
<1>1. FrameOK("write", f)
  BY DEF TypeInv, HandlersOK
<1>2. f.id \in Schedule /\ f.active \in BOOLEAN
  BY <1>1 DEF FrameOK
<1>3. CASE f.op = "create"
  <2>1. f.plan \in Plan
    BY <1>1, <1>3 DEF FrameOK
  <2>. QED BY <1>2, <1>3, <2>1 DEF Saved
<1>4. CASE f.op = "update" /\ Exists(f.id)
  <2>1. f.plan \in Plan \cup {KEEP} /\ doc[f.id].plan \in Plan
    BY <1>1, <1>2, <1>4 DEF FrameOK, Exists, TypeInv, DocumentsOK
  <2>. QED BY <1>2, <1>4, <2>1 DEF Saved, Merged
<1>. QED BY <1>2, <1>3, <1>4

\* The three ways a handler's database call can go.
Missing(h) == frame[h].op = "update" /\ ~ Exists(frame[h].id) /\ Go(h, "idle", frame[h]) /\ doc' = doc
Saves(h) ==
    LET f == frame[h] IN
    /\ f.op = "create" \/ (f.op = "update" /\ Exists(f.id))
    /\ doc' = [doc EXCEPT ![f.id] = Saved(f)]
    /\ Go(h, "publish", [f EXCEPT !.message = {UpdateJob(f.id, Saved(f))}])
Deletes(h) ==
    LET f == frame[h] IN
    /\ f.op \in {"delete", "deletedef"}
    /\ doc' = [doc EXCEPT ![f.id] = Gone]
    /\ Go(h, "publish", [f EXCEPT !.message = {RemoveJob(f.id)}])

LEMMA Writes ==
    ASSUME NEW h, Write(h)
    PROVE  pc[h] = "write" /\ (Missing(h) \/ Saves(h) \/ Deletes(h))
BY DEF Write, Missing, Saves, Deletes, Saved

LEMMA WriteType == ASSUME TypeInv, NEW h \in Handler, Write(h) PROVE TypeInv'
<1>. DEFINE f == frame[h]
<1>1. pc[h] = "write" /\ (Missing(h) \/ Saves(h) \/ Deletes(h))
  BY Writes
<1>2. FrameOK("write", f)
  BY <1>1 DEF TypeInv, HandlersOK
<1>3. f.id \in Schedule
  BY <1>2 DEF FrameOK
<1>4. doc' \in [Schedule -> [plan : Plan \cup {NoPlan}, active : BOOLEAN]] /\ HandlersOK'
  <2>1. CASE Missing(h)
    <3>1. FrameOK("idle", f)
      BY <1>2 DEF FrameOK
    <3>. QED BY <2>1, <3>1, GoOK DEF Missing, TypeInv, DocumentsOK
  <2>2. CASE Saves(h)
    <3>. DEFINE g == [f EXCEPT !.message = {UpdateJob(f.id, Saved(f))}]
    <3>1. Saved(f) \in [plan : Plan, active : BOOLEAN]
      BY <1>1, <2>2, SavedOK DEF Saves
    <3>2. UpdateJob(f.id, Saved(f)) \in Message
      BY <1>3, <3>1, Updates
    <3>3. FrameOK("publish", g)
      BY <1>2, <3>2 DEF FrameOK
    <3>4. Go(h, "publish", g) /\ doc' = [doc EXCEPT ![f.id] = Saved(f)]
      BY <2>2 DEF Saves
    <3>. HIDE DEF g
    <3>5. HandlersOK'
      BY <3>3, <3>4, GoOK DEF TypeInv
    <3>6. Saved(f) \in [plan : Plan \cup {NoPlan}, active : BOOLEAN]
      BY <3>1
    <3>. QED BY <3>4, <3>5, <3>6 DEF TypeInv, DocumentsOK
  <2>3. CASE Deletes(h)
    <3>. DEFINE g == [f EXCEPT !.message = {RemoveJob(f.id)}]
    <3>1. RemoveJob(f.id) \in Message
      BY <1>3, Removal
    <3>2. FrameOK("publish", g)
      BY <1>2, <3>1 DEF FrameOK
    <3>3. Go(h, "publish", g) /\ doc' = [doc EXCEPT ![f.id] = Gone]
      BY <2>3 DEF Deletes
    <3>. HIDE DEF g
    <3>4. HandlersOK'
      BY <3>2, <3>3, GoOK DEF TypeInv
    <3>. QED BY <3>3, <3>4, JobFacts DEF TypeInv, DocumentsOK
  <2>. QED BY <1>1, <2>1, <2>2, <2>3
<1>5. DocumentsOK' /\ SchedulerOK'
  BY <1>4 DEF Write, TypeInv, DocumentsOK, SchedulerOK, history
<1>. QED BY <1>4, <1>5 DEF TypeInv

LEMMA Appended ==
    ASSUME TypeInv, NEW m \in Message, queue' = Append(queue, m)
    PROVE  /\ queue' \in Seq(Message) /\ queue' # <<>> /\ (queue # <<>> => Head(queue') = Head(queue))
           /\ Len(queue') = Len(queue) + 1 /\ DOMAIN queue' = 1..Len(queue) + 1
           /\ queue'[Len(queue) + 1] = m /\ \A i \in DOMAIN queue : queue'[i] = queue[i]
<1>1. /\ queue' \in Seq(Message) /\ Len(queue') = Len(queue) + 1
      /\ queue'[Len(queue) + 1] = m /\ \A i \in DOMAIN queue : queue'[i] = queue[i]
  BY QueueFacts, AppendProperties
<1>2. DOMAIN queue' = 1..Len(queue) + 1
  BY <1>1, LenProperties
<1>3. queue' # <<>>
  BY <1>1, QueueFacts
<1>4. ASSUME queue # <<>> PROVE Head(queue') = Head(queue)
  <2>1. Head(queue') = queue'[1]
    BY <1>1, <1>3, HeadTailProperties
  <2>. QED BY <1>1, <1>4, <2>1, QueueFacts
<1>. QED BY <1>1, <1>2, <1>3, <1>4

LEMMA HandlerType ==
    ASSUME TypeInv, NEW h \in Handler, Publish(h) \/ ListSchedules(h) \/ NextSchedule(h) \/ Drop(h)
    PROVE  TypeInv'
<1>. DEFINE f == frame[h]
<1>1. FrameOK(pc[h], f)
  BY DEF TypeInv, HandlersOK
<1>2. CASE Publish(h)
  <2>1. PICK m \in f.message : queue' = Append(queue, m)
    BY <1>2 DEF Publish
  <2>2. m \in Message
    BY <1>1, <2>1 DEF FrameOK
  <2>3. SchedulerOK'
    BY <1>2, <2>1, <2>2, Appended DEF Publish, TypeInv, SchedulerOK
  <2>4. (f.op = "deletedef" => FrameOK("next", f)) /\ FrameOK("idle", f)
    BY <1>1 DEF FrameOK
  <2>5. (f.op = "deletedef" /\ Go(h, "next", f)) \/ Go(h, "idle", f)
    BY <1>2 DEF Publish
  <2>6. HandlersOK'
    BY <2>4, <2>5, GoOK DEF TypeInv
  <2>. QED BY <1>2, <2>3, <2>6 DEF Publish, TypeInv, DocumentsOK, history
<1>3. CASE ListSchedules(h)
  <2>. DEFINE g == [f EXCEPT !.ids = {s \in Schedule : Exists(s)}]
  <2>1. FrameOK("next", g)
    BY <1>1, <1>3 DEF FrameOK, ListSchedules
  <2>2. Go(h, "next", g)
    BY <1>3 DEF ListSchedules
  <2>. HIDE DEF g
  <2>3. HandlersOK'
    BY <2>1, <2>2, GoOK DEF TypeInv
  <2>. QED BY <1>3, <2>3 DEF ListSchedules, TypeInv, DocumentsOK, SchedulerOK, history
<1>4. CASE NextSchedule(h)
  <2>1. CASE f.ids = {} /\ defExists' = FALSE /\ Go(h, "idle", f)
    <3>1. FrameOK("idle", f)
      BY <1>1 DEF FrameOK
    <3>2. HandlersOK'
      BY <2>1, <3>1, GoOK DEF TypeInv
    <3>. QED BY <1>4, <2>1, <3>2 DEF NextSchedule, TypeInv, DocumentsOK, SchedulerOK, history
  <2>2. ASSUME NEW s \in f.ids, Go(h, "write", [f EXCEPT !.id = s, !.ids = @ \ {s}]), defExists' = defExists
        PROVE  TypeInv'
    <3>. DEFINE g == [f EXCEPT !.id = s, !.ids = @ \ {s}]
    <3>1. s \in Schedule
      BY <1>1 DEF FrameOK
    <3>2. f.op = "deletedef"
      BY <1>1, <1>4 DEF NextSchedule, FrameOK
    <3>3. FrameOK("write", g)
      BY <1>1, <3>1, <3>2 DEF FrameOK
    <3>. HIDE DEF g
    <3>4. HandlersOK'
      BY <2>2, <3>3, GoOK DEF TypeInv, g
    <3>. QED BY <1>4, <2>2, <3>4 DEF NextSchedule, TypeInv, DocumentsOK, SchedulerOK, history
  <2>. QED BY <1>4, <2>1, <2>2 DEF NextSchedule
<1>5. CASE Drop(h)
  <2>1. HandlersOK'
    BY <1>5, Idle, GoOK DEF Drop, TypeInv
  <2>2. DocumentsOK' /\ SchedulerOK'
    BY <1>5 DEF Drop, TypeInv, DocumentsOK, SchedulerOK
  <2>. QED BY <2>1, <2>2 DEF TypeInv
<1>. QED BY <1>2, <1>3, <1>4, <1>5

LEMMA HandlersStay == ASSUME HandlersOK, UNCHANGED server PROVE HandlersOK'
BY DEF HandlersOK, server

LEMMA HeadTaken ==
    ASSUME TypeInv, queue # <<>>, queue' = Tail(queue)
    PROVE  queue' \in Seq(Message)
BY QueueFacts

\* The consumer applies m, for a schedule for which it has found the job old.
Applying(m, old) ==
    /\ m \in consumer.message /\ old = consumer.old /\ consumer.pc = "apply" /\ m = Head(queue)
    /\ m \in Message /\ old \in Job /\ job[m.id] \in {old, NoJob} /\ queue # <<>>

Refuses(m, old) ==
    \/ m.action = "UpdateJob" /\ (old # NoJob => m.active /\ ScheduleChanged(old, m)) /\ m.plan \in Unreadable
    \/ old # NoJob /\ job[m.id] = NoJob

Result(m, old) ==
    IF m.action = "RemoveJob" THEN NoJob
    ELSE IF old # NoJob THEN Modified(job[m.id], m) ELSE Added(m)

LEMMA Applies ==
    ASSUME TypeInv, Apply
    PROVE  \E m, old : /\ Applying(m, old)
                       /\ \/ Refuses(m, old) /\ queue' = Tail(queue) /\ job' = job
                             /\ consumer' = [consumer EXCEPT !.pc = "failed"]
                          \/ ~ Refuses(m, old) /\ queue' = queue /\ job' = [job EXCEPT ![m.id] = Result(m, old)]
                             /\ consumer' = [consumer EXCEPT !.pc = "report"]
<1>1. PICK m \in consumer.message :
        LET old == consumer.old
            found == old # NoJob
            trigger == m.action = "UpdateJob" /\ (found => m.active /\ ScheduleChanged(old, m))
            raises == (trigger /\ m.plan \in Unreadable) \/ (found /\ job[m.id] = NoJob)
        IN  /\ consumer.pc = "apply"
            /\ \/ /\ raises
                  /\ queue' = Tail(queue) /\ consumer' = [consumer EXCEPT !.pc = "failed"]
                  /\ UNCHANGED job
               \/ /\ ~raises
                  /\ job' = [job EXCEPT ![m.id] =
                        IF m.action = "RemoveJob" THEN NoJob
                        ELSE IF found THEN Modified(@, m) ELSE Added(m)]
                  /\ consumer' = [consumer EXCEPT !.pc = "report"]
                  /\ UNCHANGED queue
  BY DEF Apply
<1>. DEFINE old == consumer.old
<1>2. consumer.pc = "apply" /\ queue # <<>> /\ m = Head(queue) /\ old \in Job
  BY <1>1 DEF TypeInv, SchedulerOK
<1>3. m \in Message
  BY <1>2, QueueFacts
<1>4. Applying(m, old)
  BY <1>1, <1>2, <1>3 DEF Applying, TypeInv, SchedulerOK
<1>5. \/ Refuses(m, old) /\ queue' = Tail(queue) /\ job' = job /\ consumer' = [consumer EXCEPT !.pc = "failed"]
      \/ ~ Refuses(m, old) /\ queue' = queue /\ consumer' = [consumer EXCEPT !.pc = "report"]
         /\ job' = [job EXCEPT ![m.id] = IF m.action = "RemoveJob" THEN NoJob
                        ELSE IF old # NoJob THEN Modified(@, m) ELSE Added(m)]
  BY <1>1 DEF Refuses
<1>6. job' = [job EXCEPT ![m.id] = IF m.action = "RemoveJob" THEN NoJob
                        ELSE IF old # NoJob THEN Modified(@, m) ELSE Added(m)]
         => job' = [job EXCEPT ![m.id] = Result(m, old)]
  BY <1>3, MessageFacts DEF Result, TypeInv, SchedulerOK
<1>. QED BY <1>4, <1>5, <1>6

LEMMA ResultOK ==
    ASSUME TypeInv, NEW m, NEW old, Applying(m, old), ~ Refuses(m, old)
    PROVE  Result(m, old) \in Job
<1>1. m \in Message /\ old \in Job /\ job[m.id] \in {old, NoJob}
  BY DEF Applying
<1>2. CASE m.action = "RemoveJob"
  BY <1>2, JobFacts DEF Result
<1>3. CASE m.action # "RemoveJob" /\ old = NoJob
  <2>1. m.action = "UpdateJob" /\ m.plan \notin Unreadable
    BY <1>1, <1>3, MessageFacts DEF Refuses
  <2>. QED BY <1>1, <1>3, <2>1, JobFacts DEF Result
<1>4. CASE m.action # "RemoveJob" /\ old # NoJob
  <2>1. m.action = "UpdateJob" /\ job[m.id] = old /\ Result(m, old) = Modified(old, m)
    BY <1>1, <1>4, MessageFacts DEF Refuses, Result
  <2>2. CASE m.active /\ ScheduleChanged(old, m)
    <3>1. m.plan \in Recurring \cup Once
      BY <1>1, <1>4, <2>1, <2>2, MessageFacts DEF Refuses, Plan
    <3>. QED BY <2>1, <2>2, <3>1 DEF Modified, Job
  <2>3. CASE ~ (m.active /\ ScheduleChanged(old, m))
    BY <1>1, <2>1, <2>3 DEF Modified, Job
  <2>. QED BY <2>2, <2>3
<1>. QED BY <1>2, <1>3, <1>4

LEMMA ConsumeType == ASSUME TypeInv, Consume PROVE TypeInv'
<1>1. HandlersOK'
  BY HandlersStay DEF TypeInv, Consume, Take, Apply, Acknowledge, ReportError, PauseJob
<1>2. CASE Take
  <2>1. queue # <<>> /\ queue' = queue /\ job' = job /\ runner' = runner
        /\ consumer' = [pc |-> "apply", message |-> {Head(queue)}, old |-> job[Head(queue).id]]
    BY <1>2 DEF Take
  <2>2. Head(queue) \in Message /\ Head(queue).id \in Schedule
    BY <2>1, QueueFacts, MessageFacts
  <2>3. job[Head(queue).id] \in Job
    BY <2>2 DEF TypeInv, SchedulerOK
  <2>4. SchedulerOK'
    BY <2>1, <2>2, <2>3 DEF TypeInv, SchedulerOK
  <2>. QED BY <1>1, <1>2, <2>4 DEF TypeInv, DocumentsOK, Take, history
<1>3. CASE Apply
  <2>1. PICK m, old : /\ Applying(m, old)
                      /\ \/ Refuses(m, old) /\ queue' = Tail(queue) /\ job' = job
                            /\ consumer' = [consumer EXCEPT !.pc = "failed"]
                         \/ ~ Refuses(m, old) /\ queue' = queue /\ job' = [job EXCEPT ![m.id] = Result(m, old)]
                            /\ consumer' = [consumer EXCEPT !.pc = "report"]
    BY <1>3, Applies
  <2>2. queue # <<>> /\ consumer.message = {Head(queue)}
    BY <2>1 DEF Applying, TypeInv, SchedulerOK
  <2>3. queue' \in Seq(Message)
    BY <2>1, <2>2, HeadTaken DEF TypeInv, SchedulerOK
  <2>4. job' \in [Schedule -> Job]
    BY <2>1, ResultOK DEF TypeInv, SchedulerOK
  <2>5. runner' = runner
    BY <1>3 DEF Apply
  <2>6. /\ consumer' \in [pc : {"idle", "apply", "report", "failed", "pause", "dead"}, message : SUBSET Message, old : Job]
        /\ consumer'.message = consumer.message
        /\ consumer'.pc = "failed" \/ (consumer'.pc = "report" /\ queue' = queue)
    BY <2>1 DEF TypeInv, SchedulerOK
  <2>7. SchedulerOK'
    BY <2>2, <2>3, <2>4, <2>5, <2>6 DEF TypeInv, SchedulerOK
  <2>. QED BY <1>1, <1>3, <2>7 DEF TypeInv, DocumentsOK, Apply, history
<1>4. CASE Acknowledge
  <2>1. queue' \in Seq(Message)
    BY <1>4, HeadTaken DEF Acknowledge, TypeInv, SchedulerOK
  <2>2. SchedulerOK'
    BY <1>4, <2>1, JobFacts DEF Acknowledge, TypeInv, SchedulerOK, Rested
  <2>. QED BY <1>1, <1>4, <2>2 DEF TypeInv, DocumentsOK, Acknowledge, history
<1>5. CASE ReportError
  <2>1. PICK m \in consumer.message :
          /\ doc' = IF m.action = "UpdateJob" /\ Exists(m.id) THEN [doc EXCEPT ![m.id].active = FALSE] ELSE doc
          /\ consumer.pc = "failed" /\ consumer' = [consumer EXCEPT !.pc = "pause"]
          /\ UNCHANGED <<defExists, queue, job, server, runner, history>>
    BY <1>5 DEF ReportError
  <2>2. doc' \in [Schedule -> [plan : Plan \cup {NoPlan}, active : BOOLEAN]]
    BY <2>1 DEF TypeInv, DocumentsOK
  <2>. QED BY <1>1, <2>1, <2>2 DEF TypeInv, DocumentsOK, SchedulerOK, history
<1>6. CASE PauseJob
  <2>1. PICK m \in consumer.message :
          /\ \/ /\ job[m.id] # NoJob
                /\ job' = [job EXCEPT ![m.id].runs = FALSE] /\ consumer' = Rested
             \/ /\ job[m.id] = NoJob
                /\ consumer' = [Rested EXCEPT !.pc = "dead"] /\ UNCHANGED job
          /\ UNCHANGED <<doc, defExists, queue, server, runner, history>>
    BY <1>6 DEF PauseJob
  <2>2. job' \in [Schedule -> Job]
    <3>1. job \in [Schedule -> Job] /\ m.id \in Schedule
      BY MessageFacts DEF TypeInv, SchedulerOK
    <3>2. [job[m.id] EXCEPT !.runs = FALSE] \in Job
      BY <3>1 DEF Job
    <3>. QED BY <2>1, <3>1, <3>2
  <2>3. consumer' \in [pc : {"idle", "dead"}, message : SUBSET Message, old : Job]
    BY <2>1, JobFacts DEF Rested
  <2>. QED BY <1>1, <2>1, <2>2, <2>3 DEF TypeInv, DocumentsOK, SchedulerOK, history
<1>. QED BY <1>2, <1>3, <1>4, <1>5, <1>6 DEF Consume

LEMMA RunType == ASSUME TypeInv, NEW s \in Schedule, Run(s) PROVE TypeInv'
<1>1. HandlersOK'
  BY HandlersStay DEF TypeInv, Run, Fire, Launch, LookAgain, DeleteSchedule, PublishRemoval
<1>2. CASE Fire(s)
  <2>1. job' \in [Schedule -> Job] /\ \A r \in Schedule : job'[r] \in {job[r], NoJob}
    BY <1>2, JobFacts DEF Fire, TypeInv, SchedulerOK
  <2>2. consumer.pc = "apply" => Head(queue).id \in Schedule
    BY QueueFacts, MessageFacts DEF TypeInv, SchedulerOK
  <2>3. SchedulerOK'
    BY <1>2, <2>1, <2>2 DEF Fire, TypeInv, SchedulerOK
  <2>4. DocumentsOK'
    BY <1>2, BeganOK DEF Fire, TypeInv, DocumentsOK
  <2>. QED BY <1>1, <2>3, <2>4 DEF TypeInv
<1>3. CASE Launch(s)
  BY <1>1, <1>3 DEF Launch, AfterLaunch, TypeInv, SchedulerOK, DocumentsOK, history
<1>4. CASE LookAgain(s)
  BY <1>1, <1>4 DEF LookAgain, TypeInv, SchedulerOK, DocumentsOK, history
<1>5. CASE DeleteSchedule(s)
  BY <1>1, <1>5, JobFacts DEF DeleteSchedule, TypeInv, SchedulerOK, DocumentsOK, history
<1>6. CASE PublishRemoval(s)
  <2>1. RemoveJob(s) \in Message /\ queue' = Append(queue, RemoveJob(s))
    BY <1>6, Removal DEF PublishRemoval
  <2>2. SchedulerOK'
    BY <1>6, <2>1, Appended DEF PublishRemoval, TypeInv, SchedulerOK
  <2>. QED BY <1>1, <1>6, <2>2 DEF PublishRemoval, TypeInv, DocumentsOK, history
<1>. QED BY <1>2, <1>3, <1>4, <1>5, <1>6 DEF Run

LEMMA RestartType == ASSUME TypeInv, Restart PROVE TypeInv'
<1>1. HandlersOK'
  BY HandlersStay DEF TypeInv, Restart
<1>2. crashes < MaxCrashes /\ crashes' = crashes + 1
  BY DEF Restart
<1>3. crashes' \in 0..MaxCrashes
  BY <1>2 DEF TypeInv, DocumentsOK
<1>4. SchedulerOK'
  BY JobFacts DEF Restart, TypeInv, SchedulerOK, Rested
<1>5. DocumentsOK'
  BY <1>3 DEF Restart, TypeInv, DocumentsOK
<1>. QED BY <1>1, <1>4, <1>5 DEF TypeInv

LEMMA InitType == ASSUME Init PROVE TypeInv
<1>1. Rested \in [pc : {"idle"}, message : SUBSET Message, old : Job]
  BY JobFacts DEF Rested
<1>2. /\ doc \in [Schedule -> [plan : Plan \cup {NoPlan}, active : BOOLEAN]]
      /\ job \in [Schedule -> Job] /\ created \subseteq Schedule
  <2>. DEFINE None == doc = [s \in Schedule |-> Gone] /\ job = [s \in Schedule |-> NoJob] /\ created = {}
              One(first, plan, active) ==
                /\ doc = [s \in Schedule |-> IF s = first THEN [plan |-> plan, active |-> active] ELSE Gone]
                /\ job = [s \in Schedule |-> IF s = first THEN [plan |-> plan, runs |-> active] ELSE NoJob]
                /\ created = {first}
              Typed == /\ doc \in [Schedule -> [plan : Plan \cup {NoPlan}, active : BOOLEAN]]
                       /\ job \in [Schedule -> Job] /\ created \subseteq Schedule
  <2>1. ASSUME None PROVE Typed
    BY <2>1, JobFacts
  <2>2. ASSUME NEW first \in Schedule, NEW plan \in Recurring \cup Once, NEW active \in BOOLEAN,
               One(first, plan, active)
        PROVE  Typed
    BY <2>2, JobFacts DEF Plan, Job
  <2>3. None \/ \E first \in Schedule, plan \in Recurring \cup Once, active \in BOOLEAN :
                  One(first, plan, active)
    BY DEF Init
  <2>4. Typed
    <3>. HIDE DEF None, One, Typed
    <3>. QED BY <2>1, <2>2, <2>3
  <2>. QED BY <2>4
<1>3. DocumentsOK
  BY <1>2 DEF Init, DocumentsOK
<1>4. HandlersOK
  BY Idle DEF Init, HandlersOK
<1>5. SchedulerOK
  BY <1>1, <1>2 DEF Init, SchedulerOK
<1>. QED BY <1>3, <1>4, <1>5 DEF TypeInv

LEMMA StepType == TypeInv /\ [Next]_vars => TypeInv'
<1>. SUFFICES ASSUME TypeInv, [Next]_vars PROVE TypeInv'
  OBVIOUS
<1>1. CASE UNCHANGED vars
  BY <1>1, HandlersStay DEF vars, history, server, TypeInv, DocumentsOK, SchedulerOK
<1>. QED BY <1>1, RequestType, WriteType, HandlerType, ConsumeType, RunType, RestartType DEF Next, Handle

-----------------------------------------------------------------------------
(***************************************************************************)
(* The scheduler agrees with the documents                                 *)
(***************************************************************************)
LEMMA Began0 == Began = {} => AtRest /\ disturbed = {}
BY DEF Began

\* All has come to rest, and agrees.
LEMMA Rest ==
    ASSUME TypeInv, AgreeInv, AtRest, disturbed = {}
    PROVE  \A s \in Schedule : Agrees(s)
<1>1. Settled /\ consumer.pc = "idle" /\ queue = <<>> /\ NoRequest /\ NoRunner
  BY DEF AtRest, AgreeInv, Undisturbed, NoRequest, NoRunner
<1>2. DOMAIN queue = {}
  BY <1>1
<1>. QED BY <1>1, <1>2 DEF Settled, Mended, NoRequest, NoRunner

LEMMA SameAgrees ==
    ASSUME NEW s, doc'[s] = doc[s], job'[s] = job[s], Agrees(s)
    PROVE  Agrees(s)'
BY DEF Agrees, Exists

LEMMA RequestAgrees == ASSUME TypeInv, AgreeInv, NEW h \in Handler, Request(h) PROVE AgreeInv'
<1>. SUFFICES ASSUME Undisturbed' PROVE (Alone /\ MessagesTell /\ ConsumerAgrees /\ PublishersAgree /\ Settled)'
  BY DEF AgreeInv
<1>1. /\ disturbed' = Began /\ UNCHANGED <<doc, queue, job, consumer, runner>>
      /\ \A g \in Handler \ {h} : pc'[g] = pc[g]
      /\ pc'[h] \in {"write", "list"}
  BY DEF Request, Go, TypeInv, HandlersOK
<1>2. AtRest /\ disturbed = {}
  BY <1>1, Began0 DEF Undisturbed
<1>3. queue' = <<>> /\ consumer'.pc = "idle" /\ (\A s \in Schedule : runner'[s] = "idle")
      /\ \A g \in Handler \ {h} : pc'[g] = "idle"
  BY <1>1, <1>2 DEF AtRest
<1>4. DOMAIN queue' = {}
  BY <1>3
<1>5. Alone'
  BY <1>3 DEF Alone, NoRunner, NoRequest
<1>6. MessagesTell' /\ ConsumerAgrees'
  BY <1>3, <1>4 DEF MessagesTell, ConsumerAgrees
<1>7. PublishersAgree'
  BY <1>1, <1>3 DEF PublishersAgree
<1>8. Settled'
  BY <1>1, <1>2, Rest, SameAgrees DEF Settled
<1>. QED BY <1>5, <1>6, <1>7, <1>8

\* Of the requests only h is at work, and if the consumer is too, h deletes a definition.
LEMMA Handling ==
    ASSUME TypeInv, AgreeInv, Undisturbed, NEW h \in Handler, pc[h] # "idle"
    PROVE  /\ \A g \in Handler \ {h} : pc[g] = "idle"
           /\ NoRunner /\ ~ NoRequest
           /\ consumer.pc \notin {"failed", "pause"}
           /\ frame[h].op # "deletedef" => queue = <<>> /\ consumer.pc = "idle"
           /\ \A i \in DOMAIN queue : queue[i] \in Message /\ queue[i].action = "RemoveJob" /\ doc[queue[i].id] = Gone
<1>1. Alone /\ MessagesTell /\ ConsumerAgrees
  BY DEF AgreeInv
<1>2. ~ NoRequest /\ NoRunner /\ \A g \in Handler \ {h} : pc[g] = "idle"
  BY <1>1 DEF Alone, NoRequest
<1>3. consumer.pc \notin {"failed", "pause"}
  BY <1>1, <1>2 DEF ConsumerAgrees, Refused
<1>4. ASSUME NEW i \in DOMAIN queue
      PROVE  queue[i] \in Message /\ queue[i].action = "RemoveJob" /\ doc[queue[i].id] = Gone
  <2>1. queue[i] \in Message /\ queue[i].action = "RemoveJob"
    BY <1>1, <1>2, QueueFacts, MessageFacts DEF MessagesTell, Updating
  <2>. QED BY <1>1, <2>1 DEF MessagesTell, Tells
<1>. QED BY <1>1, <1>2, <1>3, <1>4 DEF Alone

LEMMA WriteAgrees == ASSUME TypeInv, AgreeInv, NEW h \in Handler, Write(h) PROVE AgreeInv'
<1>. SUFFICES ASSUME Undisturbed' PROVE (Alone /\ MessagesTell /\ ConsumerAgrees /\ PublishersAgree /\ Settled)'
  BY DEF AgreeInv
<1>. DEFINE f == frame[h]
<1>1. pc[h] = "write" /\ (Missing(h) \/ Saves(h) \/ Deletes(h)) /\ UNCHANGED <<queue, job, consumer, runner, disturbed>>
  BY Writes DEF Write, history
<1>2. Undisturbed /\ Alone /\ MessagesTell /\ ConsumerAgrees /\ PublishersAgree /\ Settled
  BY <1>1 DEF AgreeInv, Undisturbed
<1>3. /\ \A g \in Handler \ {h} : pc[g] = "idle"
      /\ NoRunner /\ consumer.pc \notin {"failed", "pause"}
      /\ f.op # "deletedef" => queue = <<>> /\ consumer.pc = "idle"
      /\ \A i \in DOMAIN queue : queue[i] \in Message /\ queue[i].action = "RemoveJob" /\ doc[queue[i].id] = Gone
  BY <1>1, <1>2, Handling
<1>4. FrameOK("write", f)
  BY <1>1 DEF TypeInv, HandlersOK
<1>5. f.id \in Schedule
  BY <1>4 DEF FrameOK
<1>6. \A s \in Schedule : Agrees(s) \/ \E i \in DOMAIN queue : queue[i].id = s
  BY <1>1, <1>2, <1>3 DEF Settled, Mended, NoRunner
<1>7. /\ \A g \in Handler \ {h} : pc'[g] = "idle"
      /\ pc'[h] \in {"idle", "publish"}
      /\ pc'[h] # "idle" => frame'[h].op = f.op /\ frame'[h].id = f.id
  <2>1. CASE Missing(h)
    BY <1>3, <2>1 DEF Missing, Go, TypeInv, HandlersOK
  <2>2. CASE Saves(h)
    BY <1>3, <1>4, <2>2 DEF Saves, Go, TypeInv, HandlersOK, FrameOK
  <2>3. CASE Deletes(h)
    BY <1>3, <1>4, <2>3 DEF Deletes, Go, TypeInv, HandlersOK, FrameOK
  <2>. QED BY <1>1, <2>1, <2>2, <2>3
<1>8. NoRunner'
  BY <1>1, <1>3 DEF NoRunner
<1>9. Alone'
  BY <1>1, <1>3, <1>7, <1>8 DEF Alone, NoRunner
<1>10. \A s \in Schedule : s # f.id => doc'[s] = doc[s]
  BY <1>1, <1>5 DEF Missing, Saves, Deletes, TypeInv, DocumentsOK
<1>11. \A s \in Schedule : doc[s] = Gone => (doc'[s] = Gone \/ queue = <<>>)
  <2>1. CASE Missing(h)
    BY <2>1 DEF Missing
  <2>2. CASE Saves(h)
    BY <1>3, <2>2 DEF Saves
  <2>3. CASE Deletes(h)
    BY <2>3 DEF Deletes, TypeInv, DocumentsOK
  <2>. QED BY <1>1, <2>1, <2>2, <2>3
<1>12. \A i \in DOMAIN queue : queue[i] \in Message /\ queue[i].action = "RemoveJob" /\ doc'[queue[i].id] = Gone
  <2>. SUFFICES ASSUME NEW i \in DOMAIN queue PROVE doc'[queue[i].id] = Gone
    BY <1>3
  <2>1. queue # <<>> /\ queue[i].id \in Schedule
    BY <1>3, MessageFacts
  <2>. QED BY <1>3, <1>11, <2>1
<1>13. MessagesTell'
  BY <1>1, <1>12 DEF MessagesTell, Tells, Updating
<1>14. ConsumerAgrees'
  <2>1. ASSUME consumer.pc = "report" PROVE Agrees(Head(queue).id)'
    <3>1. queue # <<>> /\ Head(queue) = queue[1] /\ 1 \in DOMAIN queue
      BY <2>1, QueueFacts DEF TypeInv, SchedulerOK
    <3>2. Agrees(Head(queue).id)
      BY <1>2, <2>1 DEF ConsumerAgrees
    <3>3. doc'[Head(queue).id] = doc[Head(queue).id]
      BY <1>3, <1>12, <3>1
    <3>. QED BY <1>1, <3>2, <3>3, SameAgrees
  <2>. QED BY <1>1, <1>2, <1>3, <2>1 DEF ConsumerAgrees
<1>15. PublishersAgree'
  <2>1. \A s \in Schedule : runner'[s] # "publish"
    BY <1>8 DEF NoRunner
  <2>2. ASSUME pc'[h] = "publish"
        PROVE  \A m \in frame'[h].message : Tells(m)' /\ m.id = f.id /\ (f.op = "deletedef" => m.action = "RemoveJob")
    <3>1. CASE Missing(h)
      BY <2>2, <3>1 DEF Missing, Go, TypeInv, HandlersOK
    <3>2. CASE Saves(h)
      <4>. DEFINE m == UpdateJob(f.id, Saved(f))
      <4>1. Saved(f) \in [plan : Plan, active : BOOLEAN] /\ (f.op = "create" \/ f.op = "update")
        BY <1>1, <3>2, SavedOK DEF Saves
      <4>2. m \in Message /\ m.id = f.id /\ m.action = "UpdateJob" /\ m.plan = Saved(f).plan /\ m.active = Saved(f).active
        BY <1>5, <4>1 DEF UpdateJob, Message
      <4>3. frame'[h] = [f EXCEPT !.message = {m}] /\ doc'[f.id] = Saved(f)
        BY <1>5, <3>2 DEF Saves, Go, TypeInv, HandlersOK, DocumentsOK
      <4>. HIDE DEF m
      <4>4. frame'[h].message = {m}
        BY <1>4, <4>3 DEF FrameOK
      <4>5. doc'[f.id] = [plan |-> m.plan, active |-> m.active]
        BY <4>1, <4>2, <4>3
      <4>. QED BY <4>1, <4>2, <4>4, <4>5 DEF Tells
    <3>3. CASE Deletes(h)
      <4>. DEFINE m == RemoveJob(f.id)
      <4>1. m.id = f.id /\ m.action = "RemoveJob"
        BY <1>5, Removal
      <4>2. frame'[h] = [f EXCEPT !.message = {m}] /\ doc'[f.id] = Gone
        BY <1>5, <3>3 DEF Deletes, Go, TypeInv, HandlersOK, DocumentsOK
      <4>. HIDE DEF m
      <4>3. frame'[h].message = {m}
        BY <1>4, <4>2 DEF FrameOK
      <4>. QED BY <4>1, <4>2, <4>3 DEF Tells
    <3>. QED BY <1>1, <3>1, <3>2, <3>3
  <2>. QED BY <1>5, <1>7, <2>1, <2>2 DEF PublishersAgree
<1>16. Settled'
  <2>. SUFFICES ASSUME NEW s \in Schedule PROVE Agrees(s)' \/ Mended(s)'
    BY DEF Settled
  <2>1. CASE \E i \in DOMAIN queue : queue[i].id = s
    BY <1>1, <2>1 DEF Mended
  <2>2. CASE Agrees(s) /\ doc'[s] = doc[s]
    BY <1>1, <2>2, SameAgrees
  <2>3. CASE doc'[s] # doc[s]
    <3>1. s = f.id
      BY <1>10, <2>3
    <3>2. pc'[h] = "publish" /\ frame'[h].id = f.id
      BY <1>1, <1>7, <2>3 DEF Missing, Saves, Deletes, Go, TypeInv, HandlersOK
    <3>. QED BY <3>1, <3>2 DEF Mended
  <2>. QED BY <1>6, <2>1, <2>2, <2>3
<1>. QED BY <1>9, <1>13, <1>14, <1>15, <1>16

\* A message is published while nothing else but the deletion of a definition is going on.
LEMMA PublishStep ==
    ASSUME TypeInv, AgreeInv, Undisturbed, NEW m \in Message, queue' = Append(queue, m), Tells(m),
           UNCHANGED <<doc, job, consumer>>,
           \/ queue = <<>> /\ consumer.pc = "idle" /\ NoRequest'
           \/ consumer.pc \notin {"failed", "pause"} /\ m.action = "RemoveJob"
              /\ \A i \in DOMAIN queue : queue[i].action = "RemoveJob"
    PROVE  MessagesTell' /\ ConsumerAgrees'
<1>1. MessagesTell /\ ConsumerAgrees
  BY DEF AgreeInv
<1>2. /\ queue' # <<>> /\ (queue # <<>> => Head(queue') = Head(queue))
      /\ Len(queue') = Len(queue) + 1 /\ DOMAIN queue' = 1..Len(queue) + 1
      /\ queue'[Len(queue) + 1] = m /\ \A i \in DOMAIN queue : queue'[i] = queue[i]
  BY Appended
<1>3. DOMAIN queue = 1..Len(queue) /\ Len(queue) \in Nat
  BY QueueFacts
<1>4. ASSUME NEW i \in DOMAIN queue' PROVE Tells(queue[i])' /\ Updating(queue[i])'
  <2>1. (i \in DOMAIN queue /\ queue'[i] = queue[i]) \/ (i = Len(queue) + 1 /\ queue'[i] = m)
    BY <1>2, <1>3
  <2>2. Tells(queue[i])'
    BY <1>1, <2>1 DEF MessagesTell, Tells
  <2>3. CASE queue = <<>> /\ consumer.pc = "idle" /\ NoRequest'
    <3>1. Len(queue) = 0
      BY <2>3
    <3>. QED BY <1>2, <2>2, <2>3, <3>1 DEF Updating
  <2>4. CASE m.action = "RemoveJob" /\ \A j \in DOMAIN queue : queue[j].action = "RemoveJob"
    <3>1. queue'[i].action = "RemoveJob"
      BY <2>1, <2>4
    <3>. QED BY <2>2, <3>1 DEF Updating
  <2>. QED BY <2>3, <2>4
<1>5. MessagesTell'
  BY <1>4 DEF MessagesTell
<1>6. ConsumerAgrees'
  <2>1. consumer.pc \in {"apply", "report"} => Head(queue') = Head(queue)
    BY <1>2 DEF TypeInv, SchedulerOK
  <2>. QED BY <1>1, <2>1 DEF ConsumerAgrees, Agrees, Exists
<1>. QED BY <1>5, <1>6

LEMMA PublishAgrees == ASSUME TypeInv, AgreeInv, NEW h \in Handler, Publish(h) PROVE AgreeInv'
<1>. SUFFICES ASSUME Undisturbed' PROVE (Alone /\ MessagesTell /\ ConsumerAgrees /\ PublishersAgree /\ Settled)'
  BY DEF AgreeInv
<1>. DEFINE f == frame[h]
<1>1. pc[h] = "publish" /\ UNCHANGED <<doc, job, consumer, runner, disturbed>>
  BY DEF Publish, history
<1>2. PICK m \in f.message : queue' = Append(queue, m)
  BY DEF Publish
<1>3. Undisturbed /\ Alone /\ MessagesTell /\ ConsumerAgrees /\ PublishersAgree /\ Settled
  BY <1>1 DEF AgreeInv, Undisturbed
<1>4. /\ \A g \in Handler \ {h} : pc[g] = "idle"
      /\ NoRunner /\ consumer.pc \notin {"failed", "pause"}
      /\ f.op # "deletedef" => queue = <<>> /\ consumer.pc = "idle"
      /\ \A i \in DOMAIN queue : queue[i] \in Message /\ queue[i].action = "RemoveJob" /\ doc[queue[i].id] = Gone
  BY <1>1, <1>3, Handling
<1>5. m \in Message
  BY <1>2 DEF TypeInv, HandlersOK, FrameOK
<1>6. f.id \in Schedule /\ Tells(m) /\ m.id = f.id /\ (f.op = "deletedef" => m.action = "RemoveJob")
  BY <1>1, <1>2, <1>3 DEF PublishersAgree
<1>7. /\ \A g \in Handler \ {h} : pc'[g] = "idle"
      /\ f.op # "deletedef" => pc'[h] = "idle"
      /\ f.op = "deletedef" => pc'[h] = "next" /\ frame'[h] = f
  BY <1>4 DEF Publish, Go, TypeInv, HandlersOK
<1>8. NoRunner'
  BY <1>1, <1>4 DEF NoRunner
<1>9. Alone'
  BY <1>7, <1>8 DEF Alone, NoRunner
<1>10. MessagesTell' /\ ConsumerAgrees'
  <2>1. f.op # "deletedef" => NoRequest'
    BY <1>7 DEF NoRequest
  <2>. QED BY <1>1, <1>2, <1>3, <1>4, <1>5, <1>6, <2>1, PublishStep
<1>11. PublishersAgree'
  BY <1>7, <1>8 DEF PublishersAgree, NoRunner
<1>12. Settled'
  <2>. SUFFICES ASSUME NEW s \in Schedule PROVE Agrees(s)' \/ Mended(s)'
    BY DEF Settled
  <2>0. /\ Len(queue) + 1 \in DOMAIN queue' /\ queue'[Len(queue) + 1] = m
        /\ \A i \in DOMAIN queue : i \in DOMAIN queue' /\ queue'[i] = queue[i]
    BY <1>2, <1>5, QueueFacts, Appended
  <2>1. CASE Agrees(s)
    BY <1>1, <2>1, SameAgrees
  <2>2. CASE \E i \in DOMAIN queue : queue[i].id = s
    BY <2>0, <2>2 DEF Mended
  <2>3. CASE s = f.id
    BY <1>6, <2>0, <2>3 DEF Mended
  <2>. QED BY <1>1, <1>3, <1>4, <2>1, <2>2, <2>3 DEF Settled, Mended, NoRunner
<1>. QED BY <1>9, <1>10, <1>11, <1>12

\* The deletion of a definition goes on.
LEMMA ListAgrees ==
    ASSUME TypeInv, AgreeInv, NEW h \in Handler, ListSchedules(h) \/ NextSchedule(h)
    PROVE  AgreeInv'
<1>. SUFFICES ASSUME Undisturbed' PROVE (Alone /\ MessagesTell /\ ConsumerAgrees /\ PublishersAgree /\ Settled)'
  BY DEF AgreeInv
<1>. DEFINE f == frame[h]
<1>1. pc[h] \in {"list", "next"} /\ UNCHANGED <<doc, queue, job, consumer, runner, disturbed>>
  BY DEF ListSchedules, NextSchedule, history
<1>2. Undisturbed /\ Alone /\ MessagesTell /\ ConsumerAgrees /\ PublishersAgree /\ Settled
  BY <1>1 DEF AgreeInv, Undisturbed
<1>3. /\ \A g \in Handler \ {h} : pc[g] = "idle"
      /\ NoRunner /\ consumer.pc \notin {"failed", "pause"}
      /\ \A i \in DOMAIN queue : queue[i] \in Message /\ queue[i].action = "RemoveJob" /\ doc[queue[i].id] = Gone
  BY <1>1, <1>2, Handling
<1>4. FrameOK(pc[h], f)
  BY DEF TypeInv, HandlersOK
<1>5. f.op = "deletedef"
  BY <1>1, <1>4 DEF FrameOK
<1>6. /\ \A g \in Handler \ {h} : pc'[g] = "idle"
      /\ pc'[h] \in {"idle", "next", "write"}
      /\ pc'[h] # "idle" => frame'[h].op = "deletedef"
  <2>. DEFINE list == [f EXCEPT !.ids = {s \in Schedule : Exists(s)}]
              next(s) == [f EXCEPT !.id = s, !.ids = @ \ {s}]
  <2>1. list.op = "deletedef" /\ \A s : next(s).op = "deletedef"
    BY <1>4, <1>5 DEF FrameOK
  <2>. HIDE DEF list, next
  <2>2. \/ Go(h, "next", list) \/ Go(h, "idle", f) \/ \E s : Go(h, "write", next(s))
    BY DEF ListSchedules, NextSchedule, list, next
  <2>. QED BY <1>3, <2>1, <2>2 DEF Go, TypeInv, HandlersOK
<1>7. NoRunner'
  BY <1>1, <1>3 DEF NoRunner
<1>8. Alone' /\ PublishersAgree'
  BY <1>6, <1>7 DEF Alone, NoRunner, PublishersAgree
<1>9. MessagesTell'
  BY <1>1, <1>2, <1>3 DEF MessagesTell, Tells, Updating
<1>10. ConsumerAgrees'
  BY <1>1, <1>2, <1>3 DEF ConsumerAgrees, Agrees, Exists
<1>11. Settled'
  <2>. SUFFICES ASSUME NEW s \in Schedule PROVE Agrees(s)' \/ Mended(s)'
    BY DEF Settled
  <2>1. CASE Agrees(s)
    BY <1>1, <2>1, SameAgrees
  <2>2. CASE \E i \in DOMAIN queue : queue[i].id = s
    BY <1>1, <2>2 DEF Mended
  <2>. QED BY <1>1, <1>2, <1>3, <2>1, <2>2 DEF Settled, Mended, NoRunner
<1>. QED BY <1>8, <1>9, <1>10, <1>11

\* The thread of a job that has fired is at work, alone.
LEMMA Running ==
    ASSUME TypeInv, AgreeInv, Undisturbed, NEW s \in Schedule, runner[s] # "idle"
    PROVE  /\ \A r \in Schedule \ {s} : runner[r] = "idle"
           /\ NoRequest /\ queue = <<>> /\ DOMAIN queue = {} /\ consumer.pc = "idle"
           /\ \A r \in Schedule \ {s} : Agrees(r)
           /\ Agrees(s) \/ (runner[s] \in {"launch", "look", "refused"} /\ job[s] = NoJob) \/ runner[s] \in {"delete", "publish"}
<1>1. Alone /\ Settled
  BY DEF AgreeInv
<1>2. /\ \A r \in Schedule \ {s} : runner[r] = "idle"
      /\ NoRequest /\ queue = <<>> /\ consumer.pc = "idle"
  BY <1>1 DEF Alone, NoRunner
<1>3. DOMAIN queue = {}
  BY <1>2
<1>. QED BY <1>1, <1>2, <1>3 DEF Settled, Mended, NoRequest

\* It takes a step.
LEMMA RunnerStep ==
    ASSUME TypeInv, AgreeInv, Undisturbed, NEW s \in Schedule, runner[s] # "idle",
           UNCHANGED <<queue, job, server, consumer>>,
           NEW next, runner' = [runner EXCEPT ![s] = next],
           \A r \in Schedule \ {s} : doc'[r] = doc[r],
           next = "publish" => doc'[s] = Gone,
           Agrees(s)' \/ (next \in {"launch", "look", "refused"} /\ job[s] = NoJob) \/ next \in {"delete", "publish"}
    PROVE  (Alone /\ MessagesTell /\ ConsumerAgrees /\ PublishersAgree /\ Settled)'
<1>1. /\ \A r \in Schedule \ {s} : runner[r] = "idle"
      /\ NoRequest /\ queue = <<>> /\ DOMAIN queue = {} /\ consumer.pc = "idle"
      /\ \A r \in Schedule \ {s} : Agrees(r)
  BY Running
<1>2. NoRequest' /\ \A h \in Handler : pc'[h] = "idle"
  BY <1>1 DEF NoRequest, server
<1>3. runner'[s] = next /\ \A r \in Schedule \ {s} : runner'[r] = "idle"
  BY <1>1 DEF TypeInv, SchedulerOK
<1>4. Alone'
  BY <1>1, <1>2, <1>3 DEF Alone, NoRunner
<1>5. MessagesTell' /\ ConsumerAgrees'
  BY <1>1 DEF MessagesTell, ConsumerAgrees
<1>6. PublishersAgree'
  BY <1>2, <1>3 DEF PublishersAgree
<1>7. Settled'
  <2>. SUFFICES ASSUME NEW r \in Schedule PROVE Agrees(r)' \/ Mended(r)'
    BY DEF Settled
  <2>1. CASE r = s
    BY <1>3, <2>1 DEF Mended
  <2>2. CASE r # s
    BY <1>1, <2>2, SameAgrees
  <2>. QED BY <2>1, <2>2
<1>. QED BY <1>4, <1>5, <1>6, <1>7

LEMMA FireAgrees == ASSUME TypeInv, AgreeInv, NEW s \in Schedule, Fire(s) PROVE AgreeInv'
<1>. SUFFICES ASSUME Undisturbed' PROVE (Alone /\ MessagesTell /\ ConsumerAgrees /\ PublishersAgree /\ Settled)'
  BY DEF AgreeInv
<1>1. /\ disturbed' = Began /\ UNCHANGED <<doc, queue, server, consumer>>
      /\ runner' = [runner EXCEPT ![s] = "launch"]
      /\ job' = IF job[s].plan \in Once THEN [job EXCEPT ![s] = NoJob] ELSE job
  BY DEF Fire
<1>2. AtRest /\ disturbed = {}
  BY <1>1, Began0 DEF Undisturbed
<1>3. queue' = <<>> /\ DOMAIN queue' = {} /\ consumer'.pc = "idle" /\ (\A h \in Handler : pc'[h] = "idle")
      /\ runner'[s] = "launch" /\ \A r \in Schedule \ {s} : runner'[r] = "idle"
  BY <1>1, <1>2 DEF AtRest, server, TypeInv, SchedulerOK
<1>4. Alone' /\ PublishersAgree' /\ MessagesTell' /\ ConsumerAgrees'
  BY <1>3 DEF Alone, NoRequest, NoRunner, PublishersAgree, MessagesTell, ConsumerAgrees
<1>5. \A r \in Schedule : Agrees(r)
  BY <1>2, Rest
<1>6. Settled'
  <2>. SUFFICES ASSUME NEW r \in Schedule PROVE Agrees(r)' \/ Mended(r)'
    BY DEF Settled
  <2>1. job'[r] = job[r] \/ (r = s /\ job'[s] = NoJob)
    BY <1>1 DEF TypeInv, SchedulerOK
  <2>. QED BY <1>1, <1>3, <1>5, <2>1, SameAgrees DEF Mended
<1>. QED BY <1>4, <1>6

LEMMA RunAgrees == ASSUME TypeInv, AgreeInv, NEW s \in Schedule, Run(s) PROVE AgreeInv'
<1>1. CASE Fire(s)
  BY <1>1, FireAgrees
<1>2. CASE ~ Fire(s)
  <2>. SUFFICES ASSUME Undisturbed' PROVE (Alone /\ MessagesTell /\ ConsumerAgrees /\ PublishersAgree /\ Settled)'
    BY DEF AgreeInv
  <2>1. runner[s] # "idle" /\ Undisturbed
    BY <1>2 DEF Run, Launch, LookAgain, DeleteSchedule, PublishRemoval, Undisturbed, history
  <2>2. /\ \A r \in Schedule \ {s} : runner[r] = "idle"
        /\ NoRequest /\ queue = <<>> /\ DOMAIN queue = {} /\ consumer.pc = "idle"
        /\ \A r \in Schedule \ {s} : Agrees(r)
        /\ Agrees(s) \/ (runner[s] \in {"launch", "look", "refused"} /\ job[s] = NoJob) \/ runner[s] \in {"delete", "publish"}
    BY <2>1, Running
  <2>3. CASE Launch(s)
    <3>1. PICK capped \in BOOLEAN : runner' = [runner EXCEPT ![s] = AfterLaunch(defExists, capped)]
      BY <2>3 DEF Launch
    <3>4. runner[s] = "launch" /\ UNCHANGED <<doc, queue, job, server, consumer>>
      BY <2>3 DEF Launch
    <3>2. AfterLaunch(defExists, capped) \in {"look", "refused", "delete"}
      BY DEF AfterLaunch
    <3>3. Agrees(s) => Agrees(s)'
      BY <3>4, SameAgrees
    <3>. HIDE DEF AfterLaunch
    <3>. QED BY <2>1, <2>2, <3>1, <3>2, <3>3, <3>4, RunnerStep
  <2>4. CASE LookAgain(s)
    <3>. DEFINE next == IF job[s] # NoJob THEN "idle" ELSE "delete"
    <3>1. runner[s] \in {"look", "refused"} /\ runner' = [runner EXCEPT ![s] = next]
          /\ UNCHANGED <<doc, queue, job, server, consumer>>
      BY <2>4 DEF LookAgain
    <3>2. Agrees(s)' \/ next = "delete"
      BY <2>2, <3>1, SameAgrees
    <3>3. next # "publish"
      OBVIOUS
    <3>. HIDE DEF next
    <3>. QED BY <2>1, <3>1, <3>2, <3>3, RunnerStep
  <2>5. CASE DeleteSchedule(s)
    <3>1. /\ doc' = [doc EXCEPT ![s] = Gone] /\ runner' = [runner EXCEPT ![s] = "publish"]
          /\ UNCHANGED <<queue, job, server, consumer>>
      BY <2>5 DEF DeleteSchedule
    <3>2. doc'[s] = Gone /\ \A r \in Schedule \ {s} : doc'[r] = doc[r]
      BY <3>1 DEF TypeInv, DocumentsOK
    <3>. QED BY <2>1, <3>1, <3>2, RunnerStep
  <2>6. CASE PublishRemoval(s)
    <3>. DEFINE m == RemoveJob(s)
    <3>1. /\ runner[s] = "publish" /\ queue' = Append(queue, m) /\ runner' = [runner EXCEPT ![s] = "idle"]
          /\ UNCHANGED <<doc, job, server, consumer>>
      BY <2>6 DEF PublishRemoval
    <3>2. m \in Message /\ m.id = s /\ m.action = "RemoveJob"
      BY Removal
    <3>. HIDE DEF m
    <3>3. Tells(m)
      BY <2>1, <3>1, <3>2 DEF AgreeInv, PublishersAgree, Tells
    <3>4. NoRequest' /\ (\A h \in Handler : pc'[h] = "idle") /\ \A r \in Schedule : runner'[r] = "idle"
      BY <2>2, <3>1 DEF NoRequest, server, TypeInv, SchedulerOK
    <3>5. MessagesTell' /\ ConsumerAgrees'
      BY <2>1, <2>2, <3>1, <3>2, <3>3, <3>4, PublishStep
    <3>6. Alone' /\ PublishersAgree'
      BY <3>4 DEF Alone, NoRequest, NoRunner, PublishersAgree
    <3>7. Settled'
      <4>1. Mended(s)'
        <5>1. Len(queue) + 1 \in DOMAIN queue' /\ queue'[Len(queue) + 1] = m
          BY <3>1, <3>2, QueueFacts, Appended
        <5>. QED BY <3>2, <5>1 DEF Mended
      <4>2. \A r \in Schedule \ {s} : Agrees(r)'
        BY <2>2, <3>1, SameAgrees
      <4>. QED BY <4>1, <4>2 DEF Settled
    <3>. QED BY <3>5, <3>6, <3>7
  <2>. QED BY <1>2, <2>3, <2>4, <2>5, <2>6 DEF Run
<1>. QED BY <1>1, <1>2

\* The consumer is at work: no job has fired, and if an update is on its way, no request
\* is handled either.
LEMMA Consuming ==
    ASSUME TypeInv, AgreeInv, Undisturbed, queue # <<>> \/ consumer.pc # "idle"
    PROVE  /\ NoRunner
           /\ \A h \in Handler : pc[h] # "idle" => frame[h].op = "deletedef"
BY DEF AgreeInv, Alone

\* It takes a step that leaves requests, runners and documents alone.
LEMMA ConsumerStep ==
    ASSUME TypeInv, AgreeInv, Undisturbed, queue # <<>> \/ consumer.pc # "idle",
           UNCHANGED <<server, runner>>, doc' = doc
    PROVE  Alone' /\ PublishersAgree'
<1>1. Alone /\ PublishersAgree /\ NoRunner /\ \A h \in Handler : pc[h] # "idle" => frame[h].op = "deletedef"
  BY Consuming DEF AgreeInv
<1>2. Alone'
  BY <1>1 DEF Alone, NoRunner, NoRequest, server
<1>3. PublishersAgree'
  BY <1>1 DEF PublishersAgree, Tells, server
<1>. QED BY <1>2, <1>3

\* The head of the queue is done with.
LEMMA Shorter ==
    ASSUME TypeInv, AgreeInv, Undisturbed, queue # <<>>, queue' = Tail(queue), doc' = doc, UNCHANGED server
    PROVE  /\ MessagesTell'
           /\ \A i \in DOMAIN queue : i = 1 \/ \E j \in DOMAIN queue' : queue'[j] = queue[i]
<1>1. /\ DOMAIN queue = 1..Len(queue) /\ Len(queue) \in Nat /\ Len(queue) > 0
      /\ queue' \in Seq(Message) /\ Len(queue') = Len(queue) - 1 /\ \A i \in 1..Len(queue') : queue'[i] = queue[i + 1]
  BY QueueFacts
<1>2. DOMAIN queue' = 1..Len(queue')
  BY <1>1, LenProperties
<1>3. \A i \in DOMAIN queue : i = 1 \/ \E j \in DOMAIN queue' : queue'[j] = queue[i]
  <2>. SUFFICES ASSUME NEW i \in DOMAIN queue, i # 1 PROVE \E j \in DOMAIN queue' : queue'[j] = queue[i]
    OBVIOUS
  <2>1. i - 1 \in DOMAIN queue' /\ queue'[i - 1] = queue[i]
    BY <1>1, <1>2
  <2>. QED BY <2>1
<1>4. ASSUME NEW i \in DOMAIN queue' PROVE Tells(queue[i])' /\ Updating(queue[i])'
  <2>1. i + 1 \in DOMAIN queue /\ queue'[i] = queue[i + 1] /\ Len(queue) # 1
    BY <1>1, <1>2
  <2>2. Tells(queue[i + 1]) /\ Updating(queue[i + 1])
    BY <2>1 DEF AgreeInv, MessagesTell
  <2>3. queue[i + 1].action # "UpdateJob"
    BY <2>1, <2>2 DEF Updating
  <2>4. Tells(queue[i])'
    BY <2>1, <2>2 DEF Tells
  <2>. QED BY <2>1, <2>3, <2>4 DEF Updating
<1>. QED BY <1>3, <1>4 DEF MessagesTell

\* Of the job that is found for m its result is what m says.
LEMMA ResultAgrees ==
    ASSUME TypeInv, NEW m, NEW old, Applying(m, old), job[m.id] = old, ~ Refuses(m, old), Tells(m),
           job' = [job EXCEPT ![m.id] = Result(m, old)], doc' = doc
    PROVE  Agrees(m.id)'
<1>1. m \in Message /\ old \in Job /\ m.id \in Schedule /\ m.active \in BOOLEAN
      /\ (m.action = "RemoveJob" \/ (m.action = "UpdateJob" /\ m.plan \in Plan))
  BY MessageFacts DEF Applying
<1>2. job'[m.id] = Result(m, old)
  BY <1>1 DEF TypeInv, SchedulerOK
<1>3. CASE m.action = "RemoveJob"
  <2>1. doc'[m.id] = Gone /\ job'[m.id] = NoJob
    BY <1>2, <1>3 DEF Tells, Result
  <2>. QED BY <2>1 DEF Agrees, Exists, Gone, NoJob
<1>4. CASE m.action = "UpdateJob"
  <2>1. doc'[m.id] = [plan |-> m.plan, active |-> m.active] /\ m.plan # NoPlan
    BY <1>1, <1>4 DEF Tells
  <2>2. doc'[m.id].plan = m.plan /\ doc'[m.id].active = m.active
    BY <2>1
  <2>3. CASE old = NoJob
    <3>1. job'[m.id] = [plan |-> m.plan, runs |-> m.active \/ m.plan \in Once] /\ m.plan \notin Unreadable
      BY <1>2, <1>4, <2>3 DEF Result, Refuses, Added
    <3>2. job'[m.id].plan = m.plan /\ job'[m.id].runs = (m.active \/ m.plan \in Once)
      BY <3>1
    <3>. QED BY <2>1, <2>2, <3>1, <3>2 DEF Agrees, Exists
  <2>4. CASE old # NoJob /\ ~ m.active
    <3>1. job'[m.id] = [old EXCEPT !.runs = FALSE]
      BY <1>2, <1>4, <2>4 DEF Result, Modified
    <3>2. job'[m.id].runs = FALSE
      BY <1>1, <3>1 DEF Job
    <3>. QED BY <2>1, <2>2, <2>4, <3>2 DEF Agrees, Exists
  <2>5. CASE old # NoJob /\ m.active /\ ScheduleChanged(old, m)
    <3>1. job'[m.id] = [plan |-> m.plan, runs |-> TRUE] /\ m.plan \notin Unreadable
      BY <1>2, <1>4, <2>5 DEF Result, Modified, Refuses
    <3>2. job'[m.id].plan = m.plan /\ job'[m.id].runs
      BY <3>1
    <3>. QED BY <2>1, <2>2, <2>5, <3>1, <3>2 DEF Agrees, Exists
  <2>6. CASE old # NoJob /\ m.active /\ ~ ScheduleChanged(old, m)
    <3>1. job'[m.id] = old
      BY <1>2, <1>4, <2>6 DEF Result, Modified
    <3>2. old.runs /\ m.plan \in Once
      BY <1>1, <2>6 DEF ScheduleChanged, Kind, Job
    <3>. QED BY <2>1, <2>2, <2>6, <3>1, <3>2 DEF Agrees, Exists
  <2>. QED BY <1>1, <2>3, <2>4, <2>5, <2>6
<1>. QED BY <1>1, <1>3, <1>4

LEMMA TakeAgrees == ASSUME TypeInv, AgreeInv, Take PROVE AgreeInv'
<1>. SUFFICES ASSUME Undisturbed' PROVE (Alone /\ MessagesTell /\ ConsumerAgrees /\ PublishersAgree /\ Settled)'
  BY DEF AgreeInv
<1>1. /\ queue # <<>> /\ consumer.pc = "idle" /\ UNCHANGED <<doc, queue, job, server, runner>> /\ disturbed' = disturbed
      /\ consumer' = [pc |-> "apply", message |-> {Head(queue)}, old |-> job[Head(queue).id]]
  BY DEF Take, history
<1>2. Undisturbed
  BY <1>1 DEF Undisturbed
<1>3. Alone' /\ PublishersAgree'
  BY <1>1, <1>2, ConsumerStep
<1>4. MessagesTell'
  BY <1>1, <1>2 DEF AgreeInv, MessagesTell, Tells, Updating, NoRequest, server
<1>5. ConsumerAgrees'
  BY <1>1 DEF ConsumerAgrees
<1>6. Settled'
  BY <1>1, <1>2 DEF AgreeInv, Settled, Mended, Agrees, Exists, server
<1>. QED BY <1>3, <1>4, <1>5, <1>6

LEMMA ApplyAgrees == ASSUME TypeInv, AgreeInv, Apply PROVE AgreeInv'
<1>. SUFFICES ASSUME Undisturbed' PROVE (Alone /\ MessagesTell /\ ConsumerAgrees /\ PublishersAgree /\ Settled)'
  BY DEF AgreeInv
<1>1. PICK m, old : /\ Applying(m, old)
                    /\ \/ Refuses(m, old) /\ queue' = Tail(queue) /\ job' = job
                          /\ consumer' = [consumer EXCEPT !.pc = "failed"]
                       \/ ~ Refuses(m, old) /\ queue' = queue /\ job' = [job EXCEPT ![m.id] = Result(m, old)]
                          /\ consumer' = [consumer EXCEPT !.pc = "report"]
  BY Applies
<1>2. doc' = doc /\ UNCHANGED <<server, runner>> /\ disturbed' = disturbed
  BY DEF Apply, history
<1>3. consumer.pc = "apply" /\ m = Head(queue) /\ m \in Message /\ old = consumer.old /\ queue # <<>>
  BY <1>1 DEF Applying
<1>4. Undisturbed /\ MessagesTell /\ ConsumerAgrees /\ Settled /\ Alone
  BY <1>2, <1>3 DEF Undisturbed, AgreeInv
<1>5. Alone' /\ PublishersAgree' /\ NoRunner
  BY <1>2, <1>3, <1>4, ConsumerStep, Consuming
<1>6. job[m.id] = old
  BY <1>3, <1>4 DEF ConsumerAgrees
<1>7. m = queue[1] /\ 1 \in DOMAIN queue /\ m.id \in Schedule /\ m.action \in {"UpdateJob", "RemoveJob"}
  BY <1>3, QueueFacts, MessageFacts
<1>8. Tells(m) /\ Updating(m)
  BY <1>4, <1>7 DEF MessagesTell
<1>9. CASE ~ Refuses(m, old) /\ queue' = queue /\ job' = [job EXCEPT ![m.id] = Result(m, old)]
            /\ consumer' = [consumer EXCEPT !.pc = "report"]
  <2>1. consumer'.pc = "report"
    BY <1>9 DEF TypeInv, SchedulerOK
  <2>2. Agrees(m.id)'
    BY <1>1, <1>2, <1>6, <1>8, <1>9, ResultAgrees
  <2>3. ConsumerAgrees'
    BY <1>3, <1>9, <2>1, <2>2 DEF ConsumerAgrees
  <2>4. MessagesTell'
    BY <1>2, <1>4, <1>9 DEF MessagesTell, Tells, Updating, NoRequest, server
  <2>5. Settled'
    <3>. SUFFICES ASSUME NEW s \in Schedule PROVE Agrees(s)' \/ Mended(s)'
      BY DEF Settled
    <3>1. CASE s = m.id
      BY <2>2, <3>1
    <3>2. CASE s # m.id
      <4>1. job'[s] = job[s]
        BY <1>7, <1>9, <3>2 DEF TypeInv, SchedulerOK
      <4>2. Agrees(s) => Agrees(s)'
        BY <1>2, <4>1, SameAgrees
      <4>3. Mended(s) => Mended(s)'
        BY <1>2, <1>3, <1>5, <1>9 DEF Mended, server, NoRunner
      <4>. QED BY <1>4, <4>2, <4>3 DEF Settled
    <3>. QED BY <3>1, <3>2
  <2>. QED BY <1>5, <2>3, <2>4, <2>5
<1>10. CASE Refuses(m, old) /\ queue' = Tail(queue) /\ job' = job /\ consumer' = [consumer EXCEPT !.pc = "failed"]
  <2>1. m.action = "UpdateJob" /\ m.plan \in Unreadable
    BY <1>6, <1>10 DEF Refuses
  <2>2. Len(queue) = 1 /\ NoRequest
    BY <1>8, <2>1 DEF Updating
  <2>3. queue' = <<>>
    <3>1. queue' \in Seq(Message) /\ Len(queue') = 0
      BY <1>3, <1>10, <2>2, QueueFacts
    <3>. QED BY <3>1, EmptySeq
  <2>4. consumer'.pc = "failed" /\ consumer'.message = {m}
    BY <1>3, <1>10 DEF TypeInv, SchedulerOK
  <2>5. doc'[m.id].plan = m.plan
    BY <1>2, <1>8, <2>1 DEF Tells
  <2>6. NoRequest' /\ NoRunner'
    BY <1>2, <1>5, <2>2 DEF NoRequest, NoRunner, server
  <2>7. ConsumerAgrees'
    BY <1>3, <2>1, <2>3, <2>4, <2>5, <2>6 DEF ConsumerAgrees, Refused
  <2>8. MessagesTell'
    BY <2>3 DEF MessagesTell
  <2>9. Settled'
    <3>. SUFFICES ASSUME NEW s \in Schedule PROVE Agrees(s)' \/ Mended(s)'
      BY DEF Settled
    <3>1. CASE s = m.id
      BY <2>4, <3>1 DEF Mended
    <3>2. CASE s # m.id
      <4>1. \A i \in DOMAIN queue : queue[i] = m
        BY <1>7, <2>2, QueueFacts
      <4>2. Agrees(s)
        BY <1>3, <1>4, <1>5, <2>2, <3>2, <4>1 DEF Settled, Mended, NoRequest, NoRunner
      <4>. QED BY <1>2, <1>10, <4>2, SameAgrees
    <3>. QED BY <3>1, <3>2
  <2>. QED BY <1>5, <2>7, <2>8, <2>9
<1>. QED BY <1>1, <1>9, <1>10

LEMMA AcknowledgeAgrees == ASSUME TypeInv, AgreeInv, Acknowledge PROVE AgreeInv'
<1>. SUFFICES ASSUME Undisturbed' PROVE (Alone /\ MessagesTell /\ ConsumerAgrees /\ PublishersAgree /\ Settled)'
  BY DEF AgreeInv
<1>1. /\ consumer.pc = "report" /\ queue' = Tail(queue) /\ UNCHANGED <<doc, job, server, runner>> /\ disturbed' = disturbed
      /\ consumer' = Rested /\ consumer'.pc = "idle"
  BY DEF Acknowledge, history, Rested
<1>2. Undisturbed /\ queue # <<>> /\ ConsumerAgrees /\ Settled
  BY <1>1 DEF Undisturbed, AgreeInv, TypeInv, SchedulerOK
<1>3. Alone' /\ PublishersAgree' /\ NoRunner
  BY <1>1, <1>2, ConsumerStep, Consuming
<1>4. /\ MessagesTell'
      /\ \A i \in DOMAIN queue : i = 1 \/ \E j \in DOMAIN queue' : queue'[j] = queue[i]
  BY <1>1, <1>2, Shorter
<1>5. ConsumerAgrees'
  BY <1>1 DEF ConsumerAgrees
<1>6. Settled'
  <2>. SUFFICES ASSUME NEW s \in Schedule PROVE Agrees(s)' \/ Mended(s)'
    BY DEF Settled
  <2>1. Agrees(queue[1].id)
    BY <1>1, <1>2, QueueFacts DEF ConsumerAgrees
  <2>2. CASE Agrees(s)
    BY <1>1, <2>2, SameAgrees
  <2>3. CASE ~ Agrees(s) /\ \E i \in DOMAIN queue : queue[i].id = s
    BY <1>4, <2>1, <2>3 DEF Mended
  <2>4. CASE \E h \in Handler : pc[h] = "publish" /\ frame[h].id = s
    BY <1>1, <2>4 DEF Mended, server
  <2>. QED BY <1>1, <1>2, <1>3, <2>2, <2>3, <2>4 DEF Settled, Mended, NoRunner
<1>. QED BY <1>3, <1>4, <1>5, <1>6

\* A refused update: its schedule is no longer active, then its job, if there is one, rests.
LEMMA ReportAgrees == ASSUME TypeInv, AgreeInv, ReportError \/ PauseJob PROVE AgreeInv'
<1>. SUFFICES ASSUME Undisturbed' PROVE (Alone /\ MessagesTell /\ ConsumerAgrees /\ PublishersAgree /\ Settled)'
  BY DEF AgreeInv
<1>1. consumer.pc \in {"failed", "pause"} /\ disturbed' = disturbed /\ UNCHANGED <<queue, server, runner>>
  BY DEF ReportError, PauseJob, history
<1>2. Undisturbed /\ Refused /\ Settled
  BY <1>1 DEF Undisturbed, AgreeInv, ConsumerAgrees
<1>3. queue = <<>> /\ NoRequest /\ NoRunner /\ DOMAIN queue = {}
  BY <1>2 DEF Refused
<1>4. PICK m \in Message : /\ consumer.message = {m} /\ m.action = "UpdateJob" /\ doc[m.id].plan = m.plan
                           /\ (consumer.pc = "pause" => ~doc[m.id].active)
  BY <1>2 DEF Refused
<1>5. m.id \in Schedule /\ Exists(m.id)
  BY <1>4, MessageFacts DEF Exists
<1>6. NoRequest' /\ NoRunner' /\ Alone' /\ PublishersAgree' /\ MessagesTell'
  BY <1>1, <1>3 DEF NoRequest, NoRunner, server, Alone, PublishersAgree, MessagesTell
<1>7. \A s \in Schedule : s = m.id \/ Agrees(s)
  BY <1>2, <1>3, <1>4 DEF Settled, Mended, NoRequest, NoRunner
<1>8. CASE ReportError
  <2>1. doc' = [doc EXCEPT ![m.id].active = FALSE] /\ job' = job /\ consumer' = [consumer EXCEPT !.pc = "pause"]
    BY <1>4, <1>5, <1>8 DEF ReportError
  <2>2. doc'[m.id].plan = doc[m.id].plan /\ ~ doc'[m.id].active /\ \A s \in Schedule \ {m.id} : doc'[s] = doc[s]
    BY <1>5, <2>1 DEF TypeInv, DocumentsOK
  <2>3. consumer'.pc = "pause" /\ consumer'.message = {m}
    BY <1>4, <2>1 DEF TypeInv, SchedulerOK
  <2>4. ConsumerAgrees'
    BY <1>1, <1>3, <1>4, <1>6, <2>2, <2>3 DEF ConsumerAgrees, Refused
  <2>5. Settled'
    BY <1>7, <2>1, <2>2, <2>3, SameAgrees DEF Settled, Mended
  <2>. QED BY <1>6, <2>4, <2>5
<1>9. CASE PauseJob
  <2>1. consumer.pc = "pause" /\ doc' = doc /\ job[m.id] # NoJob
        /\ job' = [job EXCEPT ![m.id].runs = FALSE] /\ consumer' = Rested
    BY <1>4, <1>9 DEF PauseJob, Undisturbed, Rested
  <2>2. ~ job'[m.id].runs /\ \A s \in Schedule \ {m.id} : job'[s] = job[s]
    BY <1>5, <2>1 DEF TypeInv, SchedulerOK, Job
  <2>3. Agrees(m.id)'
    <3>1. ~ doc'[m.id].active /\ doc'[m.id].plan # NoPlan
      BY <1>4, <1>5, <2>1 DEF Exists
    <3>. QED BY <2>2, <3>1 DEF Agrees, Exists
  <2>4. ConsumerAgrees'
    BY <2>1 DEF ConsumerAgrees, Rested
  <2>5. Settled'
    BY <1>7, <2>1, <2>2, <2>3, SameAgrees DEF Settled
  <2>. QED BY <1>6, <2>4, <2>5
<1>. QED BY <1>8, <1>9

-----------------------------------------------------------------------------
(***************************************************************************)
(* The theorems                                                            *)
(***************************************************************************)
LEMMA InitAgrees == ASSUME Init PROVE AgreeInv
<1>1. /\ queue = <<>> /\ DOMAIN queue = {} /\ consumer.pc = "idle" /\ (\A h \in Handler : pc[h] = "idle")
      /\ \A s \in Schedule : runner[s] = "idle"
  BY DEF Init, Rested
<1>2. \A s \in Schedule : Agrees(s)
  <2>. SUFFICES ASSUME NEW s \in Schedule PROVE Agrees(s)
    OBVIOUS
  <2>1. CASE doc[s] = Gone /\ job[s] = NoJob
    BY <2>1 DEF Agrees, Exists, Gone, NoJob
  <2>2. ASSUME NEW plan \in Recurring \cup Once, NEW active \in BOOLEAN, active \/ plan \in Recurring,
               doc[s] = [plan |-> plan, active |-> active], job[s] = [plan |-> plan, runs |-> active]
        PROVE  Agrees(s)
    <3>1. plan # NoPlan /\ plan \notin Unreadable
      BY DEF Plan
    <3>2. doc[s].plan = plan /\ doc[s].active = active /\ job[s].plan = plan /\ job[s].runs = active
      BY <2>2
    <3>. QED BY <2>2, <3>1, <3>2 DEF Agrees, Exists
  <2>. QED BY <2>1, <2>2 DEF Init
<1>3. Alone /\ MessagesTell /\ ConsumerAgrees /\ PublishersAgree
  BY <1>1 DEF Alone, NoRequest, NoRunner, MessagesTell, ConsumerAgrees, PublishersAgree
<1>. QED BY <1>2, <1>3 DEF AgreeInv, Settled

LEMMA StepAgrees == TypeInv /\ AgreeInv /\ [Next]_vars => AgreeInv'
<1>. SUFFICES ASSUME TypeInv, AgreeInv, [Next]_vars PROVE AgreeInv'
  OBVIOUS
<1>1. CASE UNCHANGED vars
  <2>1. /\ Undisturbed' => Undisturbed
        /\ Alone => Alone'
        /\ MessagesTell => MessagesTell'
        /\ ConsumerAgrees => ConsumerAgrees'
        /\ PublishersAgree => PublishersAgree'
        /\ Settled => Settled'
    BY <1>1 DEF vars, server, history, Undisturbed, Alone, MessagesTell, ConsumerAgrees, PublishersAgree,
                Settled, Mended, NoRequest, NoRunner, Tells, Updating, Refused, Agrees, Exists
  <2>. QED BY <2>1 DEF AgreeInv
<1>2. ASSUME NEW h \in Handler, Drop(h) PROVE AgreeInv'
  BY <1>2 DEF Drop, AgreeInv, Undisturbed
<1>3. CASE Restart
  BY <1>3 DEF Restart, AgreeInv, Undisturbed
<1>. QED BY <1>1, <1>2, <1>3, RequestAgrees, WriteAgrees, PublishAgrees, ListAgrees, TakeAgrees, ApplyAgrees,
            AcknowledgeAgrees, ReportAgrees, RunAgrees DEF Next, Handle, Consume

LEMMA Invariant == Spec => [](TypeInv /\ AgreeInv)
BY InitType, InitAgrees, StepType, StepAgrees, PTL DEF Spec

\* Documents, messages and the scheduler's jobs are what the code can make them, whatever
\* overlaps, is dropped or restarted: a merged update keeps the timetable, and no
\* timetable that apscheduler refuses ever becomes a job, although what is applied was
\* decided by an earlier look at the job.
THEOREM TypeCorrect == Spec => []TypeOK
<1>1. TypeInv => TypeOK
  BY DEF TypeInv, TypeOK, DocumentsOK, HandlersOK, SchedulerOK, FrameOK, Job
<1>. QED BY <1>1, Invariant, PTL

\* When requests, updates and firings follow one another and none is cut short, the
\* scheduler agrees with the documents whenever all is at rest.
THEOREM SchedulerFollows == Spec => []SchedulerAgrees
<1>1. TypeInv /\ AgreeInv => SchedulerAgrees
  BY Rest DEF SchedulerAgrees, Agrees
<1>. QED BY <1>1, Invariant, PTL

=============================================================================
