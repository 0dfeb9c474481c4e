--------------------------- MODULE Agents_proofs ----------------------------
(***************************************************************************)
(* Agents: the invariants, for any agents, tasks, handlers and outcomes.   *)
(*                                                                         *)
(* TypeInv says what a handler carries at each point, and that what it and *)
(* the messages say of an outcome is so.  PlaceInv says where a task is    *)
(* that one agent runs and that does not restart: in one message, in one   *)
(* process, with one handler or in the error queue, and nowhere while it   *)
(* waits for an agent or was never launched.                               *)
(*                                                                         *)
(* WaitInv says why a task that waits will be looked at: a request is      *)
(* about to offer it, or it has been tried on every agent that is active.  *)
(* For tasks for several agents it says who writes their status.           *)
(***************************************************************************)
EXTENDS Agents, FiniteSetTheorems, SequenceTheorems, WellFoundedInduction, TLAPS

USE ConstantsAssumption

-----------------------------------------------------------------------------
(***************************************************************************)
(* The invariants                                                          *)
(***************************************************************************)
NaturalTask == {"launch", "republish", "requeue", "fail", "errorOutcome", "pull", "orphan"}
NaturalAgent == {"requeue", "again", "lost", "answer", "orphans", "orphan", "offline"}
Doing == NaturalTask \cup NaturalAgent \cup {"list", "catch"}
AnyItem == [do : Doing, task : Task \cup {0}, agent : Agent \cup {NoAgent}, outcome : Outcome \cup {0}]
Document == [task : Task \cup {0}, agent : Agent \cup {NoAgent}, status : TaskStatus, crashed : BOOLEAN]
Frame == [todo : Seq(AnyItem), task : Task \cup {0}, tried : SUBSET Agent, targets : SUBSET Agent,
          outcome : Outcome \cup {0}, requeue : Agent \cup {NoAgent}, cancel : SUBSET Outcome]

\* The outcome o is one of the task t.
IsOf(outs, o, t) == o \in Outcome /\ t \in Task /\ outs[o].task = t

ItemOK(outs, i) ==
    /\ i \in AnyItem
    /\ i.do \in NaturalTask => i.task \in Task
    /\ i.do \in NaturalAgent => i.agent \in Agent
    /\ i.do = "orphan" => i.outcome \in Outcome /\ outs[i.outcome].task # 0
    /\ i.do = "requeue" => IsOf(outs, i.outcome, i.task) /\ Target[i.task] # "single"

TodoOK(outs, s) == s \in Seq(AnyItem) /\ \A k \in DOMAIN s : ItemOK(outs, s[k])

Publishing == Steps \ {"idle", "work", "claim"}

FrameOK(outs, p, f) ==
    /\ p \in Steps /\ f \in Frame
    /\ TodoOK(outs, f.todo)
    /\ \A o \in f.cancel : outs[o].task # 0
    /\ p # "idle" => f.todo # <<>>
    /\ p = "claim" => Head(f.todo).do = "pull"
    /\ p \notin Publishing => f.task = 0 /\ f.requeue = NoAgent
    /\ p \in Publishing => f.task \in Task
    /\ f.requeue # NoAgent => IsOf(outs, f.outcome, f.task) /\ Target[f.task] # "single"
    /\ p = "resend" => f.requeue \in Agent
    /\ p = "send" => IsOf(outs, f.outcome, f.task) /\ outs[f.outcome].agent \in f.targets

DocumentsOK ==
    /\ agent \in [Agent -> [offline : BOOLEAN, beat : Age]]
    /\ task \in [Task -> [status : TaskStatus, attempted : SUBSET Agent]]
    /\ outcome \in [Outcome -> Document]
MessageOK(outs, m) == m \in Message /\ outs[m.outcome].task = m.task
MailOK ==
    /\ \A m \in queue \cup dead : MessageOK(outcome, m)
    /\ errors \subseteq Task
    /\ run \subseteq Outcome /\ \A o \in run : outcome[o].task # 0
HandlersOK ==
    /\ pc \in [Handler -> Steps] /\ frame \in [Handler -> Frame]
    /\ \A h \in Handler : FrameOK(outcome, pc[h], frame[h])

TypeInv == DocumentsOK /\ MailOK /\ HandlersOK

\* The tasks OneRunner is about.
Sole == {t \in Task \ AutoRestart : Target[t] = "single"}

\* An item that puts its task in the hands of the handler that works on it.
Takes(i, t) == i.do \in {"republish", "fail"} /\ i.task = t

Holds(p, f, t) == p # "idle" /\ (f.task = t \/ (p = "work" /\ Takes(Head(f.todo), t)))

\* What is to be done later takes none of them.
Later(s) == \A k \in 2..Len(s) : \A t \in Sole : ~ Takes(s[k], t)

OfTask(m, t) == m.task = t
InMail(t) == \E m \in queue \cup dead : m.task = t
Runs(t) == \E o \in run : outcome[o].task = t
InHand(t) == \E h \in Handler : Holds(pc[h], frame[h], t)

\* At one place of a kind...
Once(t) ==
    /\ \A m, n \in queue \cup dead : m.task = t /\ n.task = t => m = n
    /\ \A m \in queue \cap dead : m.task # t
    /\ \A o, p \in run : outcome[o].task = t /\ outcome[p].task = t => o = p
    /\ \A g, h \in Handler : Holds(pc[g], frame[g], t) /\ Holds(pc[h], frame[h], t) => g = h
\* ... and of one kind only.
Apart(t) ==
    /\ InMail(t) => ~ Runs(t) /\ ~ InHand(t) /\ t \notin errors
    /\ Runs(t) => ~ InHand(t) /\ t \notin errors
    /\ InHand(t) => t \notin errors
AtRest(t) == task[t].status \in {NULL, WAITING_FOR_AGENT} => ~ InMail(t) /\ ~ Runs(t) /\ ~ InHand(t) /\ t \notin errors

Aims(p, f) ==
    /\ Later(f.todo)
    /\ f.task \in Sole /\ p \in {"assign", "published", "create", "send"} => \E a \in Agent : f.targets = {a}

PlaceInv ==
    /\ \A t \in Sole : Once(t) /\ Apart(t) /\ AtRest(t)
    /\ \A h \in Handler : Aims(pc[h], frame[h])

-----------------------------------------------------------------------------
(***************************************************************************)
(* Items, what is to be done, frames                                       *)
(***************************************************************************)
\* Outcomes are never deleted and never change hands.
Grown(outs, next) ==
    \A o \in Outcome : outs[o].task # 0 => next[o].task = outs[o].task /\ next[o].agent = outs[o].agent

LEMMA ZeroIsNoTask == 0 \notin Task
OBVIOUS

LEMMA TodoKeeps == ASSUME NEW outs, NEW next, Grown(outs, next), NEW s, TodoOK(outs, s) PROVE TodoOK(next, s)
<1>1. ASSUME NEW k \in DOMAIN s PROVE ItemOK(next, s[k])
  <2>1. ItemOK(outs, s[k])
    BY DEF TodoOK
  <2>. QED BY <2>1, ZeroIsNoTask DEF ItemOK, IsOf, Grown
<1>. QED BY <1>1 DEF TodoOK

LEMMA FrameKeeps ==
    ASSUME NEW outs, NEW next, Grown(outs, next), NEW p, NEW f, FrameOK(outs, p, f)
    PROVE  FrameOK(next, p, f)
<1>1. TodoOK(next, f.todo)
  BY TodoKeeps DEF FrameOK
<1>2. \A o \in f.cancel : next[o].task # 0
  <2>1. f.cancel \subseteq Outcome
    BY DEF FrameOK, Frame
  <2>. QED BY <2>1 DEF FrameOK, Grown
<1>3. f.requeue # NoAgent => IsOf(next, f.outcome, f.task)
  BY ZeroIsNoTask DEF FrameOK, IsOf, Grown
<1>4. p = "send" => IsOf(next, f.outcome, f.task) /\ next[f.outcome].agent \in f.targets
  BY ZeroIsNoTask DEF FrameOK, IsOf, Grown
<1>. QED BY <1>1, <1>2, <1>3, <1>4 DEF FrameOK

LEMMA TodoTail == ASSUME NEW outs, NEW s, TodoOK(outs, s), s # <<>> PROVE TodoOK(outs, Tail(s))
<1>1. s \in Seq(AnyItem)
  BY DEF TodoOK
<1>2. Tail(s) \in Seq(AnyItem) /\ Len(Tail(s)) = Len(s) - 1 /\ Len(s) \in Nat
  BY <1>1, HeadTailProperties, LenProperties
<1>3. DOMAIN Tail(s) = 1..Len(Tail(s)) /\ DOMAIN s = 1..Len(s)
  BY <1>1, <1>2, LenProperties
<1>4. ASSUME NEW k \in DOMAIN Tail(s) PROVE Tail(s)[k] = s[k + 1] /\ k + 1 \in DOMAIN s
  <2>1. k \in 1..Len(Tail(s))
    BY <1>3
  <2>. QED BY <1>1, <1>2, <1>3, <2>1, HeadTailProperties
<1>. QED BY <1>2, <1>4 DEF TodoOK

LEMMA TodoJoin ==
    ASSUME NEW outs, NEW s, NEW t, TodoOK(outs, s), TodoOK(outs, t)
    PROVE  TodoOK(outs, s \o t)
<1>1. s \in Seq(AnyItem) /\ t \in Seq(AnyItem)
  BY DEF TodoOK
<1>2. s \o t \in Seq(AnyItem) /\ Len(s \o t) = Len(s) + Len(t) /\ Len(s) \in Nat /\ Len(t) \in Nat
  BY <1>1, ConcatProperties, LenProperties
<1>3. /\ DOMAIN (s \o t) = 1..Len(s \o t) /\ DOMAIN s = 1..Len(s) /\ DOMAIN t = 1..Len(t)
  BY <1>1, <1>2, LenProperties
<1>4. ASSUME NEW k \in DOMAIN (s \o t) PROVE ItemOK(outs, (s \o t)[k])
  <2>1. k \in 1..(Len(s) + Len(t)) /\ (s \o t)[k] = IF k <= Len(s) THEN s[k] ELSE t[k - Len(s)]
    BY <1>1, <1>2, <1>3, ConcatProperties
  <2>2. CASE k <= Len(s)
    BY <1>2, <1>3, <2>1, <2>2 DEF TodoOK
  <2>3. CASE ~ (k <= Len(s))
    <3>1. k - Len(s) \in DOMAIN t
      BY <1>2, <1>3, <2>1, <2>3
    <3>. QED BY <2>1, <2>3, <3>1 DEF TodoOK
  <2>. QED BY <2>2, <2>3
<1>. QED BY <1>2, <1>4 DEF TodoOK

LEMMA TodoRest ==
    ASSUME NEW outs, NEW s, TodoOK(outs, s), NEW i \in 1..Len(s)
    PROVE  TodoOK(outs, SubSeq(s, i + 1, Len(s)))
<1>. DEFINE r == SubSeq(s, i + 1, Len(s))
<1>1. s \in Seq(AnyItem) /\ Len(s) \in Nat /\ DOMAIN s = 1..Len(s)
  BY LenProperties DEF TodoOK
<1>2. r = [k \in 1..(Len(s) - i) |-> s[k + i]]
  BY <1>1
<1>3. DOMAIN r = 1..(Len(s) - i) /\ Len(s) - i \in Nat
  BY <1>1, <1>2
<1>4. ASSUME NEW k \in DOMAIN r PROVE ItemOK(outs, r[k])
  <2>1. k + i \in DOMAIN s
    BY <1>1, <1>3
  <2>2. r[k] = s[k + i]
    BY <1>2, <1>3
  <2>. QED BY <2>1, <2>2 DEF TodoOK
<1>6. r \in Seq(AnyItem)
  BY <1>1, SubSeqProperties
<1>. QED BY <1>4, <1>6 DEF TodoOK

LEMMA TodoOne == ASSUME NEW outs, NEW i, ItemOK(outs, i) PROVE TodoOK(outs, <<i>>)
<1>1. i \in AnyItem
  BY DEF ItemOK
<1>2. <<i>> \in Seq(AnyItem)
  BY <1>1
<1>3. DOMAIN <<i>> = {1} /\ <<i>>[1] = i
  OBVIOUS
<1>. QED BY <1>2, <1>3 DEF TodoOK

LEMMA TodoTwo == ASSUME NEW outs, NEW i, NEW j, ItemOK(outs, i), ItemOK(outs, j) PROVE TodoOK(outs, <<i, j>>)
<1>1. i \in AnyItem /\ j \in AnyItem
  BY DEF ItemOK
<1>2. <<i, j>> \in Seq(AnyItem)
  BY <1>1
<1>3. DOMAIN <<i, j>> = {1, 2} /\ <<i, j>>[1] = i /\ <<i, j>>[2] = j
  OBVIOUS
<1>. QED BY <1>2, <1>3 DEF TodoOK

LEMMA TodoThree ==
    ASSUME NEW outs, NEW i, NEW j, NEW k, ItemOK(outs, i), ItemOK(outs, j), ItemOK(outs, k)
    PROVE  TodoOK(outs, <<i, j, k>>)
<1>1. i \in AnyItem /\ j \in AnyItem /\ k \in AnyItem
  BY DEF ItemOK
<1>2. <<i, j, k>> \in Seq(AnyItem)
  BY <1>1
<1>3. DOMAIN <<i, j, k>> = {1, 2, 3} /\ <<i, j, k>>[1] = i /\ <<i, j, k>>[2] = j /\ <<i, j, k>>[3] = k
  OBVIOUS
<1>. QED BY <1>2, <1>3 DEF TodoOK

LEMMA TodoNone == ASSUME NEW outs PROVE TodoOK(outs, <<>>)
BY DEF TodoOK

\* The first item.
LEMMA HeadOK ==
    ASSUME NEW outs, NEW p, NEW f, FrameOK(outs, p, f), p # "idle"
    PROVE  /\ f.todo \in Seq(AnyItem) /\ f.todo # <<>> /\ Head(f.todo) \in AnyItem
           /\ Head(f.todo) = f.todo[1] /\ ItemOK(outs, Head(f.todo)) /\ TodoOK(outs, Tail(f.todo))
<1>1. f.todo \in Seq(AnyItem) /\ f.todo # <<>> /\ TodoOK(outs, f.todo)
  BY DEF FrameOK, TodoOK
<1>2. Head(f.todo) = f.todo[1] /\ 1 \in DOMAIN f.todo
  BY <1>1, HeadTailProperties, LenProperties, EmptySeq
<1>3. ItemOK(outs, Head(f.todo))
  BY <1>1, <1>2 DEF TodoOK
<1>. QED BY <1>1, <1>2, <1>3, TodoTail DEF ItemOK

\* What Go makes of a frame: a request that has nothing left to do ends.
Lands(outs, p, f) == p = "idle" \/ (p = "work" /\ f.todo = <<>>) \/ FrameOK(outs, p, f)

LEMMA Idle == ASSUME NEW outs PROVE FrameOK(outs, "idle", EmptyFrame)
<1>1. EmptyFrame \in Frame /\ EmptyFrame.todo = <<>>
  BY DEF EmptyFrame, Frame
<1>. QED BY <1>1, TodoNone DEF FrameOK, EmptyFrame, Steps, Publishing

LEMMA StayOK == ASSUME HandlersOK, Grown(outcome, outcome'), UNCHANGED <<pc, frame>> PROVE HandlersOK'
BY FrameKeeps DEF HandlersOK

LEMMA GoOK ==
    ASSUME HandlersOK, Grown(outcome, outcome'), NEW h \in Handler, NEW p, NEW f,
           Go(h, p, f), Lands(outcome', p, f)
    PROVE  HandlersOK'
<1>. DEFINE ends == p = "idle" \/ (p = "work" /\ f.todo = <<>>)
            q == IF ends THEN "idle" ELSE p
            g == IF ends THEN EmptyFrame ELSE f
<1>1. FrameOK(outcome', q, g)
  BY Idle DEF Lands
<1>2. pc' = [pc EXCEPT ![h] = q] /\ frame' = [frame EXCEPT ![h] = g]
  BY DEF Go
<1>. HIDE DEF q, g
<1>3. q \in Steps /\ g \in Frame
  BY <1>1 DEF FrameOK
<1>4. ASSUME NEW k \in Handler PROVE FrameOK(outcome', pc'[k], frame'[k])
  <2>1. FrameOK(outcome', pc[k], frame[k])
    BY FrameKeeps DEF HandlersOK
  <2>. QED BY <1>1, <1>2, <2>1 DEF HandlersOK
<1>. QED BY <1>2, <1>3, <1>4 DEF HandlersOK

LEMMA StartOK ==
    ASSUME HandlersOK, Grown(outcome, outcome'), NEW h \in Handler, NEW items,
           Start(h, items), TodoOK(outcome', items), items # <<>>
    PROVE  HandlersOK'
<1>. DEFINE g == [EmptyFrame EXCEPT !.todo = items]
<1>1. FrameOK(outcome', "work", g)
  BY DEF FrameOK, EmptyFrame, Frame, Steps, Publishing, TodoOK
<1>2. pc' = [pc EXCEPT ![h] = "work"] /\ frame' = [frame EXCEPT ![h] = g]
  BY DEF Start
<1>. HIDE DEF g
<1>3. g \in Frame /\ "work" \in Steps
  BY <1>1 DEF FrameOK
<1>4. ASSUME NEW k \in Handler PROVE FrameOK(outcome', pc'[k], frame'[k])
  <2>1. FrameOK(outcome', pc[k], frame[k])
    BY FrameKeeps DEF HandlersOK
  <2>. QED BY <1>1, <1>2, <2>1 DEF HandlersOK
<1>. QED BY <1>2, <1>3, <1>4 DEF HandlersOK

LEMMA ThenOK ==
    ASSUME NEW outs, NEW p, NEW f, FrameOK(outs, p, f), p # "idle", NEW items, TodoOK(outs, items)
    PROVE  Lands(outs, "work", Then(f, items))
<1>. DEFINE s == items \o Tail(f.todo)
<1>1. TodoOK(outs, s)
  BY HeadOK, TodoJoin
<1>2. s \in Seq(AnyItem)
  BY <1>1 DEF TodoOK
<1>. HIDE DEF s
<1>3. Then(f, items) = [EmptyFrame EXCEPT !.todo = s, !.cancel = f.cancel]
  BY DEF Then, Rest, EmptyFrame, s
<1>. QED BY <1>1, <1>2, <1>3 DEF Lands, FrameOK, EmptyFrame, Frame, Steps, Publishing

LEMMA RestOK ==
    ASSUME NEW outs, NEW p, NEW f, FrameOK(outs, p, f), p # "idle"
    PROVE  Lands(outs, "work", Rest(f))
<1>. DEFINE s == Tail(f.todo)
<1>1. TodoOK(outs, s)
  BY HeadOK
<1>2. s \in Seq(AnyItem)
  BY <1>1 DEF TodoOK
<1>. HIDE DEF s
<1>3. Rest(f) = [EmptyFrame EXCEPT !.todo = s, !.cancel = f.cancel]
  BY DEF Rest, s
<1>. QED BY <1>1, <1>2, <1>3 DEF Lands, FrameOK, EmptyFrame, Frame, Steps, Publishing

-----------------------------------------------------------------------------
(***************************************************************************)
(* Types: each kind of step                                                *)
(***************************************************************************)
LEMMA Items ==
    ASSUME NEW outs
    PROVE  /\ ItemOK(outs, Catch)
           /\ \A t \in Task : /\ ItemOK(outs, Item("launch", t, NoAgent, 0))
                              /\ ItemOK(outs, Item("republish", t, NoAgent, 0))
                              /\ ItemOK(outs, Item("fail", t, NoAgent, 0))
                              /\ ItemOK(outs, Item("errorOutcome", t, NoAgent, 0))
           /\ \A t \in Task, a \in Agent \cup {NoAgent} : ItemOK(outs, Item("pull", t, a, 0))
           /\ \A a \in Agent \cup {NoAgent} : ItemOK(outs, Item("list", 0, a, 0))
           /\ \A a \in Agent : /\ ItemOK(outs, Item("again", 0, a, 0))
                               /\ ItemOK(outs, Item("lost", 0, a, 0))
                               /\ ItemOK(outs, Item("answer", 0, a, 0))
                               /\ ItemOK(outs, Item("orphans", 0, a, 0))
                               /\ ItemOK(outs, Item("offline", 0, a, 0))
           /\ \A t \in Task, a \in Agent, o \in Outcome :
                /\ outs[o].task = t /\ Target[t] # "single" => ItemOK(outs, Item("requeue", t, a, o))
                /\ outs[o].task # 0 => ItemOK(outs, Item("orphan", t, a, o))
BY DEF ItemOK, Item, Catch, AnyItem, Doing, NaturalTask, NaturalAgent, IsOf

LEMMA Same == UNCHANGED outcome => Grown(outcome, outcome')
BY DEF Grown

LEMMA MessageKeeps ==
    ASSUME NEW outs, NEW next, Grown(outs, next), NEW m, MessageOK(outs, m)
    PROVE  MessageOK(next, m)
BY ZeroIsNoTask DEF MessageOK, Message, Grown

LEMMA MailStays == ASSUME MailOK, Grown(outcome, outcome'), UNCHANGED mail PROVE MailOK'
<1>1. \A m \in queue \cup dead : MessageOK(outcome', m)
  BY MessageKeeps DEF MailOK
<1>2. \A o \in run : outcome'[o].task # 0
  BY DEF MailOK, Grown
<1>. QED BY <1>1, <1>2 DEF MailOK, mail

\* A step that touches no outcome and no message.
LEMMA QuietType ==
    ASSUME TypeInv, UNCHANGED <<outcome, mail>>, HandlersOK',
           agent' \in [Agent -> [offline : BOOLEAN, beat : Age]],
           task' \in [Task -> [status : TaskStatus, attempted : SUBSET Agent]]
    PROVE  TypeInv'
<1>1. MailOK'
  BY Same, MailStays DEF TypeInv
<1>. QED BY <1>1 DEF TypeInv, DocumentsOK

LEMMA StatusesOK ==
    /\ NULL \in TaskStatus /\ NOT_STARTED \in TaskStatus /\ WAITING_FOR_AGENT \in TaskStatus
    /\ PUBLISHED \in TaskStatus /\ RUNNING \in TaskStatus /\ INTERRUPTED \in TaskStatus
    /\ SUCCEEDED \in TaskStatus /\ CANCELLED \in TaskStatus /\ FAILED \in TaskStatus
BY DEF TaskStatus

\* One task document is written.
LEMMA TaskWritten ==
    ASSUME DocumentsOK, NEW t, NEW s \in TaskStatus, task' = [task EXCEPT ![t].status = s]
    PROVE  task' \in [Task -> [status : TaskStatus, attempted : SUBSET Agent]]
<1>. DEFINE d == [task[t] EXCEPT !.status = s]
<1>1. CASE t \in Task
  <2>1. d \in [status : TaskStatus, attempted : SUBSET Agent]
    BY <1>1 DEF DocumentsOK
  <2>2. task' = [task EXCEPT ![t] = d]
    BY DEF d
  <2>. HIDE DEF d
  <2>. QED BY <2>1, <2>2 DEF DocumentsOK
<1>2. CASE t \notin Task
  BY <1>2 DEF DocumentsOK
<1>. QED BY <1>1, <1>2

LEMMA AttemptedWritten ==
    ASSUME DocumentsOK, NEW t, NEW A, A \subseteq Agent, task' = [task EXCEPT ![t].attempted = A]
    PROVE  task' \in [Task -> [status : TaskStatus, attempted : SUBSET Agent]]
<1>. DEFINE d == [task[t] EXCEPT !.attempted = A]
<1>1. CASE t \in Task
  <2>1. d \in [status : TaskStatus, attempted : SUBSET Agent]
    BY <1>1 DEF DocumentsOK
  <2>2. task' = [task EXCEPT ![t] = d]
    BY DEF d
  <2>. HIDE DEF d
  <2>. QED BY <2>1, <2>2 DEF DocumentsOK
<1>2. CASE t \notin Task
  BY <1>2 DEF DocumentsOK
<1>. QED BY <1>1, <1>2

LEMMA LaunchType == ASSUME TypeInv, NEW h \in Handler, Launch(h) PROVE TypeInv'
<1>. DEFINE g(t) == [EmptyFrame EXCEPT !.todo = <<Item("launch", t, NoAgent, 0)>>, !.task = t, !.tried = task[t].attempted]
<1>1. PICK t \in Task : task' = [task EXCEPT ![t].status = NOT_STARTED] /\ Go(h, "route", g(t))
  BY DEF Launch
<1>2. TodoOK(outcome', <<Item("launch", t, NoAgent, 0)>>)
  BY Items, TodoOne
<1>3. task[t].attempted \subseteq Agent
  BY DEF TypeInv, DocumentsOK
<1>4. FrameOK(outcome', "route", g(t))
  BY <1>2, <1>3 DEF FrameOK, EmptyFrame, Frame, Steps, Publishing, TodoOK
<1>5. UNCHANGED <<agent, outcome, mail>>
  BY DEF Launch
<1>. HIDE DEF g
<1>6. HandlersOK'
  BY <1>1, <1>4, <1>5, Same, GoOK DEF TypeInv, Lands
<1>7. task' \in [Task -> [status : TaskStatus, attempted : SUBSET Agent]]
  BY <1>1, StatusesOK, TaskWritten DEF TypeInv
<1>. QED BY <1>5, <1>6, <1>7, QuietType DEF TypeInv, DocumentsOK

LEMMA LapseType == ASSUME TypeInv, NEW a \in Agent, Lapse(a) PROVE TypeInv'
<1>1. UNCHANGED <<task, outcome, mail, pc, frame>>
  BY DEF Lapse
<1>2. HandlersOK'
  BY <1>1, Same, StayOK DEF TypeInv
<1>3. agent' \in [Agent -> [offline : BOOLEAN, beat : Age]]
  <2>1. PICK b \in Age : agent' = [agent EXCEPT ![a].beat = b]
    BY DEF Lapse, Age
  <2>. QED BY <2>1 DEF TypeInv, DocumentsOK
<1>. QED BY <1>1, <1>2, <1>3, QuietType DEF TypeInv, DocumentsOK

LEMMA CrashType == ASSUME TypeInv, NEW a \in Agent, Crash(a) PROVE TypeInv'
<1>1. run' \subseteq run /\ UNCHANGED <<docs, queue, dead, errors, pc, frame>>
  BY DEF Crash
<1>2. HandlersOK'
  BY <1>1, Same, StayOK DEF TypeInv, docs
<1>3. MailOK'
  BY <1>1 DEF TypeInv, MailOK, docs
<1>. QED BY <1>1, <1>2, <1>3 DEF TypeInv, DocumentsOK, docs

\* One outcome gets a status and keeps the rest.
Marked(o, s) == outcome' = [outcome EXCEPT ![o].status = s]

LEMMA MarkedOK ==
    ASSUME DocumentsOK, NEW o \in Outcome, NEW s \in TaskStatus, Marked(o, s)
    PROVE  /\ outcome' \in [Outcome -> Document] /\ Grown(outcome, outcome')
           /\ \A p \in Outcome : outcome'[p].task = outcome[p].task
<1>. DEFINE d == [outcome[o] EXCEPT !.status = s]
<1>1. d \in Document /\ d.task = outcome[o].task /\ d.agent = outcome[o].agent
  BY DEF DocumentsOK, Document
<1>2. outcome' = [outcome EXCEPT ![o] = d]
  BY DEF d, Marked
<1>. HIDE DEF d
<1>. QED BY <1>1, <1>2 DEF DocumentsOK, Grown

LEMMA ConsumeType == ASSUME TypeInv, NEW m \in queue, Consume(m) PROVE TypeInv'
<1>1. MessageOK(outcome, m) /\ m.outcome \in Outcome /\ m.task \in Task
  BY DEF TypeInv, MailOK, MessageOK, Message
<1>. DEFINE s == IF outcome[m.outcome].status < SUCCEEDED THEN RUNNING ELSE outcome[m.outcome].status
<1>2. s \in TaskStatus
  BY <1>1, StatusesOK DEF TypeInv, DocumentsOK, Document
<1>3. Marked(m.outcome, s)
  BY DEF Consume, Marked
<1>. HIDE DEF s
<1>4. /\ outcome' \in [Outcome -> Document] /\ Grown(outcome, outcome')
      /\ \A p \in Outcome : outcome'[p].task = outcome[p].task
  BY <1>1, <1>2, <1>3, MarkedOK DEF TypeInv
<1>5. /\ queue' = queue \ {m} /\ run' = run \cup {m.outcome}
      /\ UNCHANGED <<agent, task, dead, errors, pc, frame>>
  BY DEF Consume
<1>6. HandlersOK'
  BY <1>4, <1>5, StayOK DEF TypeInv
<1>7. MailOK'
  <2>1. \A n \in queue' \cup dead' : MessageOK(outcome', n)
    BY <1>4, <1>5, MessageKeeps DEF TypeInv, MailOK
  <2>2. run' \subseteq Outcome /\ \A o \in run' : outcome'[o].task # 0
    BY <1>1, <1>4, <1>5, ZeroIsNoTask DEF TypeInv, MailOK, MessageOK
  <2>. QED BY <1>5, <2>1, <2>2 DEF TypeInv, MailOK
<1>. QED BY <1>4, <1>5, <1>6, <1>7 DEF TypeInv, DocumentsOK

LEMMA FinishType == ASSUME TypeInv, NEW h \in Handler, NEW o \in run, Finish(h, o) PROVE TypeInv'
<1>1. o \in Outcome /\ run' = run \ {o} /\ UNCHANGED <<agent, task, queue, dead, errors>>
  BY DEF Finish, TypeInv, MailOK
<1>2. outcome[o].agent \in Agent \cup {NoAgent}
  BY <1>1 DEF TypeInv, DocumentsOK, Document
<1>. DEFINE items == <<Item("list", 0, outcome[o].agent, 0)>>
<1>3. TodoOK(outcome', items) /\ items # <<>>
  BY <1>2, Items, TodoOne
<1>. HIDE DEF items
<1>4. CASE outcome[o].status < SUCCEEDED
  <2>1. Marked(o, SUCCEEDED) /\ Start(h, items)
    BY <1>4 DEF Finish, Marked, items
  <2>2. /\ outcome' \in [Outcome -> Document] /\ Grown(outcome, outcome')
        /\ \A p \in Outcome : outcome'[p].task = outcome[p].task
    BY <1>1, <2>1, StatusesOK, MarkedOK DEF TypeInv
  <2>3. HandlersOK'
    BY <1>3, <2>1, <2>2, StartOK DEF TypeInv
  <2>4. MailOK'
    <3>1. \A n \in queue' \cup dead' : MessageOK(outcome', n)
      BY <1>1, <2>2, MessageKeeps DEF TypeInv, MailOK
    <3>. QED BY <1>1, <2>2, <3>1 DEF TypeInv, MailOK
  <2>. QED BY <1>1, <2>2, <2>3, <2>4 DEF TypeInv, DocumentsOK
<1>5. CASE ~ (outcome[o].status < SUCCEEDED)
  <2>1. UNCHANGED <<outcome, pc, frame>>
    BY <1>5 DEF Finish
  <2>2. HandlersOK'
    BY <2>1, Same, StayOK DEF TypeInv
  <2>3. MailOK'
    BY <1>1, <2>1 DEF TypeInv, MailOK
  <2>. QED BY <1>1, <2>1, <2>2, <2>3 DEF TypeInv, DocumentsOK
<1>. QED BY <1>4, <1>5

LEMMA ExpireType == ASSUME TypeInv, NEW m \in queue, Expire(m) PROVE TypeInv'
<1>1. /\ queue' = queue \ {m} /\ dead' = dead \cup {m} /\ UNCHANGED <<docs, errors, run, pc, frame>>
  BY DEF Expire
<1>2. HandlersOK'
  BY <1>1, Same, StayOK DEF TypeInv, docs
<1>3. MailOK'
  BY <1>1 DEF TypeInv, MailOK, docs
<1>. QED BY <1>1, <1>2, <1>3 DEF TypeInv, DocumentsOK, docs

LEMMA ExpiredType == ASSUME TypeInv, NEW h \in Handler, OnTTLMessage(h) PROVE TypeInv'
<1>. DEFINE again(m) == <<Item("republish", m.task, NoAgent, 0), Catch>>
            anew(m) == <<Item("requeue", m.task, m.agent, m.outcome)>>
            items(m) == IF Target[m.task] = "single" THEN again(m) ELSE anew(m)
<1>1. PICK m \in dead : dead' = dead \ {m} /\ Start(h, items(m))
  BY DEF OnTTLMessage
<1>2. UNCHANGED <<docs, queue, errors, run>>
  BY DEF OnTTLMessage
<1>3. m \in Message /\ outcome[m.outcome].task = m.task
  BY DEF TypeInv, MailOK, MessageOK
<1>4. m.task \in Task /\ m.agent \in Agent /\ m.outcome \in Outcome /\ outcome'[m.outcome].task = m.task
  BY <1>2, <1>3 DEF Message, docs
<1>5. TodoOK(outcome', again(m)) /\ again(m) # <<>>
  BY <1>4, Items, TodoTwo
<1>6. Target[m.task] # "single" => TodoOK(outcome', anew(m)) /\ anew(m) # <<>>
  BY <1>4, Items, TodoOne
<1>. HIDE DEF again, anew
<1>7. TodoOK(outcome', items(m)) /\ items(m) # <<>>
  BY <1>5, <1>6
<1>. HIDE DEF items
<1>8. HandlersOK'
  BY <1>1, <1>2, <1>7, Same, StartOK DEF TypeInv, docs
<1>9. MailOK'
  BY <1>1, <1>2 DEF TypeInv, MailOK, docs
<1>. QED BY <1>2, <1>8, <1>9 DEF TypeInv, DocumentsOK, docs

LEMMA RefusedType == ASSUME TypeInv, NEW h \in Handler, OnLaunchTaskErrorMessage(h) PROVE TypeInv'
<1>. DEFINE items(t) == <<Item("fail", t, NoAgent, 0), Item("errorOutcome", t, NoAgent, 0), Item("list", 0, NoAgent, 0)>>
<1>1. PICK t \in errors : errors' = errors \ {t} /\ Start(h, items(t))
  BY DEF OnLaunchTaskErrorMessage
<1>2. UNCHANGED <<docs, queue, dead, run>>
  BY DEF OnLaunchTaskErrorMessage
<1>3. t \in Task
  BY DEF TypeInv, MailOK
<1>4. TodoOK(outcome', items(t)) /\ items(t) # <<>>
  BY <1>3, Items, TodoThree
<1>. HIDE DEF items
<1>5. HandlersOK'
  BY <1>1, <1>2, <1>4, Same, StartOK DEF TypeInv, docs
<1>6. MailOK'
  BY <1>1, <1>2 DEF TypeInv, MailOK, docs
<1>. QED BY <1>2, <1>5, <1>6 DEF TypeInv, DocumentsOK, docs

\* The handler whose turn it is.
LEMMA Turn ==
    ASSUME TypeInv, NEW h \in Handler
    PROVE  FrameOK(outcome, pc[h], frame[h])
BY DEF TypeInv, HandlersOK

\* A handler goes on; a task may have been written, but no outcome and no message.
LEMMA StepType ==
    ASSUME TypeInv, NEW h \in Handler, NEW p, NEW f, Go(h, p, f), Lands(outcome, p, f),
           UNCHANGED <<agent, outcome, mail>>,
           task' \in [Task -> [status : TaskStatus, attempted : SUBSET Agent]]
    PROVE  TypeInv'
<1>1. Grown(outcome, outcome') /\ outcome' = outcome
  BY Same
<1>2. Lands(outcome', p, f)
  BY <1>1
<1>3. HandlersOK'
  BY <1>1, <1>2, GoOK DEF TypeInv
<1>. QED BY <1>3, QuietType DEF TypeInv, DocumentsOK

\* ... with the next item, having done nothing else.
LEMMA RestType ==
    ASSUME TypeInv, NEW h \in Handler, pc[h] # "idle", Go(h, "work", Rest(frame[h])),
           UNCHANGED <<agent, outcome, mail>>,
           task' \in [Task -> [status : TaskStatus, attempted : SUBSET Agent]]
    PROVE  TypeInv'
BY Turn, RestOK, StepType

LEMMA TaskStays == TypeInv /\ UNCHANGED task => task' \in [Task -> [status : TaskStatus, attempted : SUBSET Agent]]
BY DEF TypeInv, DocumentsOK

LEMMA AtItem ==
    ASSUME TypeInv, NEW h \in Handler, NEW do, At(h, do)
    PROVE  /\ pc[h] = "work" /\ pc[h] # "idle" /\ Head(frame[h].todo).do = do
           /\ ItemOK(outcome, Head(frame[h].todo)) /\ frame[h].task = 0 /\ frame[h].requeue = NoAgent
<1>1. pc[h] = "work" /\ Head(frame[h].todo).do = do
  BY DEF At
<1>2. FrameOK(outcome, pc[h], frame[h])
  BY Turn
<1>. QED BY <1>1, <1>2, HeadOK DEF FrameOK, Publishing

LEMMA FailTaskType == ASSUME TypeInv, NEW h \in Handler, FailTask(h) PROVE TypeInv'
<1>1. At(h, "fail") /\ Go(h, "work", Rest(frame[h])) /\ UNCHANGED <<agent, outcome, mail>>
  BY DEF FailTask
<1>2. task' \in [Task -> [status : TaskStatus, attempted : SUBSET Agent]]
  <2>1. task' = [task EXCEPT ![Head(frame[h].todo).task].status = FAILED]
    BY DEF FailTask
  <2>. QED BY <2>1, StatusesOK, TaskWritten DEF TypeInv
<1>. QED BY <1>1, <1>2, AtItem, RestType

\* A document is made.
Made(o, d) == outcome' = [outcome EXCEPT ![o] = d]

LEMMA MadeOK ==
    ASSUME DocumentsOK, NEW o \in Outcome, FreeOutcome(o), NEW d, d \in Document, Made(o, d)
    PROVE  outcome' \in [Outcome -> Document] /\ Grown(outcome, outcome') /\ outcome'[o] = d
<1>1. outcome[o].task = 0
  BY DEF FreeOutcome, Existing
<1>. QED BY <1>1 DEF Made, DocumentsOK, Grown

LEMMA ErrorOutcomeType == ASSUME TypeInv, NEW h \in Handler, ErrorOutcome(h) PROVE TypeInv'
<1>. DEFINE t == Head(frame[h].todo).task
            d == [NoOutcome EXCEPT !.task = t, !.status = FAILED]
<1>1. /\ At(h, "errorOutcome") /\ Go(h, "work", Rest(frame[h])) /\ UNCHANGED <<agent, task, mail>>
  BY DEF ErrorOutcome
<1>2. PICK o \in Outcome : FreeOutcome(o) /\ Made(o, d)
  BY DEF ErrorOutcome, Made
<1>3. t \in Task
  BY <1>1, AtItem DEF ItemOK, NaturalTask
<1>4. d \in Document
  BY <1>3, StatusesOK DEF Document, NoOutcome
<1>. HIDE DEF d
<1>5. outcome' \in [Outcome -> Document] /\ Grown(outcome, outcome')
  BY <1>2, <1>4, MadeOK DEF TypeInv
<1>6. Lands(outcome', "work", Rest(frame[h]))
  <2>1. FrameOK(outcome', pc[h], frame[h]) /\ pc[h] # "idle"
    BY <1>1, <1>5, Turn, AtItem, FrameKeeps
  <2>. QED BY <2>1, RestOK
<1>7. HandlersOK' /\ MailOK'
  BY <1>1, <1>5, <1>6, GoOK, MailStays DEF TypeInv
<1>. QED BY <1>1, <1>5, <1>7 DEF TypeInv, DocumentsOK

\* A frame of a handler that publishes, with other targets.
LEMMA AimOK ==
    ASSUME NEW outs, NEW p, NEW f, FrameOK(outs, p, f), p \in {"route", "assign", "published", "create", "send"},
           NEW q \in {"wait", "assign", "published", "create"}, NEW A, A \subseteq Agent
    PROVE  FrameOK(outs, q, [f EXCEPT !.targets = A])
<1>. DEFINE g == [f EXCEPT !.targets = A]
<1>1. g \in Frame
  BY DEF FrameOK, Frame
<1>2. /\ g.todo = f.todo /\ g.task = f.task /\ g.requeue = f.requeue /\ g.outcome = f.outcome
      /\ g.cancel = f.cancel
  BY DEF FrameOK, Frame
<1>3. f.todo # <<>> /\ f.task \in Task /\ TodoOK(outs, f.todo) /\ \A o \in f.cancel : outs[o].task # 0
  BY DEF FrameOK, Steps, Publishing
<1>4. f.requeue # NoAgent => IsOf(outs, f.outcome, f.task) /\ Target[f.task] # "single"
  BY DEF FrameOK
<1>5. q \in Steps /\ q \in Publishing /\ q \notin {"idle", "claim", "resend", "send"}
  BY DEF Steps, Publishing
<1>. HIDE DEF g
<1>6. FrameOK(outs, q, g)
  BY <1>1, <1>2, <1>3, <1>4, <1>5 DEF FrameOK
<1>. QED BY <1>6 DEF g

\* Whoever publishes may wait, resend, or go on with the same locals.
LEMMA OnwardOK ==
    ASSUME NEW outs, NEW p, NEW f, FrameOK(outs, p, f), p \in Publishing,
           NEW q \in {"wait", "published", "create", "requeued"}
    PROVE  FrameOK(outs, q, f)
BY DEF FrameOK, Steps, Publishing

LEMMA CandidatesOK ==
    ASSUME NEW f, f \in Frame
    PROVE  Candidates(f) \subseteq Agent /\ (f.requeue # NoAgent => Candidates(f) \subseteq {f.requeue})
BY DEF Candidates

LEMMA GetTaskRoutesType == ASSUME TypeInv, NEW h \in Handler, GetTaskRoutes(h) PROVE TypeInv'
<1>. DEFINE f == frame[h]
            to == Candidates(f)
            aim(A) == [f EXCEPT !.targets = A]
<1>1. FrameOK(outcome, pc[h], f) /\ pc[h] = "route"
  BY Turn DEF GetTaskRoutes
<1>2. to \subseteq Agent /\ (f.requeue # NoAgent => to \subseteq {f.requeue})
  BY <1>1, CandidatesOK DEF FrameOK
<1>3. \/ Go(h, "wait", f)
      \/ to # {} /\ f.requeue # NoAgent /\ Go(h, "resend", f)
      \/ Go(h, "published", aim(to))
      \/ \E a \in to : Go(h, "assign", aim({a}))
  BY DEF GetTaskRoutes
<1>4. UNCHANGED <<docs, mail>>
  BY DEF GetTaskRoutes
<1>5. UNCHANGED <<agent, outcome, mail>> /\ task' \in [Task -> [status : TaskStatus, attempted : SUBSET Agent]]
  BY <1>4, TaskStays DEF docs
<1>6. FrameOK(outcome, "wait", f)
  BY <1>1, OnwardOK DEF Publishing, Steps
<1>7. to # {} /\ f.requeue # NoAgent => FrameOK(outcome, "resend", f)
  <2>1. to # {} /\ f.requeue # NoAgent => f.requeue \in Agent
    BY <1>2
  <2>. QED BY <1>1, <2>1 DEF FrameOK, Steps, Publishing
<1>8. FrameOK(outcome, "published", aim(to))
  BY <1>1, <1>2, AimOK
<1>9. ASSUME NEW a \in to PROVE FrameOK(outcome, "assign", aim({a}))
  BY <1>1, <1>2, AimOK
<1>. HIDE DEF f, to, aim
<1>. QED BY <1>3, <1>5, <1>6, <1>7, <1>8, <1>9, StepType DEF Lands

LEMMA WaitForAgentType == ASSUME TypeInv, NEW h \in Handler, WaitForAgent(h) PROVE TypeInv'
<1>1. /\ pc[h] # "idle" /\ Go(h, "work", Rest(frame[h])) /\ UNCHANGED <<agent, outcome, mail>>
      /\ task' = [task EXCEPT ![frame[h].task].status = WAITING_FOR_AGENT]
  BY DEF WaitForAgent
<1>2. task' \in [Task -> [status : TaskStatus, attempted : SUBSET Agent]]
  BY <1>1, StatusesOK, TaskWritten DEF TypeInv
<1>. QED BY <1>1, <1>2, RestType

LEMMA AssignAgentType == ASSUME TypeInv, NEW h \in Handler, AssignAgent(h) PROVE TypeInv'
<1>. DEFINE f == frame[h]
            tried == task[f.task].attempted \cup f.targets
<1>1. FrameOK(outcome, pc[h], f) /\ pc[h] = "assign"
  BY Turn DEF AssignAgent
<1>2. /\ Go(h, "published", f) /\ UNCHANGED <<agent, outcome, mail>>
      /\ task' = [task EXCEPT ![f.task].attempted = tried]
  BY DEF AssignAgent
<1>3. tried \subseteq Agent
  <2>1. f.task \in Task /\ f.targets \subseteq Agent
    BY <1>1 DEF FrameOK, Frame, Publishing, Steps
  <2>. QED BY <2>1 DEF TypeInv, DocumentsOK
<1>4. FrameOK(outcome, "published", f)
  BY <1>1, OnwardOK DEF Publishing, Steps
<1>. HIDE DEF f, tried
<1>5. task' \in [Task -> [status : TaskStatus, attempted : SUBSET Agent]]
  BY <1>2, <1>3, AttemptedWritten DEF TypeInv
<1>. QED BY <1>2, <1>4, <1>5, StepType DEF Lands

LEMMA SetPublishedType == ASSUME TypeInv, NEW h \in Handler, SetPublished(h) PROVE TypeInv'
<1>. DEFINE f == frame[h]
<1>1. FrameOK(outcome, pc[h], f) /\ pc[h] = "published" /\ UNCHANGED <<agent, outcome, queue, dead, run>>
  BY Turn DEF SetPublished
<1>2. CASE task' = [task EXCEPT ![f.task].status = PUBLISHED] /\ Go(h, "create", f) /\ UNCHANGED errors
  <2>1. FrameOK(outcome, "create", f)
    BY <1>1, OnwardOK DEF Publishing, Steps
  <2>2. task' \in [Task -> [status : TaskStatus, attempted : SUBSET Agent]]
    BY <1>2, StatusesOK, TaskWritten DEF TypeInv
  <2>. HIDE DEF f
  <2>. QED BY <1>1, <1>2, <2>1, <2>2, StepType DEF Lands, mail
<1>3. CASE errors' = errors \cup {f.task} /\ Go(h, "work", Rest(f)) /\ UNCHANGED task
  <2>1. f.task \in Task
    BY <1>1 DEF FrameOK, Publishing, Steps
  <2>2. Lands(outcome', "work", Rest(f))
    BY <1>1, RestOK
  <2>. HIDE DEF f
  <2>3. HandlersOK'
    BY <1>1, <1>3, <2>2, Same, GoOK DEF TypeInv
  <2>4. MailOK'
    BY <1>1, <1>3, <2>1 DEF TypeInv, MailOK
  <2>. QED BY <1>1, <1>3, <2>3, <2>4 DEF TypeInv, DocumentsOK
<1>. QED BY <1>2, <1>3 DEF SetPublished

LEMMA CreateOutcomeType == ASSUME TypeInv, NEW h \in Handler, CreateOutcome(h) PROVE TypeInv'
<1>. DEFINE f == frame[h]
            d(a) == [NoOutcome EXCEPT !.task = f.task, !.agent = a, !.status = PUBLISHED]
            g(o) == [f EXCEPT !.outcome = o]
<1>1. FrameOK(outcome, pc[h], f) /\ pc[h] = "create" /\ UNCHANGED <<agent, task, mail>>
  BY Turn DEF CreateOutcome
<1>2. PICK a \in f.targets, o \in Outcome : FreeOutcome(o) /\ Made(o, d(a)) /\ Go(h, "send", g(o))
  BY DEF CreateOutcome, Made
<1>3. f.task \in Task /\ f \in Frame /\ a \in Agent /\ f.todo # <<>>
  BY <1>1 DEF FrameOK, Frame, Publishing, Steps
<1>4. d(a) \in Document /\ d(a).task = f.task /\ d(a).agent = a
  BY <1>3, StatusesOK DEF Document, NoOutcome
<1>5. outcome' \in [Outcome -> Document] /\ Grown(outcome, outcome') /\ outcome'[o] = d(a)
  BY <1>2, <1>4, MadeOK DEF TypeInv
<1>6. FrameOK(outcome', "create", f)
  BY <1>1, <1>5, FrameKeeps
<1>7. g(o) \in Frame
  BY <1>3 DEF Frame
<1>8. /\ g(o).todo = f.todo /\ g(o).task = f.task /\ g(o).requeue = f.requeue /\ g(o).outcome = o
      /\ g(o).cancel = f.cancel /\ g(o).targets = f.targets
  BY <1>3 DEF Frame
<1>9. IsOf(outcome', o, f.task) /\ outcome'[o].agent \in f.targets
  BY <1>2, <1>3, <1>4, <1>5 DEF IsOf
<1>. HIDE DEF f, d, g
<1>10. TodoOK(outcome', f.todo) /\ \A p \in f.cancel : outcome'[p].task # 0
  BY <1>6 DEF FrameOK
<1>11. f.requeue # NoAgent => Target[f.task] # "single"
  BY <1>6 DEF FrameOK
<1>12. "send" \in Steps /\ "send" \in Publishing
  BY DEF Steps, Publishing
<1>13. FrameOK(outcome', "send", g(o))
  BY <1>3, <1>7, <1>8, <1>9, <1>10, <1>11, <1>12 DEF FrameOK
<1>14. HandlersOK' /\ MailOK'
  BY <1>1, <1>2, <1>5, <1>13, GoOK, MailStays DEF TypeInv, Lands
<1>. QED BY <1>1, <1>5, <1>14 DEF TypeInv, DocumentsOK

\* One message more.
LEMMA SentOK ==
    ASSUME MailOK, UNCHANGED <<outcome, dead, errors, run>>, NEW m, queue' = queue \cup {m}, MessageOK(outcome, m)
    PROVE  MailOK'
BY DEF MailOK

LEMMA SendTaskType == ASSUME TypeInv, NEW h \in Handler, SendTask(h) PROVE TypeInv'
<1>. DEFINE f == frame[h]
            a == outcome[f.outcome].agent
            left == f.targets \ {a}
            m == [task |-> f.task, outcome |-> f.outcome, agent |-> a]
<1>1. FrameOK(outcome, pc[h], f) /\ pc[h] = "send" /\ UNCHANGED <<docs, dead, errors, run>> /\ queue' = queue \cup {m}
  BY Turn DEF SendTask
<1>2. Go(h, "work", Rest(f)) \/ Go(h, "create", [f EXCEPT !.targets = left])
  BY DEF SendTask
<1>3. IsOf(outcome, f.outcome, f.task) /\ a \in f.targets /\ f.targets \subseteq Agent
  BY <1>1 DEF FrameOK, Frame
<1>4. MessageOK(outcome, m)
  BY <1>3 DEF MessageOK, Message, IsOf
<1>5. Lands(outcome, "work", Rest(f))
  BY <1>1, RestOK
<1>6. FrameOK(outcome, "create", [f EXCEPT !.targets = left])
  <2>1. left \subseteq Agent
    BY <1>3
  <2>. QED BY <1>1, <2>1, AimOK
<1>. DEFINE g == [f EXCEPT !.targets = left]
<1>7. Go(h, "work", Rest(f)) \/ Go(h, "create", g)
  BY <1>2
<1>8. Lands(outcome, "create", g)
  BY <1>6 DEF Lands
<1>. HIDE DEF f, m, g
<1>9. outcome' = outcome
  BY <1>1 DEF docs
<1>10. HandlersOK'
  BY <1>5, <1>7, <1>8, <1>9, Same, GoOK DEF TypeInv
<1>11. MailOK'
  BY <1>1, <1>4, <1>9, SentOK DEF TypeInv
<1>. QED BY <1>1, <1>10, <1>11 DEF TypeInv, DocumentsOK, docs

\* A task goes to a handler that publishes it.
LEMMA TakenOK ==
    ASSUME NEW outs, NEW p, NEW f, FrameOK(outs, p, f), p \in {"work", "claim"},
           NEW t \in Task, NEW A, A \subseteq Agent
    PROVE  FrameOK(outs, "route", [f EXCEPT !.task = t, !.tried = A])
<1>. DEFINE g == [f EXCEPT !.task = t, !.tried = A]
<1>1. g \in Frame
  BY DEF FrameOK, Frame
<1>2. /\ g.todo = f.todo /\ g.task = t /\ g.requeue = f.requeue /\ g.outcome = f.outcome
      /\ g.cancel = f.cancel
  BY DEF FrameOK, Frame
<1>3. f.todo # <<>> /\ f.requeue = NoAgent /\ TodoOK(outs, f.todo) /\ \A o \in f.cancel : outs[o].task # 0
  BY DEF FrameOK, Publishing
<1>4. "route" \in Steps /\ "route" \in Publishing
  BY DEF Steps, Publishing
<1>. HIDE DEF g
<1>5. FrameOK(outs, "route", g)
  BY <1>1, <1>2, <1>3, <1>4 DEF FrameOK
<1>. QED BY <1>5 DEF g

LEMMA RepublishTaskType == ASSUME TypeInv, NEW h \in Handler, RepublishTask(h) PROVE TypeInv'
<1>. DEFINE f == frame[h]
            t == Head(f.todo).task
            g == [f EXCEPT !.task = t, !.tried = task[t].attempted]
<1>1. At(h, "republish") /\ UNCHANGED <<agent, outcome, mail>>
  BY DEF RepublishTask
<1>2. FrameOK(outcome, pc[h], f) /\ pc[h] = "work"
  BY <1>1, Turn, AtItem
<1>3. t \in Task
  BY <1>1, AtItem DEF ItemOK, NaturalTask
<1>4. FrameOK(outcome, "route", g)
  <2>1. task[t].attempted \subseteq Agent
    BY <1>3 DEF TypeInv, DocumentsOK
  <2>. QED BY <1>2, <1>3, <2>1, TakenOK
<1>5. \/ task' = [task EXCEPT ![t].status = NOT_STARTED] /\ Go(h, "route", g)
      \/ Go(h, "work", Rest(f)) /\ UNCHANGED task
  BY DEF RepublishTask
<1>6. task' \in [Task -> [status : TaskStatus, attempted : SUBSET Agent]]
  BY <1>5, StatusesOK, TaskWritten, TaskStays DEF TypeInv
<1>7. Lands(outcome, "work", Rest(f)) /\ Lands(outcome, "route", g)
  BY <1>2, <1>4, RestOK DEF Lands
<1>. HIDE DEF f, t, g
<1>. QED BY <1>1, <1>5, <1>6, <1>7, StepType

LEMMA RequeueTaskType == ASSUME TypeInv, NEW h \in Handler, RequeueTask(h) PROVE TypeInv'
<1>. DEFINE f == frame[h]
            i == Head(f.todo)
            g == [f EXCEPT !.task = i.task, !.requeue = i.agent, !.outcome = i.outcome]
<1>1. At(h, "requeue") /\ UNCHANGED <<agent, outcome, mail>>
  BY DEF RequeueTask
<1>2. FrameOK(outcome, pc[h], f) /\ pc[h] = "work"
  BY <1>1, Turn, AtItem
<1>3. i.task \in Task /\ i.agent \in Agent /\ IsOf(outcome, i.outcome, i.task) /\ Target[i.task] # "single"
  BY <1>1, AtItem DEF ItemOK, NaturalTask, NaturalAgent
<1>4. FrameOK(outcome, "route", g)
  <2>1. g \in Frame
    BY <1>2, <1>3 DEF FrameOK, Frame, IsOf
  <2>2. /\ g.todo = f.todo /\ g.task = i.task /\ g.requeue = i.agent /\ g.outcome = i.outcome
        /\ g.cancel = f.cancel
    BY <1>2 DEF FrameOK, Frame
  <2>3. f.todo # <<>> /\ TodoOK(outcome, f.todo) /\ \A o \in f.cancel : outcome[o].task # 0
    BY <1>2 DEF FrameOK
  <2>4. "route" \in Steps /\ "route" \in Publishing
    BY DEF Steps, Publishing
  <2>. HIDE DEF g, i
  <2>. QED BY <1>3, <2>1, <2>2, <2>3, <2>4 DEF FrameOK
<1>5. \/ task' = [task EXCEPT ![i.task].status = NULL] /\ Go(h, "route", g)
      \/ Go(h, "work", Rest(f)) /\ UNCHANGED task
  BY DEF RequeueTask
<1>6. task' \in [Task -> [status : TaskStatus, attempted : SUBSET Agent]]
  BY <1>5, StatusesOK, TaskWritten, TaskStays DEF TypeInv
<1>7. Lands(outcome, "work", Rest(f)) /\ Lands(outcome, "route", g)
  BY <1>2, <1>4, RestOK DEF Lands
<1>. HIDE DEF f, i, g
<1>. QED BY <1>1, <1>5, <1>6, <1>7, StepType

LEMMA ResendType == ASSUME TypeInv, NEW h \in Handler, Resend(h) PROVE TypeInv'
<1>. DEFINE f == frame[h]
            m == [task |-> f.task, outcome |-> f.outcome, agent |-> f.requeue]
<1>1. /\ FrameOK(outcome, pc[h], f) /\ pc[h] = "resend" /\ UNCHANGED <<docs, dead, errors, run>>
      /\ queue' = queue \cup {m} /\ Go(h, "requeued", f)
  BY Turn DEF Resend
<1>2. f.requeue \in Agent
  BY <1>1 DEF FrameOK
<1>3. IsOf(outcome, f.outcome, f.task)
  BY <1>1, <1>2 DEF FrameOK
<1>4. MessageOK(outcome, m)
  BY <1>2, <1>3 DEF MessageOK, Message, IsOf
<1>5. FrameOK(outcome, "requeued", f)
  BY <1>1, OnwardOK DEF Publishing, Steps
<1>. HIDE DEF f, m
<1>6. outcome' = outcome
  BY <1>1 DEF docs
<1>7. HandlersOK'
  BY <1>1, <1>5, <1>6, Same, GoOK DEF TypeInv, Lands
<1>8. MailOK'
  BY <1>1, <1>4, <1>6, SentOK DEF TypeInv
<1>. QED BY <1>1, <1>7, <1>8 DEF TypeInv, DocumentsOK, docs

LEMMA RequeuedType == ASSUME TypeInv, NEW h \in Handler, Requeued(h) PROVE TypeInv'
<1>1. /\ pc[h] # "idle" /\ Go(h, "work", Rest(frame[h])) /\ UNCHANGED <<agent, outcome, mail>>
      /\ task' = [task EXCEPT ![frame[h].task].status = PUBLISHED]
  BY DEF Requeued
<1>2. task' \in [Task -> [status : TaskStatus, attempted : SUBSET Agent]]
  BY <1>1, StatusesOK, TaskWritten DEF TypeInv
<1>. QED BY <1>1, <1>2, RestType

\* A handler goes on with the next item and others before it, having written nothing.
LEMMA ThenType ==
    ASSUME TypeInv, NEW h \in Handler, pc[h] # "idle", NEW items, TodoOK(outcome, items),
           Go(h, "work", Then(frame[h], items)), UNCHANGED <<docs, mail>>
    PROVE  TypeInv'
<1>1. FrameOK(outcome, pc[h], frame[h])
  BY Turn
<1>2. Lands(outcome, "work", Then(frame[h], items))
  BY <1>1, ThenOK
<1>3. UNCHANGED <<agent, outcome, mail>> /\ task' \in [Task -> [status : TaskStatus, attempted : SUBSET Agent]]
  BY TaskStays DEF docs
<1>. QED BY <1>2, <1>3, StepType

LEMMA HeartbeatType == ASSUME TypeInv, NEW h \in Handler, NEW a \in Agent, Heartbeat(h, a) PROVE TypeInv'
<1>. DEFINE items == <<Item("lost", 0, a, 0)>> \o Welcome(a) \o <<Item("answer", 0, a, 0)>>
<1>1. /\ Start(h, items) \/ UNCHANGED <<pc, frame>>
      /\ agent' = [agent EXCEPT ![a] = [offline |-> FALSE, beat |-> "fresh"]]
      /\ UNCHANGED <<task, outcome, mail>>
  BY DEF Heartbeat
<1>2. TodoOK(outcome', items) /\ items # <<>>
  <2>1. TodoOK(outcome', <<Item("lost", 0, a, 0)>>) /\ TodoOK(outcome', Welcome(a)) /\ TodoOK(outcome', <<Item("answer", 0, a, 0)>>)
    BY Items, TodoOne, TodoTwo DEF Welcome
  <2>2. TodoOK(outcome', <<Item("lost", 0, a, 0)>> \o Welcome(a))
    BY <2>1, TodoJoin
  <2>3. TodoOK(outcome', items)
    BY <2>1, <2>2, TodoJoin
  <2>4. items # <<>>
    <3>1. \A i, j, k, l : <<i>> \o <<j, k>> \o <<l>> # <<>>
      OBVIOUS
    <3>. QED BY <3>1 DEF Welcome
  <2>. QED BY <2>3, <2>4
<1>. HIDE DEF items
<1>3. HandlersOK'
  BY <1>1, <1>2, Same, StartOK, StayOK DEF TypeInv
<1>4. agent' \in [Agent -> [offline : BOOLEAN, beat : Age]]
  BY <1>1 DEF TypeInv, DocumentsOK, Age
<1>. QED BY <1>1, <1>3, <1>4, TaskStays, QuietType

LEMMA ListLostType == ASSUME TypeInv, NEW h \in Handler, ListLost(h) PROVE TypeInv'
<1>. DEFINE f == frame[h]
            lost == {o \in Existing : /\ outcome[o].agent = Head(f.todo).agent
                                      /\ outcome[o].status = CANCELLED /\ outcome[o].crashed}
            s == Tail(f.todo)
            g == [Rest(f) EXCEPT !.cancel = lost]
<1>1. At(h, "lost") /\ Go(h, "work", g) /\ UNCHANGED <<docs, mail>>
  BY DEF ListLost
<1>2. FrameOK(outcome, pc[h], f) /\ pc[h] = "work"
  BY <1>1, Turn, AtItem
<1>3. TodoOK(outcome, s) /\ s \in Seq(AnyItem)
  BY <1>2, HeadOK DEF TodoOK
<1>4. lost \subseteq Outcome /\ \A o \in lost : outcome[o].task # 0
  BY DEF Existing
<1>. HIDE DEF s, lost
<1>5. g = [EmptyFrame EXCEPT !.todo = s, !.cancel = lost]
  BY DEF Rest, EmptyFrame, s
<1>6. Lands(outcome, "work", g)
  BY <1>3, <1>4, <1>5 DEF Lands, FrameOK, EmptyFrame, Frame, Steps, Publishing
<1>. HIDE DEF g
<1>7. UNCHANGED <<agent, outcome, mail>> /\ task' \in [Task -> [status : TaskStatus, attempted : SUBSET Agent]]
  BY <1>1, TaskStays DEF docs
<1>. QED BY <1>1, <1>6, <1>7, StepType

LEMMA AnswerType == ASSUME TypeInv, NEW h \in Handler, Answer(h) PROVE TypeInv'
<1>1. /\ At(h, "answer") /\ run' = run \ frame[h].cancel /\ Go(h, "work", Rest(frame[h]))
      /\ UNCHANGED <<docs, queue, dead, errors>>
  BY DEF Answer
<1>2. Lands(outcome', "work", Rest(frame[h]))
  <2>1. FrameOK(outcome', pc[h], frame[h]) /\ pc[h] # "idle"
    BY <1>1, Turn, AtItem DEF docs
  <2>. QED BY <2>1, RestOK
<1>3. HandlersOK'
  BY <1>1, <1>2, Same, GoOK DEF TypeInv, docs
<1>4. MailOK'
  BY <1>1 DEF TypeInv, MailOK, docs
<1>. QED BY <1>1, <1>3, <1>4 DEF TypeInv, DocumentsOK, docs

\* A listing names members only.
LEMMA ListingsOK ==
    ASSUME NEW S, IsFiniteSet(S), NEW s \in Listings(S)
    PROVE  Cardinality(S) \in Nat /\ s \in [1..Cardinality(S) -> S]
BY FS_CardinalityType DEF Listings

\* The items made of a listing.
LEMMA ListedOK ==
    ASSUME NEW outs, NEW n \in Nat, NEW s, DOMAIN s = 1..n, s = [k \in DOMAIN s |-> s[k]],
           \A k \in 1..n : ItemOK(outs, s[k])
    PROVE  TodoOK(outs, s)
<1>1. \A k \in 1..n : s[k] \in AnyItem
  BY DEF ItemOK
<1>2. s \in [1..n -> AnyItem]
  BY <1>1
<1>3. s \in Seq(AnyItem)
  BY <1>2
<1>. QED BY <1>3 DEF TodoOK

LEMMA ListWaitingType == ASSUME TypeInv, NEW h \in Handler, ListWaiting(h) PROVE TypeInv'
<1>. DEFINE f == frame[h]
            a == Head(f.todo).agent
            S == {t \in Task : task[t].status = WAITING_FOR_AGENT}
            pulls(s) == [k \in DOMAIN s |-> Item("pull", s[k], a, 0)]
<1>1. At(h, "list") /\ UNCHANGED <<docs, mail>>
  BY DEF ListWaiting
<1>2. PICK s \in Listings(S) : Go(h, "work", Then(f, pulls(s)))
  BY DEF ListWaiting
<1>3. a \in Agent \cup {NoAgent}
  BY <1>1, AtItem DEF ItemOK, AnyItem
<1>4. IsFiniteSet(S)
  BY FS_Subset
<1>5. Cardinality(S) \in Nat /\ s \in [1..Cardinality(S) -> Task]
  <2>1. S \subseteq Task
    OBVIOUS
  <2>. HIDE DEF S
  <2>2. Cardinality(S) \in Nat /\ s \in [1..Cardinality(S) -> S]
    BY <1>4, ListingsOK
  <2>. QED BY <2>1, <2>2
<1>. HIDE DEF S, a
<1>6. DOMAIN pulls(s) = 1..Cardinality(S) /\ \A k \in 1..Cardinality(S) : ItemOK(outcome, pulls(s)[k])
  BY <1>3, <1>5, Items
<1>7. TodoOK(outcome, pulls(s))
  <2>1. pulls(s) = [k \in DOMAIN pulls(s) |-> pulls(s)[k]]
    OBVIOUS
  <2>. HIDE DEF pulls
  <2>. QED BY <1>5, <1>6, <2>1, ListedOK
<1>. HIDE DEF pulls
<1>. QED BY <1>1, <1>2, <1>7, AtItem, ThenType

LEMMA LookAgainType == ASSUME TypeInv, NEW h \in Handler, LookAgain(h) PROVE TypeInv'
<1>. DEFINE f == frame[h]
            items == <<Item("list", 0, Head(f.todo).agent, 0)>>
<1>1. At(h, "again") /\ UNCHANGED <<docs, mail>>
  BY DEF LookAgain
<1>2. Go(h, "work", Then(f, items)) \/ Go(h, "work", Rest(f))
  <2>. DEFINE pending == \E t \in Task : task[t].status \in {NOT_STARTED, WAITING_FOR_AGENT}
  <2>1. Go(h, "work", IF pending THEN Then(f, items) ELSE Rest(f))
    BY DEF LookAgain
  <2>. HIDE DEF pending
  <2>. QED BY <2>1
<1>3. Head(f.todo).agent \in Agent
  BY <1>1, AtItem DEF ItemOK, NaturalAgent
<1>4. TodoOK(outcome, items)
  BY <1>3, Items, TodoOne
<1>. HIDE DEF items
<1>5. UNCHANGED <<agent, outcome, mail>> /\ task' \in [Task -> [status : TaskStatus, attempted : SUBSET Agent]]
  BY <1>1, TaskStays DEF docs
<1>. QED BY <1>1, <1>2, <1>4, <1>5, AtItem, ThenType, RestType

LEMMA PullAgentType == ASSUME TypeInv, NEW h \in Handler, PullAgent(h) PROVE TypeInv'
<1>. DEFINE f == frame[h]
            i == Head(f.todo)
            left == IF i.agent = NoAgent THEN {} ELSE task[i.task].attempted \ {i.agent}
<1>1. At(h, "pull") /\ UNCHANGED <<agent, outcome, mail>> /\ task' = [task EXCEPT ![i.task].attempted = left]
  BY DEF PullAgent
<1>2. Go(h, "claim", f) \/ Go(h, "work", Rest(f))
  BY DEF PullAgent
<1>3. FrameOK(outcome, pc[h], f) /\ pc[h] = "work" /\ i.do = "pull"
  BY <1>1, Turn, AtItem
<1>4. i.task \in Task
  BY <1>1, AtItem DEF ItemOK, NaturalTask
<1>5. left \subseteq Agent
  BY <1>4 DEF TypeInv, DocumentsOK
<1>6. Lands(outcome, "claim", f) /\ Lands(outcome, "work", Rest(f))
  <2>1. FrameOK(outcome, "claim", f)
    BY <1>3 DEF FrameOK, Steps, Publishing
  <2>. QED BY <1>3, <2>1, RestOK DEF Lands
<1>. HIDE DEF f, i, left
<1>7. task' \in [Task -> [status : TaskStatus, attempted : SUBSET Agent]]
  BY <1>1, <1>5, AttemptedWritten DEF TypeInv
<1>. QED BY <1>1, <1>2, <1>6, <1>7, StepType

LEMMA ThrowOK ==
    ASSUME TypeInv, NEW h \in Handler, pc[h] # "idle", Throw(h, frame[h]),
           UNCHANGED <<agent, task, outcome, mail>>
    PROVE  TypeInv'
<1>. DEFINE f == frame[h]
            s(i) == SubSeq(f.todo, i + 1, Len(f.todo))
            g(i) == [Rest(f) EXCEPT !.todo = s(i)]
<1>1. FrameOK(outcome, pc[h], f)
  BY Turn
<1>2. \/ Go(h, "idle", f)
      \/ \E i \in 2..Len(f.todo) : Go(h, "work", g(i))
  BY DEF Throw
<1>3. ASSUME NEW i \in 2..Len(f.todo) PROVE Lands(outcome, "work", g(i))
  <2>1. TodoOK(outcome, f.todo) /\ Len(f.todo) \in Nat /\ i \in 1..Len(f.todo) /\ f.cancel \subseteq Outcome
    <3>1. f.todo \in Seq(AnyItem) /\ TodoOK(outcome, f.todo) /\ f.cancel \subseteq Outcome
      BY <1>1 DEF FrameOK, TodoOK, Frame
    <3>2. Len(f.todo) \in Nat
      BY <3>1, LenProperties
    <3>. QED BY <3>1, <3>2
  <2>2. TodoOK(outcome, s(i))
    BY <2>1, TodoRest
  <2>3. s(i) \in Seq(AnyItem)
    BY <2>2 DEF TodoOK
  <2>4. \A o \in f.cancel : outcome[o].task # 0
    BY <1>1 DEF FrameOK
  <2>. HIDE DEF s
  <2>5. g(i) = [EmptyFrame EXCEPT !.todo = s(i), !.cancel = f.cancel]
    BY DEF Rest, EmptyFrame
  <2>. QED BY <2>1, <2>2, <2>3, <2>4, <2>5 DEF Lands, FrameOK, EmptyFrame, Frame, Steps, Publishing
<1>. HIDE DEF g
<1>4. task' \in [Task -> [status : TaskStatus, attempted : SUBSET Agent]]
  BY TaskStays
<1>5. CASE Go(h, "idle", f)
  <2>1. Lands(outcome, "idle", f)
    BY DEF Lands
  <2>. HIDE DEF f
  <2>. QED BY <1>4, <1>5, <2>1, StepType
<1>6. ASSUME NEW i \in 2..Len(f.todo), Go(h, "work", g(i)) PROVE TypeInv'
  BY <1>3, <1>4, <1>6, StepType
<1>. QED BY <1>2, <1>5, <1>6

LEMMA ClaimTaskType == ASSUME TypeInv, NEW h \in Handler, ClaimTask(h) PROVE TypeInv'
<1>. DEFINE f == frame[h]
            t == Head(f.todo).task
            g == [f EXCEPT !.task = t, !.tried = task[t].attempted]
<1>1. pc[h] = "claim" /\ pc[h] # "idle" /\ UNCHANGED <<agent, outcome, mail>>
  BY DEF ClaimTask
<1>2. FrameOK(outcome, pc[h], f)
  BY Turn
<1>3. t \in Task
  <2>1. Head(f.todo).do = "pull"
    BY <1>1, <1>2 DEF FrameOK
  <2>. QED BY <1>1, <1>2, <2>1, HeadOK DEF ItemOK, NaturalTask
<1>4. Lands(outcome, "route", g)
  <2>1. task[t].attempted \subseteq Agent
    BY <1>3 DEF TypeInv, DocumentsOK
  <2>. QED BY <1>1, <1>2, <1>3, <2>1, TakenOK DEF Lands
<1>5. \/ task' = [task EXCEPT ![t].status = NOT_STARTED] /\ Go(h, "route", g)
      \/ Throw(h, f) /\ UNCHANGED task
  BY DEF ClaimTask
<1>. HIDE DEF t, g
<1>6. CASE task' = [task EXCEPT ![t].status = NOT_STARTED] /\ Go(h, "route", g)
  <2>1. task' \in [Task -> [status : TaskStatus, attempted : SUBSET Agent]]
    BY <1>6, StatusesOK, TaskWritten DEF TypeInv
  <2>. QED BY <1>1, <1>4, <1>6, <2>1, StepType
<1>7. CASE Throw(h, f) /\ UNCHANGED task
  BY <1>1, <1>7, ThrowOK
<1>. QED BY <1>5, <1>6, <1>7

LEMMA OrphansAskedType ==
    ASSUME TypeInv, NEW h \in Handler, NEW a \in Agent, ProcessOrphanedTasks(h, a)
    PROVE  TypeInv'
<1>. DEFINE items == <<Item("orphans", 0, a, 0)>>
<1>1. Start(h, items) /\ UNCHANGED <<docs, mail>>
  BY DEF ProcessOrphanedTasks
<1>2. TodoOK(outcome', items) /\ items # <<>>
  BY Items, TodoOne
<1>. HIDE DEF items
<1>3. HandlersOK'
  BY <1>1, <1>2, Same, StartOK DEF TypeInv, docs
<1>. QED BY <1>1, <1>3, QuietType DEF TypeInv, DocumentsOK, docs

LEMMA ListOrphansType == ASSUME TypeInv, NEW h \in Handler, ListOrphans(h) PROVE TypeInv'
<1>. DEFINE f == frame[h]
            a == Head(f.todo).agent
            S == {o \in Existing : outcome[o].agent = a /\ outcome[o].status < SUCCEEDED}
            orphans(s) == [k \in DOMAIN s |-> Item("orphan", outcome[s[k]].task, a, s[k])]
            last == <<Item("offline", 0, a, 0)>>
<1>1. At(h, "orphans") /\ UNCHANGED <<docs, mail>>
  BY DEF ListOrphans
<1>2. PICK s \in Listings(S) : Go(h, "work", Then(f, orphans(s) \o last))
  BY DEF ListOrphans
<1>3. a \in Agent
  BY <1>1, AtItem DEF ItemOK, NaturalAgent
<1>4. S \subseteq Outcome /\ S \subseteq Existing
  BY DEF Existing
<1>5. IsFiniteSet(S)
  BY <1>4, FS_Subset
<1>. HIDE DEF S, a
<1>6. Cardinality(S) \in Nat /\ s \in [1..Cardinality(S) -> S]
  BY <1>5, ListingsOK
<1>7. \A k \in 1..Cardinality(S) : s[k] \in Outcome /\ outcome[s[k]].task \in Task
  BY <1>4, <1>6 DEF TypeInv, DocumentsOK, Document, Existing
<1>8. DOMAIN orphans(s) = 1..Cardinality(S) /\ \A k \in 1..Cardinality(S) : ItemOK(outcome, orphans(s)[k])
  BY <1>3, <1>6, <1>7, Items, ZeroIsNoTask
<1>9. TodoOK(outcome, orphans(s))
  <2>1. orphans(s) = [k \in DOMAIN orphans(s) |-> orphans(s)[k]]
    OBVIOUS
  <2>. HIDE DEF orphans
  <2>. QED BY <1>6, <1>8, <2>1, ListedOK
<1>10. TodoOK(outcome, orphans(s) \o last)
  <2>1. TodoOK(outcome, last)
    BY <1>3, Items, TodoOne
  <2>. QED BY <1>9, <2>1, TodoJoin
<1>. HIDE DEF orphans, last
<1>. QED BY <1>1, <1>2, <1>10, AtItem, ThenType

LEMMA LeastExists == ASSUME NEW S \in SUBSET Nat, S # {} PROVE \E i \in S : IsFirst(i, S)
<1>. DEFINE R == {p \in Nat \X Nat : p[1] < p[2]}
<1>1. IsWellFoundedOn(R, Nat)
  BY NatLessThanWellFounded DEF OpToRel
<1>. HIDE DEF R
<1>2. PICK x \in S : \A y \in S : <<y, x>> \notin R
  BY <1>1, WFMin
<1>3. ASSUME NEW y \in S PROVE x <= y
  <2>1. x \in Nat /\ y \in Nat /\ <<y, x>> \in Nat \X Nat /\ <<y, x>> \notin R
    BY <1>2
  <2>2. ~ (y < x)
    BY <2>1 DEF R
  <2>. QED BY <2>1, <2>2
<1>. QED BY <1>3 DEF IsFirst

LEMMA RestartedOK == ASSUME NEW t \in Task PROVE Restarted(t) \in Task /\ IsFirst(Restarted(t), Task)
<1>1. Task \in SUBSET Nat /\ Task # {}
  OBVIOUS
<1>2. \E u \in Task : IsFirst(u, Task)
  BY <1>1, LeastExists
<1>. QED BY <1>2 DEF Restarted

\* What follows when a task of a lost agent has been reported.
Recovery(i) ==
    <<Item("list", 0, i.agent, 0)>>
    \o (IF i.task \in AutoRestart THEN <<Item("republish", Restarted(i.task), NoAgent, 0)>> ELSE <<>>)
    \o <<Catch>>

LEMMA RecoveryOK ==
    ASSUME NEW outs, NEW i, i.agent \in Agent, i.task \in Task
    PROVE  TodoOK(outs, Recovery(i))
<1>. DEFINE again == IF i.task \in AutoRestart THEN <<Item("republish", Restarted(i.task), NoAgent, 0)>> ELSE <<>>
<1>1. TodoOK(outs, <<Item("list", 0, i.agent, 0)>>) /\ TodoOK(outs, <<Catch>>)
  BY Items, TodoOne
<1>2. TodoOK(outs, again)
  <2>1. TodoOK(outs, <<Item("republish", Restarted(i.task), NoAgent, 0)>>)
    BY RestartedOK, Items, TodoOne
  <2>. QED BY <2>1, TodoNone
<1>. HIDE DEF again
<1>3. TodoOK(outs, <<Item("list", 0, i.agent, 0)>> \o again)
  BY <1>1, <1>2, TodoJoin
<1>4. TodoOK(outs, <<Item("list", 0, i.agent, 0)>> \o again \o <<Catch>>)
  BY <1>1, <1>3, TodoJoin
<1>. QED BY <1>4 DEF Recovery, again

\* The outcome of a task whose agent is lost.
Lost(o, s) == outcome' = [outcome EXCEPT ![o].status = s, ![o].crashed = TRUE]

LEMMA LostOK ==
    ASSUME DocumentsOK, NEW o \in Outcome, NEW s \in TaskStatus, Lost(o, s)
    PROVE  /\ outcome' \in [Outcome -> Document] /\ Grown(outcome, outcome')
           /\ \A p \in Outcome : outcome'[p].task = outcome[p].task
<1>. DEFINE d == [outcome[o] EXCEPT !.status = s, !.crashed = TRUE]
<1>1. d \in Document /\ d.task = outcome[o].task /\ d.agent = outcome[o].agent
  BY DEF DocumentsOK, Document
<1>2. outcome' = [outcome EXCEPT ![o] = d]
  BY DEF d, Lost, DocumentsOK, Document
<1>. HIDE DEF d
<1>. QED BY <1>1, <1>2 DEF DocumentsOK, Grown

LEMMA OrphanType == ASSUME TypeInv, NEW h \in Handler, Orphan(h) PROVE TypeInv'
<1>. DEFINE f == frame[h]
            i == Head(f.todo)
            s == IF i.task \in AutoRestart THEN CANCELLED ELSE INTERRUPTED
<1>1. At(h, "orphan") /\ UNCHANGED <<agent, task, mail>>
  BY DEF Orphan
<1>2. \/ Lost(i.outcome, s) /\ Go(h, "work", Then(f, Recovery(i)))
      \/ UNCHANGED outcome /\ Go(h, "work", Rest(f))
  BY DEF Orphan, Lost, Recovery
<1>3. i.task \in Task /\ i.agent \in Agent /\ i.outcome \in Outcome
  BY <1>1, AtItem DEF ItemOK, NaturalTask, NaturalAgent
<1>4. s \in TaskStatus
  BY StatusesOK
<1>. HIDE DEF i, s
<1>5. outcome' \in [Outcome -> Document] /\ Grown(outcome, outcome')
  BY <1>2, <1>3, <1>4, LostOK, Same DEF TypeInv, DocumentsOK
<1>6. FrameOK(outcome', pc[h], f) /\ pc[h] # "idle"
  BY <1>1, <1>5, AtItem, Turn, FrameKeeps
<1>7. Lands(outcome', "work", Then(f, Recovery(i))) /\ Lands(outcome', "work", Rest(f))
  BY <1>3, <1>6, RecoveryOK, ThenOK, RestOK
<1>. HIDE DEF f
<1>8. HandlersOK' /\ MailOK'
  BY <1>1, <1>2, <1>5, <1>7, GoOK, MailStays DEF TypeInv
<1>. QED BY <1>1, <1>5, <1>8 DEF TypeInv, DocumentsOK

LEMMA CatchType == ASSUME TypeInv, NEW h \in Handler, CatchItem(h) PROVE TypeInv'
<1>1. At(h, "catch") /\ Go(h, "work", Rest(frame[h])) /\ UNCHANGED <<agent, task, outcome, mail>>
  BY DEF CatchItem, docs
<1>. QED BY <1>1, AtItem, TaskStays, RestType

LEMMA SetOfflineType == ASSUME TypeInv, NEW h \in Handler, SetOffline(h) PROVE TypeInv'
<1>1. /\ At(h, "offline") /\ Go(h, "work", Rest(frame[h])) /\ UNCHANGED <<task, outcome, mail>>
      /\ agent' = [agent EXCEPT ![Head(frame[h].todo).agent].offline = TRUE]
  BY DEF SetOffline
<1>2. agent' \in [Agent -> [offline : BOOLEAN, beat : Age]]
  BY <1>1 DEF TypeInv, DocumentsOK
<1>3. Lands(outcome', "work", Rest(frame[h]))
  <2>1. FrameOK(outcome', pc[h], frame[h]) /\ pc[h] # "idle"
    BY <1>1, AtItem, Turn
  <2>. QED BY <2>1, RestOK
<1>4. HandlersOK'
  BY <1>1, <1>3, Same, GoOK DEF TypeInv
<1>. QED BY <1>1, <1>2, <1>4, TaskStays, QuietType

LEMMA ServeType == ASSUME TypeInv, NEW h \in Handler, Serve(h) PROVE TypeInv'
<1>1. CASE FailTask(h) \/ ErrorOutcome(h) \/ GetTaskRoutes(h) \/ WaitForAgent(h) \/ AssignAgent(h)
  BY <1>1, FailTaskType, ErrorOutcomeType, GetTaskRoutesType, WaitForAgentType, AssignAgentType
<1>2. CASE SetPublished(h) \/ CreateOutcome(h) \/ SendTask(h)
  BY <1>2, SetPublishedType, CreateOutcomeType, SendTaskType
<1>3. CASE RepublishTask(h) \/ RequeueTask(h) \/ Resend(h) \/ Requeued(h)
  BY <1>3, RepublishTaskType, RequeueTaskType, ResendType, RequeuedType
<1>4. CASE ListLost(h) \/ Answer(h) \/ ListWaiting(h) \/ LookAgain(h) \/ PullAgent(h) \/ ClaimTask(h)
  BY <1>4, ListLostType, AnswerType, ListWaitingType, LookAgainType, PullAgentType, ClaimTaskType
<1>5. CASE ListOrphans(h) \/ Orphan(h) \/ CatchItem(h) \/ SetOffline(h)
  BY <1>5, ListOrphansType, OrphanType, CatchType, SetOfflineType
<1>. QED BY <1>1, <1>2, <1>3, <1>4, <1>5 DEF Serve

LEMMA EnvironmentType == ASSUME TypeInv, Environment PROVE TypeInv'
<1>1. ASSUME NEW a \in Agent, Lapse(a) \/ Crash(a) PROVE TypeInv'
  BY <1>1, LapseType, CrashType
<1>2. ASSUME NEW m \in queue, Consume(m) \/ Expire(m) PROVE TypeInv'
  BY <1>2, ConsumeType, ExpireType
<1>3. ASSUME NEW h \in Handler, Launch(h) \/ OnTTLMessage(h) \/ OnLaunchTaskErrorMessage(h) PROVE TypeInv'
  BY <1>3, LaunchType, ExpiredType, RefusedType
<1>4. ASSUME NEW h \in Handler, NEW o \in run, Finish(h, o) PROVE TypeInv'
  BY <1>4, FinishType
<1>5. ASSUME NEW h \in Handler, NEW a \in Agent, Heartbeat(h, a) \/ ProcessOrphanedTasks(h, a) PROVE TypeInv'
  BY <1>5, HeartbeatType, OrphansAskedType
<1>. QED BY <1>1, <1>2, <1>3, <1>4, <1>5 DEF Environment

LEMMA InitTypes == Init => TypeInv
<1>. SUFFICES ASSUME Init PROVE TypeInv
  OBVIOUS
<1>1. NoOutcome \in Document /\ NoOutcome.task = 0
  BY StatusesOK DEF NoOutcome, Document
<1>2. DocumentsOK
  <2>1. agent \in [Agent -> [offline : BOOLEAN, beat : Age]]
    <3>1. {[offline |-> FALSE, beat |-> "fresh"], [offline |-> TRUE, beat |-> "old"]} \subseteq [offline : BOOLEAN, beat : Age]
      BY DEF Age
    <3>. QED BY <3>1 DEF Init
  <2>2. task \in [Task -> [status : TaskStatus, attempted : SUBSET Agent]]
    BY StatusesOK DEF Init
  <2>3. outcome \in [Outcome -> Document]
    BY <1>1 DEF Init
  <2>. QED BY <2>1, <2>2, <2>3 DEF DocumentsOK
<1>3. MailOK
  BY DEF Init, MailOK
<1>4. HandlersOK
  <2>1. FrameOK(outcome, "idle", EmptyFrame)
    BY Idle
  <2>2. "idle" \in Steps /\ EmptyFrame \in Frame
    BY <2>1 DEF FrameOK
  <2>. QED BY <2>1, <2>2 DEF Init, HandlersOK
<1>. QED BY <1>2, <1>3, <1>4 DEF TypeInv

LEMMA StepTypes == TypeInv /\ [Next]_vars => TypeInv'
<1>. SUFFICES ASSUME TypeInv, [Next]_vars PROVE TypeInv'
  OBVIOUS
<1>1. CASE UNCHANGED vars
  <2>1. UNCHANGED <<docs, mail, pc, frame>>
    BY <1>1 DEF vars, docs, mail
  <2>2. HandlersOK'
    BY <2>1, Same, StayOK DEF TypeInv, docs
  <2>. QED BY <2>1, <2>2, QuietType DEF TypeInv, DocumentsOK, docs
<1>2. CASE Environment
  BY <1>2, EnvironmentType
<1>3. ASSUME NEW h \in Handler, Serve(h) PROVE TypeInv'
  BY <1>3, ServeType
<1>. QED BY <1>1, <1>2, <1>3 DEF Next

LEMMA TypeInvariant == Spec => []TypeInv
BY InitTypes, StepTypes, PTL DEF Spec

-----------------------------------------------------------------------------
(***************************************************************************)
(* Places: sequences of items                                              *)
(***************************************************************************)
\* None of these items takes a task OneRunner is about.
Mild(s) == \A k \in DOMAIN s : \A t \in Sole : ~ Takes(s[k], t)

LEMMA MildTail == ASSUME NEW s, s \in Seq(AnyItem), s # <<>>, Later(s) PROVE Mild(Tail(s))
<1>1. Len(s) \in Nat /\ Tail(s) \in Seq(AnyItem) /\ Len(Tail(s)) = Len(s) - 1 /\ DOMAIN Tail(s) = 1..Len(Tail(s))
  BY HeadTailProperties, LenProperties
<1>2. ASSUME NEW k \in DOMAIN Tail(s) PROVE Tail(s)[k] = s[k + 1] /\ k + 1 \in 2..Len(s)
  <2>1. k \in 1..Len(Tail(s))
    BY <1>1
  <2>. QED BY <1>1, <2>1, HeadTailProperties
<1>. QED BY <1>2 DEF Mild, Later

LEMMA MildJoin ==
    ASSUME NEW s, NEW r, s \in Seq(AnyItem), r \in Seq(AnyItem), Mild(s), Mild(r)
    PROVE  Mild(s \o r)
<1>2. s \o r \in Seq(AnyItem) /\ Len(s \o r) = Len(s) + Len(r) /\ Len(s) \in Nat /\ Len(r) \in Nat
  BY ConcatProperties, LenProperties
<1>3. DOMAIN (s \o r) = 1..Len(s \o r) /\ DOMAIN s = 1..Len(s) /\ DOMAIN r = 1..Len(r)
  BY <1>2, LenProperties
<1>4. ASSUME NEW k \in DOMAIN (s \o r), NEW t \in Sole PROVE ~ Takes((s \o r)[k], t)
  <2>1. k \in 1..(Len(s) + Len(r)) /\ (s \o r)[k] = IF k <= Len(s) THEN s[k] ELSE r[k - Len(s)]
    BY <1>2, <1>3, ConcatProperties
  <2>2. CASE k <= Len(s)
    BY <1>2, <1>3, <2>1, <2>2 DEF Mild
  <2>3. CASE ~ (k <= Len(s))
    <3>1. k - Len(s) \in DOMAIN r
      BY <1>2, <1>3, <2>1, <2>3
    <3>. QED BY <2>1, <2>3, <3>1 DEF Mild
  <2>. QED BY <2>2, <2>3
<1>. QED BY <1>4 DEF Mild

LEMMA MildLater == ASSUME NEW s, s \in Seq(AnyItem), Mild(s) PROVE Later(s)
<1>1. DOMAIN s = 1..Len(s) /\ Len(s) \in Nat
  BY LenProperties
<1>2. \A k \in 2..Len(s) : k \in DOMAIN s
  BY <1>1
<1>. QED BY <1>2 DEF Mild, Later

LEMMA MildRest ==
    ASSUME NEW s, s \in Seq(AnyItem), Later(s), NEW i \in 1..Len(s)
    PROVE  Mild(SubSeq(s, i + 1, Len(s)))
<1>. DEFINE r == SubSeq(s, i + 1, Len(s))
<1>1. Len(s) \in Nat
  BY LenProperties
<1>2. r = [k \in 1..(Len(s) - i) |-> s[k + i]]
  BY <1>1
<1>3. ASSUME NEW k \in DOMAIN r PROVE r[k] = s[k + i] /\ k + i \in 2..Len(s)
  BY <1>1, <1>2
<1>. QED BY <1>3 DEF Mild, Later

\* An item is mild by what it does, or by its task.
Gentle(i) == \A t \in Sole : ~ Takes(i, t)

LEMMA GentleItems ==
    /\ \A t, a, o : /\ Gentle(Item("launch", t, a, o)) /\ Gentle(Item("errorOutcome", t, a, o))
                    /\ Gentle(Item("requeue", t, a, o)) /\ Gentle(Item("pull", t, a, o))
                    /\ Gentle(Item("list", t, a, o)) /\ Gentle(Item("again", t, a, o))
                    /\ Gentle(Item("lost", t, a, o)) /\ Gentle(Item("answer", t, a, o))
                    /\ Gentle(Item("orphans", t, a, o)) /\ Gentle(Item("orphan", t, a, o))
                    /\ Gentle(Item("offline", t, a, o))
                    /\ t \notin Sole => Gentle(Item("republish", t, a, o))
    /\ Gentle(Catch)
BY DEF Gentle, Takes, Item, Catch

LEMMA MildOne == ASSUME NEW i, Gentle(i) PROVE Mild(<<i>>)
<1>1. DOMAIN <<i>> = {1} /\ <<i>>[1] = i
  OBVIOUS
<1>. QED BY <1>1 DEF Mild, Gentle

LEMMA LaterTwo == ASSUME NEW i, NEW j, Gentle(j) PROVE Later(<<i, j>>)
<1>1. Len(<<i, j>>) = 2 /\ <<i, j>>[2] = j
  OBVIOUS
<1>. QED BY <1>1 DEF Later, Gentle

LEMMA LaterThree == ASSUME NEW i, NEW j, NEW k, Gentle(j), Gentle(k) PROVE Later(<<i, j, k>>)
<1>1. Len(<<i, j, k>>) = 3 /\ <<i, j, k>>[2] = j /\ <<i, j, k>>[3] = k
  OBVIOUS
<1>. QED BY <1>1 DEF Later, Gentle

LEMMA MildNone == Mild(<<>>)
BY DEF Mild

-----------------------------------------------------------------------------
(***************************************************************************)
(* Places: kinds of steps                                                  *)
(***************************************************************************)
Calm(t) == Once(t) /\ Apart(t) /\ AtRest(t)
Idling(t) == task[t].status \in {NULL, WAITING_FOR_AGENT}

\* A step after which t is at no place where it was not before.
Fewer(t) ==
    /\ \A m \in queue' \cup dead' : m.task = t => m \in queue \cup dead
    /\ \A m \in queue' \cap dead' : m.task = t => m \in queue \cap dead
    /\ \A o \in run' : outcome'[o].task = t => o \in run /\ outcome[o].task = t
    /\ \A k \in Handler : Holds(pc'[k], frame'[k], t) => Holds(pc[k], frame[k], t)
    /\ t \in errors' => t \in errors
    /\ Idling(t)' => Idling(t)

LEMMA FewerKeeps == ASSUME NEW t, Calm(t), Fewer(t) PROVE Calm(t)'
<1>1. InMail(t)' => InMail(t)
  BY DEF Fewer, InMail
<1>2. Runs(t)' => Runs(t)
  BY DEF Fewer, Runs
<1>3. InHand(t)' => InHand(t)
  BY DEF Fewer, InHand
<1>4. (t \in errors)' => t \in errors
  BY DEF Fewer
<1>5. Once(t)'
  BY DEF Calm, Once, Fewer
<1>6. Apart(t)'
  BY <1>1, <1>2, <1>3, <1>4 DEF Calm, Apart
<1>7. AtRest(t)'
  BY <1>1, <1>2, <1>3, <1>4 DEF Calm, AtRest, Fewer, Idling
<1>. QED BY <1>5, <1>6, <1>7 DEF Calm

\* t is with the handler h, as the message m, as the run o, or an error, and nowhere else.
OnlyHand(h, t) == ~ InMail(t) /\ ~ Runs(t) /\ t \notin errors /\ \A k \in Handler : Holds(pc[k], frame[k], t) => k = h
OnlyMail(m, t) == /\ ~ InHand(t) /\ ~ Runs(t) /\ t \notin errors /\ m \notin queue \cap dead
                  /\ \A n \in queue \cup dead : n.task = t => n = m
OnlyRun(o, t) == ~ InMail(t) /\ ~ InHand(t) /\ t \notin errors /\ \A p \in run : outcome[p].task = t => p = o
OnlyError(t) == ~ InMail(t) /\ ~ Runs(t) /\ ~ InHand(t)
Nowhere(t) == ~ InMail(t) /\ ~ Runs(t) /\ ~ InHand(t) /\ t \notin errors

LEMMA OnlyHandCalm == ASSUME NEW t, NEW h, OnlyHand(h, t)', ~ Idling(t)' PROVE Calm(t)'
BY DEF OnlyHand, Calm, Once, Apart, AtRest, InMail, Runs, InHand, Idling
LEMMA OnlyMailCalm == ASSUME NEW t, NEW m, OnlyMail(m, t)', ~ Idling(t)' PROVE Calm(t)'
BY DEF OnlyMail, Calm, Once, Apart, AtRest, InMail, Runs, InHand, Idling
LEMMA OnlyRunCalm == ASSUME NEW t, NEW o, OnlyRun(o, t)', ~ Idling(t)' PROVE Calm(t)'
BY DEF OnlyRun, Calm, Once, Apart, AtRest, InMail, Runs, InHand, Idling
LEMMA OnlyErrorCalm == ASSUME NEW t, OnlyError(t)', ~ Idling(t)' PROVE Calm(t)'
BY DEF OnlyError, Calm, Once, Apart, AtRest, InMail, Runs, InHand, Idling
LEMMA NowhereCalm == ASSUME NEW t, Nowhere(t)' PROVE Calm(t)'
BY DEF Nowhere, Calm, Once, Apart, AtRest, InMail, Runs, InHand

LEMMA HandIsOnly ==
    ASSUME NEW t, Calm(t), NEW h \in Handler, Holds(pc[h], frame[h], t)
    PROVE  OnlyHand(h, t) /\ ~ Idling(t)
<1>1. InHand(t)
  BY DEF InHand
<1>. QED BY <1>1 DEF Calm, Once, Apart, AtRest, OnlyHand, Idling
LEMMA MailIsOnly ==
    ASSUME NEW t, Calm(t), NEW m \in queue \cup dead, m.task = t
    PROVE  OnlyMail(m, t) /\ ~ Idling(t)
<1>1. InMail(t)
  BY DEF InMail
<1>. QED BY <1>1 DEF Calm, Once, Apart, AtRest, OnlyMail, Idling
LEMMA ErrorIsOnly == ASSUME NEW t, Calm(t), t \in errors PROVE OnlyError(t) /\ ~ Idling(t)
BY DEF Calm, Apart, AtRest, OnlyError, Idling

\* Of the handlers only h moves, and it aims at one agent.
Alone(h) ==
    /\ \A k \in Handler \ {h} : pc'[k] = pc[k] /\ frame'[k] = frame[k]
    /\ Aims(pc'[h], frame'[h])
\* ... and holds no other task than before, or none.
Carried(h) == Alone(h) /\ \A t \in Sole : Holds(pc'[h], frame'[h], t) => Holds(pc[h], frame[h], t)
Freed(h) == Alone(h) /\ \A t \in Sole : ~ Holds(pc'[h], frame'[h], t)

LEMMA AimsStay ==
    ASSUME PlaceInv, NEW h \in Handler, Alone(h)
    PROVE  \A k \in Handler : Aims(pc'[k], frame'[k])
BY DEF PlaceInv, Alone

\* The messages, runs and errors after a step were there before.
Lessens ==
    /\ queue' \cup dead' \subseteq queue \cup dead /\ queue' \cap dead' \subseteq queue \cap dead
    /\ run' \subseteq run /\ errors' \subseteq errors
    /\ \A o \in run : outcome'[o].task = outcome[o].task

StaysBusy(t) == Idling(t)' => Idling(t)

LEMMA CarriedFewer ==
    ASSUME NEW h \in Handler, Carried(h), Lessens, NEW t \in Sole, StaysBusy(t)
    PROVE  Fewer(t)
BY DEF Carried, Alone, Lessens, StaysBusy, Fewer

LEMMA CarriedPlace ==
    ASSUME PlaceInv, NEW h \in Handler, Carried(h), Lessens, \A t \in Sole : StaysBusy(t)
    PROVE  PlaceInv'
<1>1. \A t \in Sole : Calm(t)'
  <2>1. ASSUME NEW t \in Sole PROVE Calm(t)'
    <3>1. Calm(t)
      BY DEF PlaceInv, Calm
    <3>2. Fewer(t)
      BY CarriedFewer
    <3>. QED BY <3>1, <3>2, FewerKeeps
  <2>. QED BY <2>1
<1>2. \A k \in Handler : Aims(pc'[k], frame'[k])
  BY AimsStay DEF Carried
<1>. QED BY <1>1, <1>2 DEF PlaceInv, Calm

LEMMA FreedCarried == ASSUME NEW h, Freed(h) PROVE Carried(h)
BY DEF Freed, Carried

LEMMA StillPlace ==
    ASSUME PlaceInv, UNCHANGED <<pc, frame, task>>, Lessens
    PROVE  PlaceInv'
<1>1. \A t \in Sole : Calm(t)'
  <2>1. ASSUME NEW t \in Sole PROVE Calm(t)'
    <3>1. Calm(t)
      BY DEF PlaceInv, Calm
    <3>2. Fewer(t)
      BY DEF Lessens, Fewer, Idling
    <3>. QED BY <3>1, <3>2, FewerKeeps
  <2>. QED BY <2>1
<1>2. \A k \in Handler : Aims(pc'[k], frame'[k])
  BY DEF PlaceInv
<1>. QED BY <1>1, <1>2 DEF PlaceInv, Calm

LEMMA SoleTask == ASSUME NEW t \in Sole PROVE t \in Task /\ t # 0 /\ Target[t] = "single" /\ t \notin AutoRestart
BY ZeroIsNoTask DEF Sole

\* What Go does to the handler that goes.
LEMMA GoLands ==
    ASSUME HandlersOK, NEW h \in Handler, NEW p, NEW f, Go(h, p, f)
    PROVE  /\ \A k \in Handler \ {h} : pc'[k] = pc[k] /\ frame'[k] = frame[k]
           /\ \/ pc'[h] = "idle" /\ frame'[h] = EmptyFrame
              \/ pc'[h] = p /\ frame'[h] = f /\ p # "idle" /\ (p = "work" => f.todo # <<>>)
BY DEF Go, HandlersOK

LEMMA IdleHolds == /\ \A t \in Sole : ~ Holds("idle", EmptyFrame, t)
                   /\ Aims("idle", EmptyFrame)
<1>1. EmptyFrame.todo = <<>> /\ Later(<<>>) /\ EmptyFrame.task = 0
  BY DEF Later, EmptyFrame
<1>. QED BY <1>1, SoleTask DEF Holds, Aims

\* A handler with nothing but mild items is free.
LEMMA MildFrees ==
    ASSUME TypeInv, NEW h \in Handler, NEW f, f.todo \in Seq(AnyItem), Mild(f.todo), f.task = 0, Go(h, "work", f)
    PROVE  Freed(h)
<1>1. /\ \A k \in Handler \ {h} : pc'[k] = pc[k] /\ frame'[k] = frame[k]
      /\ \/ pc'[h] = "idle" /\ frame'[h] = EmptyFrame
         \/ pc'[h] = "work" /\ frame'[h] = f /\ f.todo # <<>>
  BY GoLands DEF TypeInv
<1>2. CASE pc'[h] = "idle" /\ frame'[h] = EmptyFrame
  BY <1>1, <1>2, IdleHolds DEF Freed, Alone
<1>3. CASE pc'[h] = "work" /\ frame'[h] = f /\ f.todo # <<>>
  <2>1. Head(f.todo) = f.todo[1] /\ 1 \in DOMAIN f.todo
    BY <1>3, HeadTailProperties, LenProperties, EmptySeq
  <2>2. \A t \in Sole : ~ Holds("work", f, t)
    BY <2>1, SoleTask DEF Mild, Holds
  <2>3. Aims("work", f)
    BY MildLater DEF Aims
  <2>. QED BY <1>1, <1>3, <2>2, <2>3 DEF Freed, Alone
<1>. QED BY <1>1, <1>2, <1>3

LEMMA RestFrees ==
    ASSUME TypeInv, PlaceInv, NEW h \in Handler, pc[h] # "idle", Go(h, "work", Rest(frame[h]))
    PROVE  Freed(h)
<1>. DEFINE f == frame[h]
            s == Tail(f.todo)
<1>1. f.todo \in Seq(AnyItem) /\ f.todo # <<>> /\ Later(f.todo)
  BY Turn, HeadOK DEF PlaceInv, Aims
<1>2. s \in Seq(AnyItem) /\ Mild(s)
  BY <1>1, MildTail, HeadTailProperties
<1>3. Rest(f).todo = s /\ Rest(f).task = 0
  BY DEF Rest, EmptyFrame
<1>. QED BY <1>2, <1>3, MildFrees

LEMMA ThenFrees ==
    ASSUME TypeInv, PlaceInv, NEW h \in Handler, pc[h] # "idle", NEW items, items \in Seq(AnyItem), Mild(items),
           Go(h, "work", Then(frame[h], items))
    PROVE  Freed(h)
<1>. DEFINE f == frame[h]
            s == Tail(f.todo)
<1>1. f.todo \in Seq(AnyItem) /\ f.todo # <<>> /\ Later(f.todo)
  BY Turn, HeadOK DEF PlaceInv, Aims
<1>2. s \in Seq(AnyItem) /\ Mild(s)
  BY <1>1, MildTail, HeadTailProperties
<1>3. items \o s \in Seq(AnyItem) /\ Mild(items \o s)
  BY <1>2, MildJoin, ConcatProperties
<1>4. Then(f, items).todo = items \o s /\ Then(f, items).task = 0
  BY DEF Then, Rest, EmptyFrame
<1>. QED BY <1>3, <1>4, MildFrees

LEMMA StartFrees ==
    ASSUME TypeInv, NEW h \in Handler, NEW items, items \in Seq(AnyItem), Mild(items), items # <<>>, Start(h, items)
    PROVE  Freed(h)
<1>. DEFINE g == [EmptyFrame EXCEPT !.todo = items]
<1>1. /\ \A k \in Handler \ {h} : pc'[k] = pc[k] /\ frame'[k] = frame[k]
      /\ pc'[h] = "work" /\ frame'[h] = g
  BY DEF Start, TypeInv, HandlersOK
<1>2. g.todo = items /\ g.task = 0
  BY DEF EmptyFrame
<1>. HIDE DEF g
<1>3. Head(items) = items[1] /\ 1 \in DOMAIN items
  BY HeadTailProperties, LenProperties, EmptySeq
<1>4. \A t \in Sole : ~ Holds("work", g, t)
  BY <1>2, <1>3, SoleTask DEF Mild, Holds
<1>5. Aims("work", g)
  BY <1>2, MildLater DEF Aims
<1>. QED BY <1>1, <1>4, <1>5 DEF Freed, Alone

\* A handler that publishes goes on with the task it has.
LEMMA GoesOn ==
    ASSUME TypeInv, PlaceInv, NEW h \in Handler, pc[h] # "idle", NEW p \in Publishing, NEW f,
           f.todo = frame[h].todo, f.task \in Sole => Holds(pc[h], frame[h], f.task),
           f.task \in Sole /\ p \in {"assign", "published", "create", "send"} => \E a \in Agent : f.targets = {a},
           Go(h, p, f)
    PROVE  Carried(h)
<1>1. p # "idle" /\ p # "work"
  BY DEF Publishing
<1>2. /\ \A k \in Handler \ {h} : pc'[k] = pc[k] /\ frame'[k] = frame[k]
      /\ \/ pc'[h] = "idle" /\ frame'[h] = EmptyFrame
         \/ pc'[h] = p /\ frame'[h] = f
  BY <1>1, GoLands DEF TypeInv
<1>3. Aims(p, f)
  BY DEF PlaceInv, Aims
<1>4. \A t \in Sole : Holds(p, f, t) => Holds(pc[h], frame[h], t)
  BY <1>1 DEF Holds
<1>. QED BY <1>2, <1>3, <1>4, IdleHolds DEF Carried, Alone

StatusSet(u, s) == task' = [task EXCEPT ![u].status = s]

LEMMA StatusIs ==
    ASSUME TypeInv, NEW u, NEW s, StatusSet(u, s), NEW t \in Task
    PROVE  task'[t].status = IF t = u THEN s ELSE task[t].status
<1>1. CASE t = u
  BY <1>1 DEF StatusSet, TypeInv, DocumentsOK
<1>2. CASE t # u
  BY <1>2 DEF StatusSet, TypeInv, DocumentsOK
<1>. QED BY <1>1, <1>2

LEMMA Busy ==
    ASSUME TypeInv, NEW u, NEW s, StatusSet(u, s), s \notin {NULL, WAITING_FOR_AGENT}
    PROVE  \A t \in Sole : StaysBusy(t)
BY StatusIs, SoleTask DEF StaysBusy, Idling

LEMMA TaskSame == UNCHANGED task => \A t \in Sole : StaysBusy(t)
BY DEF StaysBusy, Idling

LEMMA QuietPlace ==
    ASSUME PlaceInv, NEW h \in Handler, Carried(h), UNCHANGED <<outcome, mail>>, \A t \in Sole : StaysBusy(t)
    PROVE  PlaceInv'
<1>1. Lessens
  BY DEF Lessens, mail
<1>. QED BY <1>1, CarriedPlace

LEMMA NotIdleStatuses ==
    /\ NOT_STARTED \notin {NULL, WAITING_FOR_AGENT} /\ PUBLISHED \notin {NULL, WAITING_FOR_AGENT}
    /\ FAILED \notin {NULL, WAITING_FOR_AGENT}
BY DEF NOT_STARTED, PUBLISHED, FAILED, NULL, WAITING_FOR_AGENT

\* Steps that end with the next item and leave status, messages and runs alone.
LEMMA RestPlace ==
    ASSUME TypeInv, PlaceInv, NEW h \in Handler, pc[h] # "idle", Go(h, "work", Rest(frame[h])),
           UNCHANGED <<outcome, mail>>, \A t \in Sole : StaysBusy(t)
    PROVE  PlaceInv'
BY RestFrees, FreedCarried, QuietPlace

LEMMA ThenPlace ==
    ASSUME TypeInv, PlaceInv, NEW h \in Handler, pc[h] # "idle", NEW items, items \in Seq(AnyItem), Mild(items),
           Go(h, "work", Then(frame[h], items)), UNCHANGED <<outcome, mail, task>>
    PROVE  PlaceInv'
BY ThenFrees, FreedCarried, QuietPlace, TaskSame

LEMMA FailTaskPlace == ASSUME TypeInv, PlaceInv, NEW h \in Handler, FailTask(h) PROVE PlaceInv'
<1>1. /\ At(h, "fail") /\ Go(h, "work", Rest(frame[h])) /\ UNCHANGED <<outcome, mail>>
      /\ StatusSet(Head(frame[h].todo).task, FAILED)
  BY DEF FailTask, StatusSet
<1>. QED BY <1>1, AtItem, NotIdleStatuses, Busy, RestPlace

LEMMA MadePlace ==
    ASSUME TypeInv, NEW o \in Outcome, FreeOutcome(o), NEW d, Made(o, d), UNCHANGED mail
    PROVE  Lessens
<1>1. \A p \in run : p # o /\ p \in Outcome
  BY DEF FreeOutcome, Existing, TypeInv, MailOK
<1>. QED BY <1>1 DEF Lessens, Made, mail, TypeInv, DocumentsOK

LEMMA ErrorOutcomePlace == ASSUME TypeInv, PlaceInv, NEW h \in Handler, ErrorOutcome(h) PROVE PlaceInv'
<1>. DEFINE d == [NoOutcome EXCEPT !.task = Head(frame[h].todo).task, !.status = FAILED]
<1>1. At(h, "errorOutcome") /\ Go(h, "work", Rest(frame[h])) /\ UNCHANGED <<task, mail>>
  BY DEF ErrorOutcome
<1>2. PICK o \in Outcome : FreeOutcome(o) /\ Made(o, d)
  BY DEF ErrorOutcome, Made
<1>. HIDE DEF d
<1>3. Lessens
  BY <1>1, <1>2, MadePlace
<1>4. Carried(h)
  BY <1>1, AtItem, RestFrees, FreedCarried
<1>. QED BY <1>1, <1>3, <1>4, TaskSame, CarriedPlace

LEMMA PublishingHolds ==
    ASSUME NEW p, NEW f, p \in Publishing
    PROVE  /\ p # "idle" /\ p # "work" /\ Holds(p, f, f.task)
           /\ \A t : Holds(p, f, t) => f.task = t
BY DEF Publishing, Holds

LEMMA GetTaskRoutesPlace == ASSUME TypeInv, PlaceInv, NEW h \in Handler, GetTaskRoutes(h) PROVE PlaceInv'
<1>. DEFINE f == frame[h]
            to == Candidates(f)
            aim(A) == [f EXCEPT !.targets = A]
<1>1. FrameOK(outcome, pc[h], f) /\ pc[h] = "route" /\ pc[h] \in Publishing /\ UNCHANGED <<docs, mail>>
  BY Turn DEF GetTaskRoutes, Publishing, Steps
<1>2. to \subseteq Agent /\ f \in Frame
  BY <1>1, CandidatesOK DEF FrameOK
<1>3. \/ Go(h, "wait", f)
      \/ Go(h, "resend", f)
      \/ Target[f.task] # "single" /\ Go(h, "published", aim(to))
      \/ \E a \in to : Go(h, "assign", aim({a}))
  BY DEF GetTaskRoutes
<1>4. ASSUME NEW A PROVE aim(A).todo = f.todo /\ aim(A).task = f.task /\ aim(A).targets = A
  BY <1>2 DEF Frame
<1>5. Holds(pc[h], f, f.task)
  BY <1>1, PublishingHolds
<1>6. f.task \in Sole => Target[f.task] = "single"
  BY SoleTask
<1>. HIDE DEF to, aim
<1>7. {"wait", "resend", "published", "assign"} \subseteq Publishing
  BY DEF Publishing, Steps
<1>8. Carried(h)
  <2>1. CASE Go(h, "wait", f) \/ Go(h, "resend", f)
    BY <1>1, <1>5, <1>7, <2>1, PublishingHolds, GoesOn
  <2>2. CASE Target[f.task] # "single" /\ Go(h, "published", aim(to))
    <3>. DEFINE g == aim(to)
    <3>1. g.todo = f.todo /\ g.task = f.task /\ g.task \notin Sole /\ Go(h, "published", g)
      BY <1>4, <1>6, <2>2
    <3>. HIDE DEF g
    <3>. QED BY <1>1, <1>7, <3>1, PublishingHolds, GoesOn
  <2>3. ASSUME NEW a \in to, Go(h, "assign", aim({a})) PROVE Carried(h)
    <3>. DEFINE g == aim({a})
    <3>1. g.todo = f.todo /\ g.task = f.task /\ g.targets = {a} /\ a \in Agent /\ Go(h, "assign", g)
      BY <1>2, <1>4, <2>3
    <3>. HIDE DEF g
    <3>. QED BY <1>1, <1>5, <1>7, <3>1, PublishingHolds, GoesOn
  <2>. QED BY <1>3, <2>1, <2>2, <2>3
<1>. QED BY <1>1, <1>8, TaskSame, QuietPlace DEF docs

\* The handler that is about to mark a task waiting is the only one who has it.
LEMMA WaitForAgentPlace == ASSUME TypeInv, PlaceInv, NEW h \in Handler, WaitForAgent(h) PROVE PlaceInv'
<1>. DEFINE u == frame[h].task
<1>1. /\ pc[h] = "wait" /\ pc[h] # "idle" /\ pc[h] \in Publishing /\ Go(h, "work", Rest(frame[h]))
      /\ UNCHANGED <<agent, outcome, mail>> /\ StatusSet(u, WAITING_FOR_AGENT)
  BY DEF WaitForAgent, StatusSet, Publishing, Steps
<1>2. Freed(h)
  BY <1>1, RestFrees
<1>3. Lessens
  BY <1>1 DEF Lessens, mail
<1>4. ASSUME NEW t \in Sole PROVE Calm(t)'
  <2>1. Calm(t)
    BY DEF PlaceInv, Calm
  <2>2. CASE t = u
    <3>1. OnlyHand(h, t)
      BY <1>1, <2>1, <2>2, PublishingHolds, HandIsOnly
    <3>2. Nowhere(t)'
      <4>1. ~ InHand(t)'
        BY <1>2, <3>1 DEF Freed, Alone, OnlyHand, InHand
      <4>2. ~ InMail(t)' /\ ~ Runs(t)' /\ t \notin errors'
        BY <1>3, <3>1 DEF Lessens, OnlyHand, InMail, Runs
      <4>. QED BY <4>1, <4>2 DEF Nowhere
    <3>. QED BY <3>2, NowhereCalm
  <2>3. CASE t # u
    <3>1. StaysBusy(t)
      BY <1>1, <2>3, StatusIs, SoleTask DEF StaysBusy, Idling
    <3>2. Fewer(t)
      BY <1>2, <1>3, <3>1, FreedCarried, CarriedFewer
    <3>. QED BY <2>1, <3>2, FewerKeeps
  <2>. QED BY <2>2, <2>3
<1>5. \A k \in Handler : Aims(pc'[k], frame'[k])
  BY <1>2, AimsStay DEF Freed
<1>. QED BY <1>4, <1>5 DEF PlaceInv, Calm

LEMMA AssignAgentPlace == ASSUME TypeInv, PlaceInv, NEW h \in Handler, AssignAgent(h) PROVE PlaceInv'
<1>. DEFINE f == frame[h]
            u == f.task
            A == task[u].attempted \cup f.targets
<1>1. pc[h] = "assign" /\ Go(h, "published", f) /\ UNCHANGED <<outcome, mail>> /\ task' = [task EXCEPT ![u].attempted = A]
  BY DEF AssignAgent
<1>2. pc[h] \in Publishing /\ "published" \in Publishing
  BY <1>1 DEF Publishing, Steps
<1>3. f.task \in Sole => \E a \in Agent : f.targets = {a}
  BY <1>1 DEF PlaceInv, Aims
<1>. HIDE DEF u, A
<1>4. Carried(h)
  BY <1>1, <1>2, <1>3, PublishingHolds, GoesOn
<1>5. \A t \in Sole : StaysBusy(t)
  <2>1. ASSUME NEW t \in Sole PROVE task'[t].status = task[t].status
    <3>1. t \in Task
      BY SoleTask
    <3>2. CASE t = u
      BY <1>1, <3>1, <3>2 DEF TypeInv, DocumentsOK
    <3>3. CASE t # u
      BY <1>1, <3>1, <3>3 DEF TypeInv, DocumentsOK
    <3>. QED BY <3>2, <3>3
  <2>. QED BY <2>1 DEF StaysBusy, Idling
<1>. QED BY <1>1, <1>4, <1>5, QuietPlace

LEMMA SetPublishedPlace == ASSUME TypeInv, PlaceInv, NEW h \in Handler, SetPublished(h) PROVE PlaceInv'
<1>. DEFINE f == frame[h]
            u == f.task
<1>1. pc[h] = "published" /\ pc[h] # "idle" /\ UNCHANGED <<agent, outcome, queue, dead, run>>
  BY DEF SetPublished
<1>2. pc[h] \in Publishing /\ "create" \in Publishing
  BY <1>1 DEF Publishing, Steps
<1>3. CASE StatusSet(u, PUBLISHED) /\ Go(h, "create", f) /\ UNCHANGED errors
  <2>1. f.task \in Sole => \E a \in Agent : f.targets = {a}
    BY <1>1 DEF PlaceInv, Aims
  <2>2. Carried(h)
    BY <1>1, <1>2, <1>3, <2>1, PublishingHolds, GoesOn
  <2>3. \A t \in Sole : StaysBusy(t)
    BY <1>3, NotIdleStatuses, Busy
  <2>. QED BY <1>1, <1>3, <2>2, <2>3, QuietPlace DEF mail
<1>4. CASE errors' = errors \cup {u} /\ Go(h, "work", Rest(f)) /\ UNCHANGED task
  <2>1. Freed(h)
    BY <1>1, <1>4, RestFrees
  <2>2. ASSUME NEW t \in Sole PROVE Calm(t)'
    <3>1. Calm(t)
      BY DEF PlaceInv, Calm
    <3>2. CASE t = u
      <4>1. OnlyHand(h, t) /\ ~ Idling(t)
        BY <1>1, <1>2, <3>1, <3>2, PublishingHolds, HandIsOnly
      <4>2. ~ InHand(t)'
        BY <2>1, <4>1 DEF Freed, Alone, OnlyHand, InHand
      <4>3. ~ InMail(t)' /\ ~ Runs(t)'
        BY <1>1, <4>1 DEF OnlyHand, InMail, Runs
      <4>4. ~ Idling(t)'
        BY <1>4, <4>1 DEF Idling
      <4>5. OnlyError(t)'
        BY <4>2, <4>3 DEF OnlyError
      <4>. QED BY <4>4, <4>5, OnlyErrorCalm
    <3>3. CASE t # u
      <4>1. Fewer(t)
        <5>1. \A k \in Handler : Holds(pc'[k], frame'[k], t) => Holds(pc[k], frame[k], t)
          BY <2>1 DEF Freed, Alone
        <5>2. Idling(t)' => Idling(t)
          BY <1>4 DEF Idling
        <5>. QED BY <1>1, <1>4, <3>3, <5>1, <5>2 DEF Fewer
      <4>. QED BY <3>1, <4>1, FewerKeeps
    <3>. QED BY <3>2, <3>3
  <2>3. \A k \in Handler : Aims(pc'[k], frame'[k])
    BY <2>1, AimsStay DEF Freed
  <2>. QED BY <2>2, <2>3 DEF PlaceInv, Calm
<1>. QED BY <1>3, <1>4 DEF SetPublished, StatusSet

LEMMA CreateOutcomePlace == ASSUME TypeInv, PlaceInv, NEW h \in Handler, CreateOutcome(h) PROVE PlaceInv'
<1>. DEFINE f == frame[h]
            d(a) == [NoOutcome EXCEPT !.task = f.task, !.agent = a, !.status = PUBLISHED]
            g(o) == [f EXCEPT !.outcome = o]
<1>1. pc[h] = "create" /\ UNCHANGED <<task, mail>> /\ f \in Frame
  BY Turn DEF CreateOutcome, FrameOK
<1>2. PICK a \in f.targets, o \in Outcome : FreeOutcome(o) /\ Made(o, d(a)) /\ Go(h, "send", g(o))
  BY DEF CreateOutcome, Made
<1>3. pc[h] \in Publishing /\ "send" \in Publishing
  BY <1>1 DEF Publishing, Steps
<1>4. g(o).todo = f.todo /\ g(o).task = f.task /\ g(o).targets = f.targets
  BY <1>1 DEF Frame
<1>5. f.task \in Sole => \E b \in Agent : f.targets = {b}
  BY <1>1 DEF PlaceInv, Aims
<1>. HIDE DEF d, g
<1>6. Lessens
  BY <1>1, <1>2, MadePlace
<1>7. Carried(h)
  BY <1>2, <1>3, <1>4, <1>5, PublishingHolds, GoesOn
<1>. QED BY <1>1, <1>6, <1>7, TaskSame, CarriedPlace

\* The message takes the place of the handler, who had one agent to send it to.
LEMMA SendTaskPlace == ASSUME TypeInv, PlaceInv, NEW h \in Handler, SendTask(h) PROVE PlaceInv'
<1>. DEFINE f == frame[h]
            u == f.task
            a == outcome[f.outcome].agent
            left == f.targets \ {a}
            m == [task |-> f.task, outcome |-> f.outcome, agent |-> a]
            g == [f EXCEPT !.targets = left]
<1>1. /\ FrameOK(outcome, pc[h], f) /\ pc[h] = "send" /\ pc[h] # "idle" /\ UNCHANGED <<docs, dead, errors, run>>
      /\ queue' = queue \cup {m}
  BY Turn DEF SendTask
<1>2. pc[h] \in Publishing /\ "create" \in Publishing
  BY <1>1 DEF Publishing, Steps
<1>3. \/ left = {} /\ Go(h, "work", Rest(f))
      \/ left # {} /\ Go(h, "create", g)
  BY DEF SendTask
<1>4. u \in Sole => left = {}
  <2>1. a \in f.targets
    BY <1>1 DEF FrameOK
  <2>2. u \in Sole => \E b \in Agent : f.targets = {b}
    BY <1>1 DEF PlaceInv, Aims
  <2>. QED BY <2>1, <2>2
<1>5. g.todo = f.todo /\ g.task = u /\ m.task = u
  BY <1>1 DEF FrameOK, Frame
<1>. HIDE DEF left, g, m
<1>6. Carried(h) /\ (u \in Sole => Freed(h))
  <2>1. CASE left = {} /\ Go(h, "work", Rest(f))
    BY <1>1, <2>1, RestFrees, FreedCarried
  <2>2. CASE left # {} /\ Go(h, "create", g)
    <3>1. g.task \notin Sole
      BY <1>4, <1>5, <2>2
    <3>2. Carried(h)
      BY <1>2, <1>5, <2>2, <3>1, PublishingHolds, GoesOn
    <3>. QED BY <1>5, <3>1, <3>2
  <2>. QED BY <1>3, <2>1, <2>2
<1>7. ASSUME NEW t \in Sole PROVE Calm(t)'
  <2>1. Calm(t)
    BY DEF PlaceInv, Calm
  <2>2. Idling(t)' = Idling(t)
    BY <1>1 DEF Idling, docs
  <2>3. CASE t = u
    <3>1. OnlyHand(h, t) /\ ~ Idling(t)
      BY <1>1, <1>2, <2>1, <2>3, PublishingHolds, HandIsOnly
    <3>2. Freed(h)
      BY <1>6, <2>3
    <3>3. ~ InHand(t)'
      BY <3>1, <3>2 DEF Freed, Alone, OnlyHand, InHand
    <3>4. ~ Runs(t)' /\ t \notin errors'
      BY <1>1, <3>1 DEF OnlyHand, Runs, docs
    <3>5. PICK c : c \notin queue' \cap dead' /\ \A n \in queue' \cup dead' : n.task = t => n = c
      BY <1>1, <1>5, <2>3, <3>1 DEF OnlyHand, InMail
    <3>6. OnlyMail(c, t)'
      BY <3>3, <3>4, <3>5 DEF OnlyMail
    <3>. QED BY <2>2, <3>1, <3>6, OnlyMailCalm
  <2>4. CASE t # u
    <3>1. \A k \in Handler : Holds(pc'[k], frame'[k], t) => Holds(pc[k], frame[k], t)
      BY <1>6 DEF Carried, Alone
    <3>2. Fewer(t)
      BY <1>1, <1>5, <2>2, <2>4, <3>1 DEF Fewer, docs
    <3>. QED BY <2>1, <3>2, FewerKeeps
  <2>. QED BY <2>3, <2>4
<1>8. \A k \in Handler : Aims(pc'[k], frame'[k])
  BY <1>6, AimsStay DEF Carried
<1>. QED BY <1>7, <1>8 DEF PlaceInv, Calm

LEMMA RepublishTaskPlace == ASSUME TypeInv, PlaceInv, NEW h \in Handler, RepublishTask(h) PROVE PlaceInv'
<1>. DEFINE f == frame[h]
            t == Head(f.todo).task
            g == [f EXCEPT !.task = t, !.tried = task[t].attempted]
<1>1. At(h, "republish") /\ UNCHANGED <<outcome, mail>>
  BY DEF RepublishTask
<1>2. pc[h] = "work" /\ pc[h] # "idle" /\ Head(f.todo).do = "republish" /\ f \in Frame /\ "route" \in Publishing
  BY <1>1, AtItem, Turn DEF FrameOK, Publishing, Steps
<1>3. \/ StatusSet(t, NOT_STARTED) /\ Go(h, "route", g)
      \/ Go(h, "work", Rest(f)) /\ UNCHANGED task
  BY DEF RepublishTask, StatusSet
<1>4. g.todo = f.todo /\ g.task = t
  BY <1>2 DEF Frame
<1>5. Holds(pc[h], f, t)
  BY <1>2 DEF Holds, Takes
<1>. HIDE DEF t, g
<1>6. CASE StatusSet(t, NOT_STARTED) /\ Go(h, "route", g)
  <2>1. Carried(h)
    BY <1>2, <1>4, <1>5, <1>6, GoesOn
  <2>. QED BY <1>1, <1>6, <2>1, NotIdleStatuses, Busy, QuietPlace
<1>7. CASE Go(h, "work", Rest(f)) /\ UNCHANGED task
  BY <1>1, <1>2, <1>7, TaskSame, RestPlace
<1>. QED BY <1>3, <1>6, <1>7

LEMMA RequeueTaskPlace == ASSUME TypeInv, PlaceInv, NEW h \in Handler, RequeueTask(h) PROVE PlaceInv'
<1>. DEFINE f == frame[h]
            i == Head(f.todo)
            u == i.task
            g == [f EXCEPT !.task = u, !.requeue = i.agent, !.outcome = i.outcome]
<1>1. At(h, "requeue") /\ UNCHANGED <<outcome, mail>>
  BY DEF RequeueTask
<1>2. pc[h] = "work" /\ pc[h] # "idle" /\ f \in Frame /\ "route" \in Publishing
  BY <1>1, AtItem, Turn DEF FrameOK, Publishing, Steps
<1>3. u \notin Sole
  BY <1>1, AtItem, SoleTask DEF ItemOK
<1>4. \/ StatusSet(u, NULL) /\ Go(h, "route", g)
      \/ Go(h, "work", Rest(f)) /\ UNCHANGED task
  BY DEF RequeueTask, StatusSet
<1>5. g.todo = f.todo /\ g.task = u
  BY <1>2 DEF Frame
<1>. HIDE DEF u, g, i
<1>6. CASE StatusSet(u, NULL) /\ Go(h, "route", g)
  <2>1. Carried(h)
    BY <1>2, <1>3, <1>5, <1>6, GoesOn
  <2>2. \A t \in Sole : StaysBusy(t)
    BY <1>3, <1>6, StatusIs, SoleTask DEF StaysBusy, Idling
  <2>. QED BY <1>1, <2>1, <2>2, QuietPlace
<1>7. CASE Go(h, "work", Rest(f)) /\ UNCHANGED task
  BY <1>1, <1>2, <1>7, TaskSame, RestPlace
<1>. QED BY <1>4, <1>6, <1>7

LEMMA ResendPlace == ASSUME TypeInv, PlaceInv, NEW h \in Handler, Resend(h) PROVE PlaceInv'
<1>. DEFINE f == frame[h]
            u == f.task
            m == [task |-> f.task, outcome |-> f.outcome, agent |-> f.requeue]
<1>1. /\ FrameOK(outcome, pc[h], f) /\ pc[h] = "resend" /\ pc[h] # "idle" /\ UNCHANGED <<docs, dead, errors, run>>
      /\ queue' = queue \cup {m} /\ Go(h, "requeued", f)
  BY Turn DEF Resend
<1>2. pc[h] \in Publishing /\ "requeued" \in Publishing
  BY <1>1 DEF Publishing, Steps
<1>3. u \notin Sole /\ m.task = u
  <2>1. f.requeue # NoAgent
    BY <1>1 DEF FrameOK
  <2>. QED BY <1>1, <2>1, SoleTask DEF FrameOK
<1>. HIDE DEF m
<1>4. Carried(h)
  BY <1>1, <1>2, <1>3, PublishingHolds, GoesOn
<1>5. ASSUME NEW t \in Sole PROVE Calm(t)'
  <2>1. Calm(t)
    BY DEF PlaceInv, Calm
  <2>2. \A k \in Handler : Holds(pc'[k], frame'[k], t) => Holds(pc[k], frame[k], t)
    BY <1>4 DEF Carried, Alone
  <2>3. Fewer(t)
    BY <1>1, <1>3, <2>2 DEF Fewer, Idling, docs
  <2>. QED BY <2>1, <2>3, FewerKeeps
<1>6. \A k \in Handler : Aims(pc'[k], frame'[k])
  BY <1>4, AimsStay DEF Carried
<1>. QED BY <1>5, <1>6 DEF PlaceInv, Calm

LEMMA RequeuedPlace == ASSUME TypeInv, PlaceInv, NEW h \in Handler, Requeued(h) PROVE PlaceInv'
<1>1. /\ pc[h] # "idle" /\ Go(h, "work", Rest(frame[h])) /\ UNCHANGED <<outcome, mail>>
      /\ StatusSet(frame[h].task, PUBLISHED)
  BY DEF Requeued, StatusSet
<1>. QED BY <1>1, NotIdleStatuses, Busy, RestPlace

LEMMA ListLostPlace == ASSUME TypeInv, PlaceInv, NEW h \in Handler, ListLost(h) PROVE PlaceInv'
<1>. DEFINE f == frame[h]
            lost == {o \in Existing : /\ outcome[o].agent = Head(f.todo).agent
                                      /\ outcome[o].status = CANCELLED /\ outcome[o].crashed}
            g == [Rest(f) EXCEPT !.cancel = lost]
<1>1. At(h, "lost") /\ Go(h, "work", g) /\ UNCHANGED <<docs, mail>>
  BY DEF ListLost
<1>. HIDE DEF lost
<1>2. g.todo = Tail(f.todo) /\ g.task = 0
  BY DEF Rest, EmptyFrame
<1>. HIDE DEF g
<1>3. f.todo \in Seq(AnyItem) /\ f.todo # <<>> /\ Later(f.todo)
  BY <1>1, Turn, AtItem, HeadOK DEF PlaceInv, Aims
<1>4. g.todo \in Seq(AnyItem) /\ Mild(g.todo)
  BY <1>2, <1>3, MildTail, HeadTailProperties
<1>5. Freed(h)
  BY <1>1, <1>2, <1>4, MildFrees
<1>. QED BY <1>1, <1>5, FreedCarried, TaskSame, QuietPlace DEF docs

LEMMA AnswerPlace == ASSUME TypeInv, PlaceInv, NEW h \in Handler, Answer(h) PROVE PlaceInv'
<1>1. /\ At(h, "answer") /\ run' = run \ frame[h].cancel /\ Go(h, "work", Rest(frame[h]))
      /\ UNCHANGED <<docs, queue, dead, errors>>
  BY DEF Answer
<1>2. Lessens /\ UNCHANGED task
  BY <1>1 DEF Lessens, docs
<1>. QED BY <1>1, <1>2, AtItem, RestFrees, FreedCarried, TaskSame, CarriedPlace

LEMMA ListWaitingPlace == ASSUME TypeInv, PlaceInv, NEW h \in Handler, ListWaiting(h) PROVE PlaceInv'
<1>. DEFINE f == frame[h]
            a == Head(f.todo).agent
            S == {t \in Task : task[t].status = WAITING_FOR_AGENT}
            pulls(s) == [k \in DOMAIN s |-> Item("pull", s[k], a, 0)]
<1>1. At(h, "list") /\ UNCHANGED <<outcome, mail, task>>
  BY DEF ListWaiting, docs
<1>2. PICK s \in Listings(S) : Go(h, "work", Then(f, pulls(s)))
  BY DEF ListWaiting
<1>3. a \in Agent \cup {NoAgent}
  BY <1>1, AtItem DEF ItemOK, AnyItem
<1>4. S \subseteq Task /\ IsFiniteSet(S)
  BY FS_Subset
<1>. HIDE DEF S, a
<1>5. Cardinality(S) \in Nat /\ s \in [1..Cardinality(S) -> Task]
  <2>1. Cardinality(S) \in Nat /\ s \in [1..Cardinality(S) -> S]
    BY <1>4, ListingsOK
  <2>. QED BY <1>4, <2>1
<1>6. \A k \in 1..Cardinality(S) : pulls(s)[k] \in AnyItem
  BY <1>3, <1>5, Items DEF ItemOK
<1>7. pulls(s) \in Seq(AnyItem)
  <2>1. pulls(s) \in [1..Cardinality(S) -> AnyItem]
    BY <1>5, <1>6
  <2>. HIDE DEF pulls
  <2>. QED BY <1>5, <2>1
<1>8. Mild(pulls(s))
  BY GentleItems DEF Mild, Gentle
<1>. HIDE DEF pulls
<1>. QED BY <1>1, <1>2, <1>7, <1>8, AtItem, ThenPlace

LEMMA LookAgainPlace == ASSUME TypeInv, PlaceInv, NEW h \in Handler, LookAgain(h) PROVE PlaceInv'
<1>. DEFINE f == frame[h]
            items == <<Item("list", 0, Head(f.todo).agent, 0)>>
<1>1. At(h, "again") /\ UNCHANGED <<outcome, mail, task>>
  BY DEF LookAgain, docs
<1>2. Go(h, "work", Then(f, items)) \/ Go(h, "work", Rest(f))
  <2>. DEFINE pending == \E t \in Task : task[t].status \in {NOT_STARTED, WAITING_FOR_AGENT}
  <2>1. Go(h, "work", IF pending THEN Then(f, items) ELSE Rest(f))
    BY DEF LookAgain
  <2>. HIDE DEF pending
  <2>. QED BY <2>1
<1>3. Head(f.todo).agent \in Agent
  BY <1>1, AtItem DEF ItemOK, NaturalAgent
<1>4. TodoOK(outcome, items) /\ Mild(items)
  BY <1>3, Items, TodoOne, GentleItems, MildOne
<1>5. items \in Seq(AnyItem)
  BY <1>4 DEF TodoOK
<1>. HIDE DEF items
<1>. QED BY <1>1, <1>2, <1>4, <1>5, AtItem, TaskSame, ThenPlace, RestPlace

LEMMA PullAgentPlace == ASSUME TypeInv, PlaceInv, NEW h \in Handler, PullAgent(h) PROVE PlaceInv'
<1>. DEFINE f == frame[h]
            u == Head(f.todo).task
            A == IF Head(f.todo).agent = NoAgent THEN {} ELSE task[u].attempted \ {Head(f.todo).agent}
<1>1. At(h, "pull") /\ UNCHANGED <<agent, outcome, mail>> /\ task' = [task EXCEPT ![u].attempted = A]
  BY DEF PullAgent
<1>2. Go(h, "claim", f) \/ Go(h, "work", Rest(f))
  BY DEF PullAgent
<1>3. FrameOK(outcome, pc[h], f) /\ pc[h] = "work" /\ f.task = 0 /\ pc[h] # "idle"
  BY <1>1, Turn, AtItem
<1>. HIDE DEF u, A
<1>4. Carried(h)
  <2>1. CASE Go(h, "claim", f)
    <3>1. pc'[h] = "claim" /\ frame'[h] = f /\ \A k \in Handler \ {h} : pc'[k] = pc[k] /\ frame'[k] = frame[k]
      BY <2>1 DEF Go, TypeInv, HandlersOK
    <3>2. Aims("claim", f)
      BY <1>3 DEF PlaceInv, Aims
    <3>3. \A t \in Sole : ~ Holds("claim", f, t)
      BY <1>3, SoleTask DEF Holds
    <3>. QED BY <3>1, <3>2, <3>3 DEF Carried, Alone
  <2>2. CASE Go(h, "work", Rest(f))
    BY <1>3, <2>2, RestFrees, FreedCarried
  <2>. QED BY <1>2, <2>1, <2>2
<1>5. \A t \in Sole : StaysBusy(t)
  <2>1. ASSUME NEW t \in Sole PROVE task'[t].status = task[t].status
    <3>1. t \in Task
      BY SoleTask
    <3>2. CASE t = u
      BY <1>1, <3>1, <3>2 DEF TypeInv, DocumentsOK
    <3>3. CASE t # u
      BY <1>1, <3>1, <3>3 DEF TypeInv, DocumentsOK
    <3>. QED BY <3>2, <3>3
  <2>. QED BY <2>1 DEF StaysBusy, Idling
<1>. QED BY <1>1, <1>4, <1>5, QuietPlace

LEMMA ThrowFrees ==
    ASSUME TypeInv, PlaceInv, NEW h \in Handler, pc[h] # "idle", Throw(h, frame[h])
    PROVE  Freed(h)
<1>. DEFINE f == frame[h]
            g(i) == [Rest(f) EXCEPT !.todo = SubSeq(f.todo, i + 1, Len(f.todo))]
<1>1. \/ Go(h, "idle", f)
      \/ \E i \in 2..Len(f.todo) : Go(h, "work", g(i))
  BY DEF Throw
<1>2. f.todo \in Seq(AnyItem) /\ Len(f.todo) \in Nat /\ Later(f.todo) /\ TodoOK(outcome, f.todo)
  <2>1. f.todo \in Seq(AnyItem) /\ Later(f.todo) /\ TodoOK(outcome, f.todo)
    BY Turn, HeadOK DEF PlaceInv, Aims, FrameOK
  <2>. QED BY <2>1, LenProperties
<1>3. CASE Go(h, "idle", f)
  <2>1. /\ \A k \in Handler \ {h} : pc'[k] = pc[k] /\ frame'[k] = frame[k]
        /\ pc'[h] = "idle" /\ frame'[h] = EmptyFrame
    BY <1>3 DEF Go, TypeInv, HandlersOK
  <2>. QED BY <2>1, IdleHolds DEF Freed, Alone
<1>4. ASSUME NEW i \in 2..Len(f.todo), Go(h, "work", g(i)) PROVE Freed(h)
  <2>. DEFINE s == SubSeq(f.todo, i + 1, Len(f.todo))
  <2>1. i \in 1..Len(f.todo)
    BY <1>2
  <2>2. Mild(s) /\ TodoOK(outcome, s)
    BY <1>2, <2>1, MildRest, TodoRest
  <2>3. s \in Seq(AnyItem)
    BY <2>2 DEF TodoOK
  <2>. HIDE DEF s
  <2>4. g(i).todo = s /\ g(i).task = 0
    BY DEF Rest, EmptyFrame, s
  <2>. HIDE DEF g
  <2>. QED BY <1>4, <2>2, <2>3, <2>4, MildFrees
<1>. QED BY <1>1, <1>3, <1>4

\* A task nobody has comes to the handler h.
LEMMA ComesToHand ==
    ASSUME PlaceInv, NEW h \in Handler, Alone(h), NEW u, u \in Sole => Idling(u),
           \A t \in Sole : Holds(pc'[h], frame'[h], t) => t = u,
           u \in Sole => ~ Idling(u)', \A t \in Sole : t # u => StaysBusy(t), Lessens
    PROVE  PlaceInv'
<1>1. ASSUME NEW t \in Sole PROVE Calm(t)'
  <2>1. Calm(t)
    BY DEF PlaceInv, Calm
  <2>2. CASE t = u
    <3>1. ~ InMail(t) /\ ~ Runs(t) /\ ~ InHand(t) /\ t \notin errors
      BY <2>1, <2>2 DEF Calm, AtRest, Idling
    <3>2. ~ InMail(t)' /\ ~ Runs(t)' /\ t \notin errors'
      BY <3>1 DEF Lessens, InMail, Runs
    <3>3. \A k \in Handler : Holds(pc'[k], frame'[k], t) => k = h
      BY <3>1 DEF Alone, InHand
    <3>4. OnlyHand(h, t)'
      BY <3>2, <3>3 DEF OnlyHand
    <3>. QED BY <2>2, <3>4, OnlyHandCalm
  <2>3. CASE t # u
    <3>1. \A k \in Handler : Holds(pc'[k], frame'[k], t) => Holds(pc[k], frame[k], t)
      BY <2>3 DEF Alone
    <3>2. Fewer(t)
      BY <2>3, <3>1 DEF Lessens, Fewer, StaysBusy
    <3>. QED BY <2>1, <3>2, FewerKeeps
  <2>. QED BY <2>2, <2>3
<1>2. \A k \in Handler : Aims(pc'[k], frame'[k])
  BY AimsStay
<1>. QED BY <1>1, <1>2 DEF PlaceInv, Calm

LEMMA ClaimTaskPlace == ASSUME TypeInv, PlaceInv, NEW h \in Handler, ClaimTask(h) PROVE PlaceInv'
<1>. DEFINE f == frame[h]
<1>0. PICK u : u = Head(f.todo).task
  OBVIOUS
<1>. DEFINE g == [f EXCEPT !.task = u, !.tried = task[u].attempted]
<1>1. pc[h] = "claim" /\ pc[h] # "idle" /\ UNCHANGED <<agent, outcome, mail>>
  BY DEF ClaimTask
<1>2. f \in Frame /\ Later(f.todo)
  BY Turn DEF FrameOK, PlaceInv, Aims
<1>3. \/ Idling(u) /\ StatusSet(u, NOT_STARTED) /\ Go(h, "route", g)
      \/ Throw(h, f) /\ UNCHANGED task
  BY <1>0 DEF ClaimTask, ClaimFilter, Idling, StatusSet
<1>4. g.todo = f.todo /\ g.task = u
  BY <1>2 DEF Frame
<1>5. Lessens
  BY <1>1 DEF Lessens, mail
<1>. HIDE DEF g
<1>6. CASE Idling(u) /\ StatusSet(u, NOT_STARTED) /\ Go(h, "route", g)
  <2>1. pc'[h] = "route" /\ frame'[h] = g /\ \A k \in Handler \ {h} : pc'[k] = pc[k] /\ frame'[k] = frame[k]
    BY <1>6 DEF Go, TypeInv, HandlersOK
  <2>2. Aims("route", g)
    BY <1>2, <1>4 DEF Aims
  <2>3. \A t \in Sole : Holds("route", g, t) => t = u
    BY <1>4 DEF Holds
  <2>4. Alone(h)
    BY <2>1, <2>2 DEF Alone
  <2>5. u \in Sole => ~ Idling(u)'
    BY <1>6, StatusIs, SoleTask, NotIdleStatuses DEF Idling
  <2>6. \A t \in Sole : t # u => StaysBusy(t)
    BY <1>6, StatusIs, SoleTask DEF StaysBusy, Idling
  <2>7. \A t \in Sole : Holds(pc'[h], frame'[h], t) => t = u
    BY <2>1, <2>3
  <2>. QED BY <1>5, <1>6, <2>4, <2>5, <2>6, <2>7, ComesToHand
<1>7. CASE Throw(h, f) /\ UNCHANGED task
  BY <1>1, <1>5, <1>7, ThrowFrees, FreedCarried, TaskSame, CarriedPlace
<1>. QED BY <1>3, <1>6, <1>7

LEMMA LaunchPlace == ASSUME TypeInv, PlaceInv, NEW h \in Handler, Launch(h) PROVE PlaceInv'
<1>. DEFINE g(t) == [EmptyFrame EXCEPT !.todo = <<Item("launch", t, NoAgent, 0)>>, !.task = t, !.tried = task[t].attempted]
<1>1. PICK u \in Task : /\ task[u].status = NULL /\ StatusSet(u, NOT_STARTED) /\ Go(h, "route", g(u))
  BY DEF Launch, StatusSet
<1>2. Lessens
  BY DEF Launch, Lessens, mail
<1>3. g(u).task = u /\ g(u).todo = <<Item("launch", u, NoAgent, 0)>>
  BY DEF EmptyFrame
<1>4. Later(g(u).todo)
  <2>1. ASSUME NEW i PROVE Later(<<i>>)
    BY DEF Later
  <2>. QED BY <1>3, <2>1
<1>. HIDE DEF g
<1>5. pc'[h] = "route" /\ frame'[h] = g(u) /\ \A k \in Handler \ {h} : pc'[k] = pc[k] /\ frame'[k] = frame[k]
  BY <1>1 DEF Go, TypeInv, HandlersOK
<1>6. Aims("route", g(u))
  BY <1>4 DEF Aims
<1>7. \A t \in Sole : Holds(pc'[h], frame'[h], t) => t = u
  BY <1>3, <1>5 DEF Holds
<1>8. Alone(h)
  BY <1>5, <1>6 DEF Alone
<1>9. Idling(u) /\ ~ Idling(u)'
  BY <1>1, StatusIs, NotIdleStatuses DEF Idling
<1>10. \A t \in Sole : t # u => StaysBusy(t)
  BY <1>1, StatusIs, SoleTask DEF StaysBusy, Idling
<1>. QED BY <1>2, <1>7, <1>8, <1>9, <1>10, ComesToHand

LEMMA LapsePlace == ASSUME TypeInv, PlaceInv, NEW a \in Agent, Lapse(a) PROVE PlaceInv'
<1>1. Lessens /\ UNCHANGED <<pc, frame, task>>
  BY DEF Lapse, Lessens, mail
<1>. QED BY <1>1, StillPlace

LEMMA CrashPlace == ASSUME TypeInv, PlaceInv, NEW a \in Agent, Crash(a) PROVE PlaceInv'
<1>1. Lessens /\ UNCHANGED <<pc, frame, task>>
  BY DEF Crash, Lessens, docs
<1>. QED BY <1>1, StillPlace

LEMMA ExpirePlace == ASSUME TypeInv, PlaceInv, NEW m \in queue, Expire(m) PROVE PlaceInv'
<1>1. Lessens /\ UNCHANGED <<pc, frame, task>>
  BY DEF Expire, Lessens, docs
<1>. QED BY <1>1, StillPlace

\* The process takes the place of the message.
LEMMA ConsumePlace == ASSUME TypeInv, PlaceInv, NEW m \in queue, Consume(m) PROVE PlaceInv'
<1>1. outcome[m.outcome].task = m.task /\ m.outcome \in Outcome
  BY DEF TypeInv, MailOK, MessageOK, Message
<1>2. /\ queue' = queue \ {m} /\ run' = run \cup {m.outcome} /\ UNCHANGED <<task, dead, errors, pc, frame>>
  BY DEF Consume
<1>3. \A o \in Outcome : outcome'[o].task = outcome[o].task
  <2>1. PICK s : outcome' = [outcome EXCEPT ![m.outcome].status = s]
    BY DEF Consume
  <2>2. ASSUME NEW o \in Outcome PROVE outcome'[o].task = outcome[o].task
    <3>1. CASE o = m.outcome
      BY <2>1, <3>1 DEF TypeInv, DocumentsOK, Document
    <3>2. CASE o # m.outcome
      BY <2>1, <3>2 DEF TypeInv, DocumentsOK
    <3>. QED BY <3>1, <3>2
  <2>. QED BY <2>2
<1>4. run \subseteq Outcome
  BY DEF TypeInv, MailOK
<1>5. ASSUME NEW t \in Sole PROVE Calm(t)'
  <2>1. Calm(t)
    BY DEF PlaceInv, Calm
  <2>2. Idling(t)' = Idling(t) /\ InHand(t)' = InHand(t)
    BY <1>2 DEF Idling, InHand
  <2>3. CASE t = m.task
    <3>1. OnlyMail(m, t) /\ ~ Idling(t)
      BY <2>1, <2>3, MailIsOnly
    <3>2. ~ InHand(t)' /\ t \notin errors'
      BY <1>2, <2>2, <3>1 DEF OnlyMail
    <3>3. ~ InMail(t)'
      BY <1>2, <3>1 DEF OnlyMail, InMail
    <3>4. \A p \in run' : outcome'[p].task = t => p = m.outcome
      BY <1>2, <1>3, <1>4, <3>1 DEF OnlyMail, Runs
    <3>5. OnlyRun(m.outcome, t)'
      BY <3>2, <3>3, <3>4 DEF OnlyRun
    <3>. QED BY <2>2, <3>1, <3>5, OnlyRunCalm
  <2>4. CASE t # m.task
    <3>1. Fewer(t)
      BY <1>1, <1>2, <1>3, <1>4, <2>2, <2>4 DEF Fewer
    <3>. QED BY <2>1, <3>1, FewerKeeps
  <2>. QED BY <2>3, <2>4
<1>6. \A k \in Handler : Aims(pc'[k], frame'[k])
  BY <1>2 DEF PlaceInv
<1>. QED BY <1>5, <1>6 DEF PlaceInv, Calm

LEMMA FinishPlace == ASSUME TypeInv, PlaceInv, NEW h \in Handler, NEW o \in run, Finish(h, o) PROVE PlaceInv'
<1>. DEFINE items == <<Item("list", 0, outcome[o].agent, 0)>>
<1>1. o \in Outcome /\ run' = run \ {o} /\ UNCHANGED <<task, queue, dead, errors>> /\ run \subseteq Outcome
  BY DEF Finish, TypeInv, MailOK
<1>2. outcome[o].agent \in Agent \cup {NoAgent}
  BY <1>1 DEF TypeInv, DocumentsOK, Document
<1>3. TodoOK(outcome, items) /\ Mild(items) /\ items # <<>>
  BY <1>2, Items, TodoOne, GentleItems, MildOne
<1>4. items \in Seq(AnyItem)
  BY <1>3 DEF TodoOK
<1>. HIDE DEF items
<1>5. CASE outcome[o].status < SUCCEEDED
  <2>1. Marked(o, SUCCEEDED) /\ Start(h, items)
    BY <1>5 DEF Finish, Marked, items
  <2>2. \A p \in Outcome : outcome'[p].task = outcome[p].task
    BY <1>1, <2>1, StatusesOK, MarkedOK DEF TypeInv
  <2>3. Lessens
    BY <1>1, <2>2 DEF Lessens
  <2>4. Carried(h)
    BY <1>3, <1>4, <2>1, StartFrees, FreedCarried
  <2>. QED BY <1>1, <2>3, <2>4, TaskSame, CarriedPlace
<1>6. CASE ~ (outcome[o].status < SUCCEEDED)
  <2>1. UNCHANGED <<outcome, pc, frame>>
    BY <1>6 DEF Finish
  <2>2. Lessens
    BY <1>1, <2>1 DEF Lessens
  <2>. QED BY <1>1, <2>1, <2>2, StillPlace
<1>. QED BY <1>5, <1>6

\* A start whose first item takes a task.
LEMMA StartTakes ==
    ASSUME TypeInv, NEW h \in Handler, NEW items, items \in Seq(AnyItem), Later(items), items # <<>>, Start(h, items)
    PROVE  Alone(h) /\ \A t \in Sole : Holds(pc'[h], frame'[h], t) => Takes(Head(items), t)
<1>. DEFINE g == [EmptyFrame EXCEPT !.todo = items]
<1>1. /\ \A k \in Handler \ {h} : pc'[k] = pc[k] /\ frame'[k] = frame[k]
      /\ pc'[h] = "work" /\ frame'[h] = g
  BY DEF Start, TypeInv, HandlersOK
<1>2. g.todo = items /\ g.task = 0
  BY DEF EmptyFrame
<1>. HIDE DEF g
<1>3. \A t \in Sole : Holds("work", g, t) => Takes(Head(items), t)
  BY <1>2, SoleTask DEF Holds
<1>4. Aims("work", g)
  BY <1>2 DEF Aims
<1>. QED BY <1>1, <1>3, <1>4 DEF Alone

\* The handler takes the place of the dead message.
LEMMA ExpiredPlace == ASSUME TypeInv, PlaceInv, NEW h \in Handler, OnTTLMessage(h) PROVE PlaceInv'
<1>. DEFINE again(m) == <<Item("republish", m.task, NoAgent, 0), Catch>>
            anew(m) == <<Item("requeue", m.task, m.agent, m.outcome)>>
<1>1. PICK m \in dead : /\ dead' = dead \ {m}
                        /\ \/ Target[m.task] = "single" /\ Start(h, again(m))
                           \/ Target[m.task] # "single" /\ Start(h, anew(m))
  BY DEF OnTTLMessage
<1>2. UNCHANGED <<docs, queue, errors, run>>
  BY DEF OnTTLMessage
<1>3. m \in Message /\ outcome[m.outcome].task = m.task
  BY DEF TypeInv, MailOK, MessageOK
<1>4. m.task \in Task /\ m.agent \in Agent /\ m.outcome \in Outcome
  BY <1>3 DEF Message
<1>5. TodoOK(outcome, again(m)) /\ again(m) # <<>> /\ Later(again(m))
  BY <1>4, Items, TodoTwo, GentleItems, LaterTwo
<1>6. Head(again(m)) = Item("republish", m.task, NoAgent, 0)
  OBVIOUS
<1>7. Target[m.task] # "single" => TodoOK(outcome, anew(m)) /\ anew(m) # <<>> /\ Mild(anew(m))
  BY <1>3, <1>4, Items, TodoOne, GentleItems, MildOne
<1>. HIDE DEF again, anew
<1>8. Lessens /\ UNCHANGED task
  BY <1>1, <1>2 DEF Lessens, docs
<1>9. CASE Target[m.task] # "single" /\ Start(h, anew(m))
  <2>1. anew(m) \in Seq(AnyItem)
    BY <1>7, <1>9 DEF TodoOK
  <2>2. Carried(h)
    BY <1>7, <1>9, <2>1, StartFrees, FreedCarried
  <2>. QED BY <1>8, <2>2, TaskSame, CarriedPlace
<1>10. CASE Target[m.task] = "single" /\ Start(h, again(m))
  <2>1. again(m) \in Seq(AnyItem)
    BY <1>5 DEF TodoOK
  <2>2. Alone(h) /\ \A t \in Sole : Holds(pc'[h], frame'[h], t) => t = m.task
    BY <1>5, <1>6, <1>10, <2>1, StartTakes DEF Takes, Item
  <2>3. ASSUME NEW t \in Sole PROVE Calm(t)'
    <3>1. Calm(t)
      BY DEF PlaceInv, Calm
    <3>2. Idling(t)' = Idling(t)
      BY <1>8 DEF Idling
    <3>3. CASE t = m.task
      <4>1. OnlyMail(m, t) /\ ~ Idling(t)
        BY <3>1, <3>3, MailIsOnly
      <4>2. ~ InMail(t)'
        BY <1>1, <1>2, <4>1 DEF OnlyMail, InMail
      <4>3. ~ Runs(t)' /\ t \notin errors'
        BY <1>2, <4>1 DEF OnlyMail, Runs, docs
      <4>4. \A k \in Handler : Holds(pc'[k], frame'[k], t) => k = h
        BY <2>2, <4>1 DEF Alone, OnlyMail, InHand
      <4>5. OnlyHand(h, t)'
        BY <4>2, <4>3, <4>4 DEF OnlyHand
      <4>. QED BY <3>2, <4>1, <4>5, OnlyHandCalm
    <3>4. CASE t # m.task
      <4>1. \A k \in Handler : Holds(pc'[k], frame'[k], t) => Holds(pc[k], frame[k], t)
        BY <2>2, <3>4 DEF Alone
      <4>2. Fewer(t)
        BY <1>8, <3>2, <4>1 DEF Fewer, Lessens
      <4>. QED BY <3>1, <4>2, FewerKeeps
    <3>. QED BY <3>3, <3>4
  <2>4. \A k \in Handler : Aims(pc'[k], frame'[k])
    BY <2>2, AimsStay
  <2>. QED BY <2>3, <2>4 DEF PlaceInv, Calm
<1>. QED BY <1>1, <1>9, <1>10

\* The handler takes the place of the error.
LEMMA RefusedPlace == ASSUME TypeInv, PlaceInv, NEW h \in Handler, OnLaunchTaskErrorMessage(h) PROVE PlaceInv'
<1>. DEFINE items(t) == <<Item("fail", t, NoAgent, 0), Item("errorOutcome", t, NoAgent, 0), Item("list", 0, NoAgent, 0)>>
<1>1. PICK u \in errors : errors' = errors \ {u} /\ Start(h, items(u))
  BY DEF OnLaunchTaskErrorMessage
<1>2. UNCHANGED <<docs, queue, dead, run>>
  BY DEF OnLaunchTaskErrorMessage
<1>3. u \in Task
  BY DEF TypeInv, MailOK
<1>4. TodoOK(outcome, items(u)) /\ items(u) # <<>> /\ Later(items(u))
  BY <1>3, Items, TodoThree, GentleItems, LaterThree
<1>5. Head(items(u)) = Item("fail", u, NoAgent, 0)
  OBVIOUS
<1>. HIDE DEF items
<1>6. items(u) \in Seq(AnyItem)
  BY <1>4 DEF TodoOK
<1>7. Alone(h) /\ \A t \in Sole : Holds(pc'[h], frame'[h], t) => t = u
  BY <1>1, <1>4, <1>5, <1>6, StartTakes DEF Takes, Item
<1>8. ASSUME NEW t \in Sole PROVE Calm(t)'
  <2>1. Calm(t)
    BY DEF PlaceInv, Calm
  <2>2. Idling(t)' = Idling(t)
    BY <1>2 DEF Idling, docs
  <2>3. CASE t = u
    <3>1. OnlyError(t) /\ ~ Idling(t)
      BY <2>1, <2>3, ErrorIsOnly
    <3>2. ~ InMail(t)' /\ ~ Runs(t)' /\ t \notin errors'
      BY <1>1, <1>2, <2>3, <3>1 DEF OnlyError, InMail, Runs, docs
    <3>3. \A k \in Handler : Holds(pc'[k], frame'[k], t) => k = h
      BY <1>7, <3>1 DEF Alone, OnlyError, InHand
    <3>4. OnlyHand(h, t)'
      BY <3>2, <3>3 DEF OnlyHand
    <3>. QED BY <2>2, <3>1, <3>4, OnlyHandCalm
  <2>4. CASE t # u
    <3>1. \A k \in Handler : Holds(pc'[k], frame'[k], t) => Holds(pc[k], frame[k], t)
      BY <1>7, <2>4 DEF Alone
    <3>2. Fewer(t)
      BY <1>1, <1>2, <2>2, <3>1 DEF Fewer, docs
    <3>. QED BY <2>1, <3>2, FewerKeeps
  <2>. QED BY <2>3, <2>4
<1>9. \A k \in Handler : Aims(pc'[k], frame'[k])
  BY <1>7, AimsStay
<1>. QED BY <1>8, <1>9 DEF PlaceInv, Calm

LEMMA HeartbeatPlace == ASSUME TypeInv, PlaceInv, NEW h \in Handler, NEW a \in Agent, Heartbeat(h, a) PROVE PlaceInv'
<1>. DEFINE items == <<Item("lost", 0, a, 0)>> \o Welcome(a) \o <<Item("answer", 0, a, 0)>>
<1>1. (Start(h, items) \/ UNCHANGED <<pc, frame>>) /\ UNCHANGED <<task, outcome, mail>>
  BY DEF Heartbeat
<1>2. Lessens
  BY <1>1 DEF Lessens, mail
<1>3. items \in Seq(AnyItem) /\ Mild(items)
  <2>. DEFINE x == <<Item("lost", 0, a, 0)>>
              y == <<Item("list", 0, a, 0)>>
              z == <<Item("again", 0, a, 0)>>
              w == <<Item("answer", 0, a, 0)>>
  <2>1. Mild(x) /\ Mild(y) /\ Mild(z) /\ Mild(w)
    BY GentleItems, MildOne
  <2>2. TodoOK(outcome, x) /\ TodoOK(outcome, y) /\ TodoOK(outcome, z) /\ TodoOK(outcome, w)
    BY Items, TodoOne
  <2>3. Welcome(a) = y \o z
    BY DEF Welcome
  <2>4. items = x \o (y \o z) \o w
    BY <2>3
  <2>. HIDE DEF x, y, z, w, items
  <2>5. x \in Seq(AnyItem) /\ y \in Seq(AnyItem) /\ z \in Seq(AnyItem) /\ w \in Seq(AnyItem)
    BY <2>2 DEF TodoOK
  <2>6. y \o z \in Seq(AnyItem) /\ Mild(y \o z)
    BY <2>1, <2>5, MildJoin, ConcatProperties
  <2>7. x \o (y \o z) \in Seq(AnyItem) /\ Mild(x \o (y \o z))
    BY <2>1, <2>5, <2>6, MildJoin, ConcatProperties
  <2>8. x \o (y \o z) \o w \in Seq(AnyItem) /\ Mild(x \o (y \o z) \o w)
    BY <2>1, <2>5, <2>7, MildJoin, ConcatProperties
  <2>. QED BY <2>4, <2>8
<1>4. items # <<>>
  <2>1. \A i, j, k, l : <<i>> \o <<j, k>> \o <<l>> # <<>>
    OBVIOUS
  <2>. QED BY <2>1 DEF Welcome
<1>. HIDE DEF items
<1>5. CASE Start(h, items)
  BY <1>1, <1>2, <1>3, <1>4, <1>5, StartFrees, FreedCarried, TaskSame, CarriedPlace
<1>6. CASE UNCHANGED <<pc, frame>>
  BY <1>1, <1>2, <1>6, StillPlace
<1>. QED BY <1>1, <1>5, <1>6

LEMMA OrphansAskedPlace ==
    ASSUME TypeInv, PlaceInv, NEW h \in Handler, NEW a \in Agent, ProcessOrphanedTasks(h, a)
    PROVE  PlaceInv'
<1>. DEFINE items == <<Item("orphans", 0, a, 0)>>
<1>1. Start(h, items) /\ UNCHANGED <<docs, mail>>
  BY DEF ProcessOrphanedTasks
<1>2. TodoOK(outcome, items) /\ Mild(items) /\ items # <<>>
  BY Items, TodoOne, GentleItems, MildOne
<1>3. items \in Seq(AnyItem)
  BY <1>2 DEF TodoOK
<1>. HIDE DEF items
<1>4. Carried(h)
  BY <1>1, <1>2, <1>3, StartFrees, FreedCarried
<1>. QED BY <1>1, <1>4, TaskSame, QuietPlace DEF docs

LEMMA ListOrphansPlace == ASSUME TypeInv, PlaceInv, NEW h \in Handler, ListOrphans(h) PROVE PlaceInv'
<1>. DEFINE f == frame[h]
            a == Head(f.todo).agent
            S == {o \in Existing : outcome[o].agent = a /\ outcome[o].status < SUCCEEDED}
            orphans(s) == [k \in DOMAIN s |-> Item("orphan", outcome[s[k]].task, a, s[k])]
            last == <<Item("offline", 0, a, 0)>>
<1>1. At(h, "orphans") /\ UNCHANGED <<outcome, mail, task>>
  BY DEF ListOrphans, docs
<1>2. PICK s \in Listings(S) : Go(h, "work", Then(f, orphans(s) \o last))
  BY DEF ListOrphans
<1>3. a \in Agent
  BY <1>1, AtItem DEF ItemOK, NaturalAgent
<1>4. S \subseteq Outcome /\ S \subseteq Existing
  BY DEF Existing
<1>5. IsFiniteSet(S)
  BY <1>4, FS_Subset
<1>. HIDE DEF S, a
<1>6. Cardinality(S) \in Nat /\ s \in [1..Cardinality(S) -> S]
  BY <1>5, ListingsOK
<1>7. \A k \in 1..Cardinality(S) : s[k] \in Outcome /\ outcome[s[k]].task \in Task
  BY <1>4, <1>6 DEF TypeInv, DocumentsOK, Document, Existing
<1>8. \A k \in 1..Cardinality(S) : orphans(s)[k] \in AnyItem
  BY <1>3, <1>6, <1>7, Items, ZeroIsNoTask DEF ItemOK
<1>9. orphans(s) \in Seq(AnyItem)
  <2>1. orphans(s) \in [1..Cardinality(S) -> AnyItem]
    BY <1>6, <1>8
  <2>. HIDE DEF orphans
  <2>. QED BY <1>6, <2>1
<1>10. Mild(orphans(s))
  BY GentleItems DEF Mild, Gentle
<1>11. TodoOK(outcome, last) /\ Mild(last)
  BY <1>3, Items, TodoOne, GentleItems, MildOne
<1>. HIDE DEF orphans, last
<1>12. last \in Seq(AnyItem)
  BY <1>11 DEF TodoOK
<1>13. orphans(s) \o last \in Seq(AnyItem) /\ Mild(orphans(s) \o last)
  BY <1>9, <1>10, <1>11, <1>12, MildJoin, ConcatProperties
<1>. QED BY <1>1, <1>2, <1>13, AtItem, ThenPlace

LEMMA RecoveryMild ==
    ASSUME NEW i, i.agent \in Agent, i.task \in Task, i.task \in AutoRestart => Restarted(i.task) \in AutoRestart
    PROVE  Recovery(i) \in Seq(AnyItem) /\ Mild(Recovery(i))
<1>. DEFINE list == <<Item("list", 0, i.agent, 0)>>
            again == IF i.task \in AutoRestart THEN <<Item("republish", Restarted(i.task), NoAgent, 0)>> ELSE <<>>
            end == <<Catch>>
<1>1. Mild(list) /\ Mild(end)
  BY GentleItems, MildOne
<1>2. Mild(again)
  <2>1. i.task \in AutoRestart => Restarted(i.task) \notin Sole
    BY DEF Sole
  <2>2. i.task \in AutoRestart => Mild(<<Item("republish", Restarted(i.task), NoAgent, 0)>>)
    BY <2>1, GentleItems, MildOne
  <2>. QED BY <2>2, MildNone
<1>3. \A outs : TodoOK(outs, list) /\ TodoOK(outs, end)
  BY Items, TodoOne
<1>4. \A outs : TodoOK(outs, again)
  <2>1. \A outs : TodoOK(outs, <<Item("republish", Restarted(i.task), NoAgent, 0)>>)
    BY RestartedOK, Items, TodoOne
  <2>. QED BY <2>1, TodoNone
<1>5. Recovery(i) = list \o again \o end
  BY DEF Recovery
<1>. HIDE DEF list, again, end
<1>6. list \in Seq(AnyItem) /\ again \in Seq(AnyItem) /\ end \in Seq(AnyItem)
  BY <1>3, <1>4 DEF TodoOK
<1>7. list \o again \in Seq(AnyItem) /\ Mild(list \o again)
  BY <1>1, <1>2, <1>6, MildJoin, ConcatProperties
<1>8. list \o again \o end \in Seq(AnyItem) /\ Mild(list \o again \o end)
  BY <1>1, <1>6, <1>7, MildJoin, ConcatProperties
<1>. QED BY <1>5, <1>8

\* A task that restarts has lost its agent: what is published again restarts too.
RestartsRestart == \A t \in AutoRestart : Restarted(t) \in AutoRestart

LEMMA OrphanPlace ==
    ASSUME RestartsRestart, TypeInv, PlaceInv, NEW h \in Handler, Orphan(h)
    PROVE  PlaceInv'
<1>. DEFINE f == frame[h]
            i == Head(f.todo)
            s == IF i.task \in AutoRestart THEN CANCELLED ELSE INTERRUPTED
<1>1. At(h, "orphan") /\ UNCHANGED <<agent, task, mail>>
  BY DEF Orphan
<1>2. \/ Lost(i.outcome, s) /\ Go(h, "work", Then(f, Recovery(i)))
      \/ UNCHANGED outcome /\ Go(h, "work", Rest(f))
  BY DEF Orphan, Lost, Recovery
<1>3. i.task \in Task /\ i.agent \in Agent /\ i.outcome \in Outcome
  BY <1>1, AtItem DEF ItemOK, NaturalTask, NaturalAgent
<1>4. s \in TaskStatus
  BY StatusesOK
<1>5. pc[h] # "idle"
  BY <1>1, AtItem
<1>6. Recovery(i) \in Seq(AnyItem) /\ Mild(Recovery(i))
  BY <1>3, RecoveryMild DEF RestartsRestart
<1>. HIDE DEF f, i, s
<1>7. CASE Lost(i.outcome, s) /\ Go(h, "work", Then(f, Recovery(i)))
  <2>1. \A p \in Outcome : outcome'[p].task = outcome[p].task
    BY <1>3, <1>4, <1>7, LostOK DEF TypeInv
  <2>2. Lessens
    BY <1>1, <2>1 DEF Lessens, mail, TypeInv, MailOK
  <2>3. Carried(h)
    BY <1>5, <1>6, <1>7, ThenFrees, FreedCarried DEF f
  <2>. QED BY <1>1, <2>2, <2>3, TaskSame, CarriedPlace
<1>8. CASE UNCHANGED outcome /\ Go(h, "work", Rest(f))
  BY <1>1, <1>5, <1>8, TaskSame, RestPlace DEF f
<1>. QED BY <1>2, <1>7, <1>8

LEMMA CatchPlace == ASSUME TypeInv, PlaceInv, NEW h \in Handler, CatchItem(h) PROVE PlaceInv'
<1>1. At(h, "catch") /\ Go(h, "work", Rest(frame[h])) /\ UNCHANGED <<task, outcome, mail>>
  BY DEF CatchItem, docs
<1>. QED BY <1>1, AtItem, TaskSame, RestPlace

LEMMA SetOfflinePlace == ASSUME TypeInv, PlaceInv, NEW h \in Handler, SetOffline(h) PROVE PlaceInv'
<1>1. At(h, "offline") /\ Go(h, "work", Rest(frame[h])) /\ UNCHANGED <<task, outcome, mail>>
  BY DEF SetOffline
<1>. QED BY <1>1, AtItem, TaskSame, RestPlace

LEMMA ServePlace == ASSUME RestartsRestart, TypeInv, PlaceInv, NEW h \in Handler, Serve(h) PROVE PlaceInv'
<1>1. CASE FailTask(h) \/ ErrorOutcome(h) \/ GetTaskRoutes(h) \/ WaitForAgent(h) \/ AssignAgent(h)
  BY <1>1, FailTaskPlace, ErrorOutcomePlace, GetTaskRoutesPlace, WaitForAgentPlace, AssignAgentPlace
<1>2. CASE SetPublished(h) \/ CreateOutcome(h) \/ SendTask(h)
  BY <1>2, SetPublishedPlace, CreateOutcomePlace, SendTaskPlace
<1>3. CASE RepublishTask(h) \/ RequeueTask(h) \/ Resend(h) \/ Requeued(h)
  BY <1>3, RepublishTaskPlace, RequeueTaskPlace, ResendPlace, RequeuedPlace
<1>4. CASE ListLost(h) \/ Answer(h) \/ ListWaiting(h) \/ LookAgain(h) \/ PullAgent(h) \/ ClaimTask(h)
  BY <1>4, ListLostPlace, AnswerPlace, ListWaitingPlace, LookAgainPlace, PullAgentPlace, ClaimTaskPlace
<1>5. CASE ListOrphans(h) \/ Orphan(h) \/ CatchItem(h) \/ SetOffline(h)
  BY <1>5, ListOrphansPlace, OrphanPlace, CatchPlace, SetOfflinePlace
<1>. QED BY <1>1, <1>2, <1>3, <1>4, <1>5 DEF Serve

LEMMA EnvironmentPlace == ASSUME TypeInv, PlaceInv, Environment PROVE PlaceInv'
<1>1. ASSUME NEW a \in Agent, Lapse(a) \/ Crash(a) PROVE PlaceInv'
  BY <1>1, LapsePlace, CrashPlace
<1>2. ASSUME NEW m \in queue, Consume(m) \/ Expire(m) PROVE PlaceInv'
  BY <1>2, ConsumePlace, ExpirePlace
<1>3. ASSUME NEW h \in Handler, Launch(h) \/ OnTTLMessage(h) \/ OnLaunchTaskErrorMessage(h) PROVE PlaceInv'
  BY <1>3, LaunchPlace, ExpiredPlace, RefusedPlace
<1>4. ASSUME NEW h \in Handler, NEW o \in run, Finish(h, o) PROVE PlaceInv'
  BY <1>4, FinishPlace
<1>5. ASSUME NEW h \in Handler, NEW a \in Agent, Heartbeat(h, a) \/ ProcessOrphanedTasks(h, a) PROVE PlaceInv'
  BY <1>5, HeartbeatPlace, OrphansAskedPlace
<1>. QED BY <1>1, <1>2, <1>3, <1>4, <1>5 DEF Environment

LEMMA InitPlaces == Init => PlaceInv
<1>. SUFFICES ASSUME Init PROVE PlaceInv
  OBVIOUS
<1>1. \A t \in Sole : Once(t) /\ Apart(t) /\ AtRest(t)
  BY DEF Init, Once, Apart, AtRest, InMail, Runs, InHand, Holds
<1>2. \A h \in Handler : Aims(pc[h], frame[h])
  BY IdleHolds DEF Init
<1>. QED BY <1>1, <1>2 DEF PlaceInv

LEMMA StepPlaces == RestartsRestart /\ TypeInv /\ PlaceInv /\ [Next]_vars => PlaceInv'
<1>. SUFFICES ASSUME RestartsRestart, TypeInv, PlaceInv, [Next]_vars PROVE PlaceInv'
  OBVIOUS
<1>1. CASE UNCHANGED vars
  <2>1. UNCHANGED <<pc, frame, task>> /\ Lessens
    BY <1>1 DEF vars, Lessens
  <2>. QED BY <2>1, StillPlace
<1>2. CASE Environment
  BY <1>2, EnvironmentPlace
<1>3. ASSUME NEW h \in Handler, Serve(h) PROVE PlaceInv'
  BY <1>3, ServePlace
<1>. QED BY <1>1, <1>2, <1>3 DEF Next

-----------------------------------------------------------------------------
(***************************************************************************)
(* Tasks that wait for an agent: the invariant                             *)
(***************************************************************************)
\* The tasks OneRunner does not speak of, where no task restarts by itself.
Shared == {t \in Task : Target[t] # "single"}

Asks(i, do, t) == i.do = do /\ i.task = t
Has(s, do) == \E k \in DOMAIN s : s[k].do = do
NoPulls(s) == ~ Has(s, "pull")
\* An item for the task, anywhere or from the second place on.
Holding(s, do, t) == \E k \in DOMAIN s : Asks(s[k], do, t)
Beyond(s, do, t) == \E k \in DOMAIN s : Asks(s[k], do, t) /\ k # 1

\* The tasks are offered one by one, each once, and before anything else.
PullsFirst(s) ==
    /\ \A k \in DOMAIN s : s[k].do = "pull" => \A j \in 1..k : s[j].do = "pull"
    /\ \A j, k \in DOMAIN s : s[j].do = "pull" /\ s[k].do = "pull" /\ s[j].task = s[k].task => j = k

Plan(s) == PullsFirst(s) /\ \A k \in DOMAIN s : s[k].do = "republish" => s[k].task \notin Shared

\* What a handler publishes, and for whom.
Quest(p, f) ==
    /\ p = "idle" => f = EmptyFrame
    /\ Plan(f.todo)
    /\ p \in Publishing => Head(f.todo).do \in {"launch", "republish", "requeue", "pull"}
    /\ p \in {"resend", "requeued"} => f.requeue # NoAgent
    /\ p \in {"assign", "published", "create", "send"} => f.requeue = NoAgent

\* The handler will write the status of the task.
Writes(p, f, t) == p \in {"route", "wait", "assign", "published", "resend", "requeued"} /\ f.task = t
Fails(f, t) == Holding(f.todo, "fail", t)

\* One handler at a time does, for the tasks OneRunner does not speak of.
Lock(t) ==
    /\ \A g, h \in Handler : Writes(pc[g], frame[g], t) /\ Writes(pc[h], frame[h], t) => g = h
    /\ \A h \in Handler : Writes(pc[h], frame[h], t) =>
           task[t].status = IF frame[h].requeue = NoAgent THEN NOT_STARTED ELSE NULL
    /\ t \in errors \/ (\E h \in Handler : Fails(frame[h], t)) =>
           task[t].status \in {NOT_STARTED, FAILED} /\ \A h \in Handler : ~Writes(pc[h], frame[h], t)

\* The task is still to be offered: it is not being published yet.
Pulls(p, f, t) == Beyond(f.todo, "pull", t) \/ (p \in {"work", "claim"} /\ Holding(f.todo, "pull", t))

Alert(t) == \E g \in Handler : Has(frame[g].todo, "list") \/ Has(frame[g].todo, "again") \/ Pulls(pc[g], frame[g], t)

\* While requests that offer waiting tasks do not overlap.
Solo == \A g, h \in Handler : Offers(frame[g].todo) /\ Offers(frame[h].todo) => g = h
PullsWait == \A h \in Handler, t \in Task : Pulls(pc[h], frame[h], t) => task[t].status = WAITING_FOR_AGENT
TriedKnown ==
    \A h \in Handler : pc[h] \in {"route", "wait"} /\ frame[h].task \notin Shared =>
        frame[h].tried = task[frame[h].task].attempted /\ task[frame[h].task].status = NOT_STARTED
AgainComes ==
    \A h \in Handler : pc[h] = "wait" /\ frame[h].task \notin Shared =>
        \/ \A a \in Agent : Active(a) => a \in frame[h].tried
        \/ \E g \in Handler : Has(frame[g].todo, "again")
WaitersSeen ==
    \A t \in Task \ Shared : task[t].status = WAITING_FOR_AGENT =>
        Alert(t) \/ \A a \in Agent : Active(a) => a \in task[t].attempted
OfferInv == Solo /\ PullsWait /\ TriedKnown /\ AgainComes /\ WaitersSeen

WaitInv ==
    /\ \A h \in Handler : Quest(pc[h], frame[h])
    /\ \A t \in Shared : Lock(t)
    /\ ~crowded => OfferInv

-----------------------------------------------------------------------------
(***************************************************************************)
(* Tasks that wait: sequences of items                                     *)
(***************************************************************************)
\* r is what is left of s after the first n items.
Left(r, s, n) == \A k \in DOMAIN r : k \in Nat \ {0} /\ k + n \in DOMAIN s /\ r[k] = s[k + n]

LEMMA TailLeft ==
    ASSUME NEW s \in Seq(AnyItem), s # <<>>
    PROVE  Left(Tail(s), s, 1) /\ \A k \in DOMAIN s : k # 1 => k - 1 \in DOMAIN Tail(s) /\ Tail(s)[k - 1] = s[k]
<1>1. /\ Len(s) \in Nat /\ DOMAIN s = 1..Len(s) /\ Tail(s) \in Seq(AnyItem) /\ Len(Tail(s)) = Len(s) - 1
      /\ DOMAIN Tail(s) = 1..Len(Tail(s))
  BY HeadTailProperties, LenProperties
<1>2. \A k \in 1..Len(Tail(s)) : Tail(s)[k] = s[k + 1]
  BY HeadTailProperties
<1>. DEFINE r == Tail(s)
<1>. HIDE DEF r
<1>3. Left(r, s, 1)
  BY <1>1, <1>2 DEF Left, r
<1>4. ASSUME NEW k \in DOMAIN s, k # 1 PROVE k - 1 \in DOMAIN r /\ r[k - 1] = s[k]
  <2>1. k - 1 \in 1..Len(r) /\ (k - 1) + 1 = k
    BY <1>1, <1>4 DEF r
  <2>. QED BY <1>1, <1>2, <2>1 DEF r
<1>. QED BY <1>3, <1>4 DEF r

LEMMA SuffixLeft ==
    ASSUME NEW s \in Seq(AnyItem), NEW i \in 1..Len(s)
    PROVE  Left(SubSeq(s, i + 1, Len(s)), s, i)
<1>. DEFINE r == SubSeq(s, i + 1, Len(s))
<1>1. Len(s) \in Nat /\ DOMAIN s = 1..Len(s)
  BY LenProperties
<1>2. r = [k \in 1..(Len(s) - i) |-> s[k + i]]
  BY <1>1
<1>. HIDE DEF r
<1>3. Left(r, s, i)
  BY <1>1, <1>2 DEF Left
<1>. QED BY <1>3 DEF r

LEMMA LeftPlan ==
    ASSUME NEW s, NEW r \in Seq(AnyItem), NEW n \in Nat, Left(r, s, n), Plan(s)
    PROVE  Plan(r)
<1>1. DOMAIN r = 1..Len(r) /\ Len(r) \in Nat
  BY LenProperties
<1>2. \A k \in DOMAIN r : k + n \in DOMAIN s /\ r[k] = s[k + n]
  BY DEF Left
<1>3. ASSUME NEW k \in DOMAIN r, r[k].do = "pull", NEW j \in 1..k PROVE r[j].do = "pull"
  <2>1. k + n \in DOMAIN s /\ s[k + n].do = "pull" /\ k \in Nat
    BY <1>1, <1>2, <1>3
  <2>2. j + n \in 1..(k + n)
    BY <2>1
  <2>3. s[j + n].do = "pull"
    BY <2>1, <2>2 DEF Plan, PullsFirst
  <2>4. j \in DOMAIN r
    BY <1>1
  <2>. QED BY <1>2, <2>3, <2>4
<1>4. ASSUME NEW j \in DOMAIN r, NEW k \in DOMAIN r, r[j].do = "pull", r[k].do = "pull", r[j].task = r[k].task
      PROVE  j = k
  <2>1. s[j + n].do = "pull" /\ s[k + n].do = "pull" /\ s[j + n].task = s[k + n].task
    BY <1>2, <1>4
  <2>2. j + n = k + n
    BY <1>2, <2>1 DEF Plan, PullsFirst
  <2>. QED BY <1>1, <2>2
<1>5. ASSUME NEW k \in DOMAIN r, r[k].do = "republish" PROVE r[k].task \notin Shared
  BY <1>2, <1>5 DEF Plan
<1>6. PullsFirst(r)
  BY <1>3, <1>4 DEF PullsFirst
<1>. QED BY <1>5, <1>6 DEF Plan

LEMMA TailNoPulls ==
    ASSUME NEW s \in Seq(AnyItem), s # <<>>, Plan(s), Head(s).do # "pull"
    PROVE  NoPulls(s) /\ NoPulls(Tail(s))
<1>1. Head(s) = s[1] /\ DOMAIN s = 1..Len(s) /\ Len(s) \in Nat
  BY HeadTailProperties, LenProperties
<1>2. NoPulls(s)
  <2>1. ASSUME NEW k \in DOMAIN s, s[k].do = "pull" PROVE FALSE
    <3>1. 1 \in 1..k
      BY <1>1
    <3>. QED BY <1>1, <2>1, <3>1 DEF Plan, PullsFirst
  <2>. QED BY <2>1 DEF NoPulls, Has
<1>3. NoPulls(Tail(s))
  BY <1>2, TailLeft DEF NoPulls, Has, Left
<1>. QED BY <1>2, <1>3

LEMMA JoinItems ==
    ASSUME NEW s \in Seq(AnyItem), NEW r \in Seq(AnyItem)
    PROVE  /\ s \o r \in Seq(AnyItem)
           /\ \A k \in DOMAIN (s \o r) : \/ k \in DOMAIN s /\ (s \o r)[k] = s[k]
                                         \/ k > Len(s) /\ k - Len(s) \in DOMAIN r /\ (s \o r)[k] = r[k - Len(s)]
           /\ \A k \in DOMAIN s : k \in DOMAIN (s \o r) /\ (s \o r)[k] = s[k]
           /\ \A k \in DOMAIN r : k + Len(s) \in DOMAIN (s \o r) /\ (s \o r)[k + Len(s)] = r[k]
<1>. DEFINE q == s \o r
<1>1. q \in Seq(AnyItem) /\ Len(q) = Len(s) + Len(r) /\ Len(s) \in Nat /\ Len(r) \in Nat
  BY ConcatProperties, LenProperties
<1>2. DOMAIN q = 1..Len(q) /\ DOMAIN s = 1..Len(s) /\ DOMAIN r = 1..Len(r)
  BY <1>1, LenProperties
<1>3. \A k \in 1..Len(q) : q[k] = IF k <= Len(s) THEN s[k] ELSE r[k - Len(s)]
  BY <1>1, ConcatProperties
<1>. HIDE DEF q
<1>4. ASSUME NEW k \in DOMAIN q
      PROVE  \/ k \in DOMAIN s /\ q[k] = s[k]
             \/ k > Len(s) /\ k - Len(s) \in DOMAIN r /\ q[k] = r[k - Len(s)]
  BY <1>1, <1>2, <1>3
<1>5. ASSUME NEW k \in DOMAIN s PROVE k \in DOMAIN q /\ q[k] = s[k]
  BY <1>1, <1>2, <1>3
<1>6. ASSUME NEW k \in DOMAIN r PROVE k + Len(s) \in DOMAIN q /\ q[k + Len(s)] = r[k]
  <2>1. k + Len(s) \in 1..Len(q) /\ ~ (k + Len(s) <= Len(s)) /\ (k + Len(s)) - Len(s) = k
    BY <1>1, <1>2
  <2>. QED BY <1>2, <1>3, <2>1
<1>. QED BY <1>1, <1>4, <1>5, <1>6 DEF q

LEMMA JoinPlan ==
    ASSUME NEW s \in Seq(AnyItem), NEW r \in Seq(AnyItem), Plan(s), Plan(r), NoPulls(r)
    PROVE  Plan(s \o r)
<1>. DEFINE q == s \o r
<1>1. /\ \A k \in DOMAIN q : \/ k \in DOMAIN s /\ q[k] = s[k]
                             \/ \E j \in DOMAIN r : q[k] = r[j]
      /\ \A k \in DOMAIN s : q[k] = s[k] /\ \A j \in 1..k : j \in DOMAIN s
  <2>1. DOMAIN s = 1..Len(s) /\ Len(s) \in Nat
    BY LenProperties
  <2>. QED BY <2>1, JoinItems
<1>. HIDE DEF q
<1>2. \A k \in DOMAIN q : q[k].do = "pull" => k \in DOMAIN s /\ q[k] = s[k]
  BY <1>1 DEF NoPulls, Has
<1>3. ASSUME NEW k \in DOMAIN q, q[k].do = "pull", NEW j \in 1..k PROVE q[j].do = "pull"
  <2>1. k \in DOMAIN s /\ s[k].do = "pull"
    BY <1>2, <1>3
  <2>2. s[j].do = "pull" /\ j \in DOMAIN s
    BY <1>1, <2>1 DEF Plan, PullsFirst
  <2>. QED BY <1>1, <2>2
<1>4. ASSUME NEW j \in DOMAIN q, NEW k \in DOMAIN q, q[j].do = "pull", q[k].do = "pull", q[j].task = q[k].task
      PROVE  j = k
  BY <1>2, <1>4 DEF Plan, PullsFirst
<1>5. ASSUME NEW k \in DOMAIN q, q[k].do = "republish" PROVE q[k].task \notin Shared
  BY <1>1, <1>5 DEF Plan
<1>6. PullsFirst(q)
  BY <1>3, <1>4 DEF PullsFirst
<1>7. Plan(q)
  BY <1>5, <1>6 DEF Plan
<1>. QED BY <1>7 DEF q

\* A plan without pulls.
LEMMA PlainPlan ==
    ASSUME NEW s, NoPulls(s), \A k \in DOMAIN s : s[k].do = "republish" => s[k].task \notin Shared
    PROVE  Plan(s)
BY DEF Plan, PullsFirst, NoPulls, Has

LEMMA TailHas ==
    ASSUME NEW s \in Seq(AnyItem), s # <<>>, NEW do, Has(s, do), Head(s).do # do
    PROVE  Has(Tail(s), do)
<1>1. Head(s) = s[1]
  BY HeadTailProperties
<1>2. PICK k \in DOMAIN s : s[k].do = do
  BY DEF Has
<1>3. k - 1 \in DOMAIN Tail(s) /\ Tail(s)[k - 1] = s[k]
  BY <1>1, <1>2, TailLeft
<1>. QED BY <1>2, <1>3 DEF Has

LEMMA TailHolding ==
    ASSUME NEW s \in Seq(AnyItem), s # <<>>, NEW do, NEW t
    PROVE  Holding(Tail(s), do, t) <=> Beyond(s, do, t)
<1>1. ASSUME Holding(Tail(s), do, t) PROVE Beyond(s, do, t)
  <2>1. PICK k \in DOMAIN Tail(s) : Asks(Tail(s)[k], do, t)
    BY <1>1 DEF Holding
  <2>2. k \in Nat \ {0} /\ k + 1 \in DOMAIN s /\ Tail(s)[k] = s[k + 1]
    BY TailLeft DEF Left
  <2>. QED BY <2>1, <2>2 DEF Beyond
<1>2. ASSUME Beyond(s, do, t) PROVE Holding(Tail(s), do, t)
  <2>1. PICK k \in DOMAIN s : Asks(s[k], do, t) /\ k # 1
    BY <1>2 DEF Beyond
  <2>2. k - 1 \in DOMAIN Tail(s) /\ Tail(s)[k - 1] = s[k]
    BY <2>1, TailLeft
  <2>. QED BY <2>1, <2>2 DEF Holding
<1>. QED BY <1>1, <1>2

LEMMA JoinHolding ==
    ASSUME NEW s \in Seq(AnyItem), NEW r \in Seq(AnyItem)
    PROVE  /\ \A do, t : Holding(s \o r, do, t) <=> Holding(s, do, t) \/ Holding(r, do, t)
           /\ \A do : Has(s \o r, do) <=> Has(s, do) \/ Has(r, do)
<1>. DEFINE q == s \o r
<1>1. /\ \A k \in DOMAIN q : (\E j \in DOMAIN s : q[k] = s[j]) \/ (\E j \in DOMAIN r : q[k] = r[j])
      /\ \A j \in DOMAIN s : \E k \in DOMAIN q : q[k] = s[j]
      /\ \A j \in DOMAIN r : \E k \in DOMAIN q : q[k] = r[j]
  <2>1. \A k \in DOMAIN q : \/ k \in DOMAIN s /\ q[k] = s[k]
                            \/ k - Len(s) \in DOMAIN r /\ q[k] = r[k - Len(s)]
    BY JoinItems
  <2>2. \A j \in DOMAIN s : j \in DOMAIN q /\ q[j] = s[j]
    BY JoinItems
  <2>3. \A j \in DOMAIN r : j + Len(s) \in DOMAIN q /\ q[j + Len(s)] = r[j]
    BY JoinItems
  <2>. HIDE DEF q
  <2>. QED BY <2>1, <2>2, <2>3
<1>. HIDE DEF q
<1>2. \A do, t : Holding(q, do, t) <=> Holding(s, do, t) \/ Holding(r, do, t)
  BY <1>1 DEF Holding
<1>3. \A do : Has(q, do) <=> Has(s, do) \/ Has(r, do)
  BY <1>1 DEF Has
<1>. QED BY <1>2, <1>3 DEF q

LEMMA OneItem == ASSUME NEW i PROVE /\ \A do : Has(<<i>>, do) <=> i.do = do
                                    /\ \A do, t : Holding(<<i>>, do, t) <=> Asks(i, do, t)
<1>1. DOMAIN <<i>> = {1} /\ <<i>>[1] = i
  OBVIOUS
<1>. QED BY <1>1 DEF Has, Holding

LEMMA NoItem == (\A do : ~ Has(<<>>, do)) /\ (\A do, t : ~ Holding(<<>>, do, t) /\ ~ Beyond(<<>>, do, t)) /\ Plan(<<>>)
<1>1. DOMAIN <<>> = {}
  OBVIOUS
<1>. QED BY <1>1 DEF Has, Holding, Beyond, Plan, PullsFirst

-----------------------------------------------------------------------------
(***************************************************************************)
(* Tasks that wait: kinds of steps                                         *)
(***************************************************************************)
Others(h) == \A k \in Handler \ {h} : pc'[k] = pc[k] /\ frame'[k] = frame[k]

\* The handler h has these items to do, or nothing any more; or it publishes.
Works(h, s) == /\ Others(h) /\ pc'[h] \in {"idle", "work"} /\ frame'[h].todo = s
               /\ frame'[h].task = 0 /\ (pc'[h] = "idle" => frame'[h] = EmptyFrame)
Publishes(h, p, f) == Others(h) /\ pc'[h] = p /\ frame'[h] = f

LEMMA WorkLands ==
    ASSUME TypeInv, NEW h \in Handler, NEW f, f.task = 0, Go(h, "work", f)
    PROVE  Works(h, f.todo)
<1>1. /\ \A k \in Handler \ {h} : pc'[k] = pc[k] /\ frame'[k] = frame[k]
      /\ pc'[h] = IF f.todo = <<>> THEN "idle" ELSE "work"
      /\ frame'[h] = IF f.todo = <<>> THEN EmptyFrame ELSE f
  BY DEF Go, TypeInv, HandlersOK
<1>2. EmptyFrame.todo = <<>> /\ EmptyFrame.task = 0
  BY DEF EmptyFrame
<1>. QED BY <1>1, <1>2 DEF Works, Others

LEMMA RestWorks ==
    ASSUME TypeInv, NEW h \in Handler, Go(h, "work", Rest(frame[h]))
    PROVE  Works(h, Tail(frame[h].todo))
<1>1. Rest(frame[h]).todo = Tail(frame[h].todo) /\ Rest(frame[h]).task = 0
  BY DEF Rest, EmptyFrame
<1>. QED BY <1>1, WorkLands

LEMMA ThenWorks ==
    ASSUME TypeInv, NEW h \in Handler, NEW items, Go(h, "work", Then(frame[h], items))
    PROVE  Works(h, items \o Tail(frame[h].todo))
<1>. DEFINE g == Then(frame[h], items)
            s == items \o Tail(frame[h].todo)
<1>1. g.todo = s /\ g.task = 0
  BY DEF Then, Rest, EmptyFrame
<1>. HIDE DEF g, s
<1>2. Works(h, g.todo)
  BY <1>1, WorkLands DEF g
<1>. QED BY <1>1, <1>2 DEF s

LEMMA StartWorks ==
    ASSUME TypeInv, NEW h \in Handler, NEW items, Start(h, items)
    PROVE  Works(h, items)
<1>1. /\ \A k \in Handler \ {h} : pc'[k] = pc[k] /\ frame'[k] = frame[k]
      /\ pc'[h] = "work" /\ frame'[h] = [EmptyFrame EXCEPT !.todo = items]
  BY DEF Start, TypeInv, HandlersOK
<1>2. [EmptyFrame EXCEPT !.todo = items].todo = items /\ [EmptyFrame EXCEPT !.todo = items].task = 0
  BY DEF EmptyFrame
<1>. QED BY <1>1, <1>2 DEF Works, Others

LEMMA GoPublishes ==
    ASSUME TypeInv, NEW h \in Handler, NEW p, NEW f, p \notin {"idle", "work"}, Go(h, p, f)
    PROVE  Publishes(h, p, f)
BY DEF Go, TypeInv, HandlersOK, Publishes, Others

\* An exception leaves a part of what was to be done.
LEMMA ThrowWorks ==
    ASSUME TypeInv, NEW h \in Handler, pc[h] # "idle", Throw(h, frame[h])
    PROVE  \E n \in Nat, r \in Seq(AnyItem) : Works(h, r) /\ Left(r, frame[h].todo, n)
<1>. DEFINE f == frame[h]
            s == f.todo
            caught == {i \in 2..Len(s) : s[i] = Catch}
<1>1. s \in Seq(AnyItem) /\ Len(s) \in Nat
  BY Turn, HeadOK, LenProperties
<1>2. CASE Go(h, "idle", f)
  <2>1. Works(h, <<>>)
    <3>1. Others(h) /\ pc'[h] = "idle" /\ frame'[h] = EmptyFrame
      BY <1>2 DEF Go, TypeInv, HandlersOK, Others
    <3>. QED BY <3>1 DEF Works, EmptyFrame
  <2>2. Left(<<>>, s, 0)
    BY DEF Left
  <2>3. <<>> \in Seq(AnyItem) /\ 0 \in Nat
    OBVIOUS
  <2>. QED BY <2>1, <2>2, <2>3
<1>3. ASSUME NEW i \in caught, Go(h, "work", [Rest(f) EXCEPT !.todo = SubSeq(s, i + 1, Len(s))])
      PROVE  \E n \in Nat, r \in Seq(AnyItem) : Works(h, r) /\ Left(r, s, n)
  <2>. DEFINE r == SubSeq(s, i + 1, Len(s))
              g == [Rest(f) EXCEPT !.todo = r]
  <2>1. i \in 1..Len(s) /\ i \in Nat
    BY <1>1
  <2>2. Left(r, s, i) /\ r \in Seq(AnyItem)
    BY <1>1, <2>1, SuffixLeft, SubSeqProperties
  <2>. HIDE DEF r
  <2>3. g.todo = r /\ g.task = 0
    BY DEF Rest, EmptyFrame
  <2>4. Go(h, "work", g)
    BY <1>3 DEF r
  <2>. HIDE DEF g
  <2>. QED BY <2>1, <2>2, <2>3, <2>4, WorkLands
<1>. QED BY <1>2, <1>3 DEF Throw

\* One task document is written.
Sets(t, s) == task' = [task EXCEPT ![t].status = s]

LEMMA SetsOne ==
    ASSUME TypeInv, NEW t \in Task, NEW s, Sets(t, s)
    PROVE  /\ task'[t].status = s /\ task'[t].attempted = task[t].attempted
           /\ \A u \in Task \ {t} : task'[u] = task[u]
BY DEF TypeInv, DocumentsOK, Sets

LEMMA QuestStep ==
    ASSUME WaitInv, NEW h \in Handler, Others(h), Quest(pc'[h], frame'[h])
    PROVE  \A k \in Handler : Quest(pc'[k], frame'[k])
BY DEF WaitInv, Others

LEMMA WorksQuest == ASSUME NEW h \in Handler, NEW s, Works(h, s), Plan(s) PROVE Quest(pc'[h], frame'[h])
BY DEF Works, Quest, Publishing

-----------------------------------------------------------------------------
(***************************************************************************)
(* Tasks that wait: who writes the status of a task for several agents     *)
(***************************************************************************)
Writing(h, t) == Writes(pc[h], frame[h], t)
Failing(t) == t \in errors \/ \E h \in Handler : Fails(frame[h], t)

LEMMA LockKept ==
    ASSUME NEW t, Lock(t), NEW h \in Handler, Others(h), task'[t].status = task[t].status,
           Writing(h, t)' => Writing(h, t) /\ frame'[h].requeue = frame[h].requeue,
           (t \in errors)' \/ Fails(frame[h], t)' => Failing(t)
    PROVE  Lock(t)'
<1>1. Failing(t)' => Failing(t)
  BY DEF Failing, Others
<1>2. \A k \in Handler : Writing(k, t)' => Writing(k, t) /\ frame'[k].requeue = frame[k].requeue
  BY DEF Others, Writing
<1>. QED BY <1>1, <1>2 DEF Lock, Failing, Writing

\* Nobody wrote it, and h does now.
LEMMA LockTaken ==
    ASSUME NEW t, NEW h \in Handler, Others(h), \A k \in Handler : ~ Writing(k, t), ~ Failing(t),
           task'[t].status = IF frame'[h].requeue = NoAgent THEN NOT_STARTED ELSE NULL,
           ~ (t \in errors)', ~ Fails(frame[h], t)'
    PROVE  Lock(t)'
<1>1. ~ Failing(t)'
  BY DEF Failing, Others
<1>2. \A k \in Handler : Writing(k, t)' => k = h
  BY DEF Others, Writing
<1>. QED BY <1>1, <1>2 DEF Lock, Failing, Writing

\* h wrote it, and has done.
LEMMA LockLeft ==
    ASSUME NEW t, Lock(t), NEW h \in Handler, Others(h), Writing(h, t), ~ Writing(h, t)',
           (t \in errors)' \/ Fails(frame[h], t)' => task'[t].status \in {NOT_STARTED, FAILED}
    PROVE  Lock(t)'
<1>1. ~ Failing(t) /\ \A k \in Handler : Writing(k, t) => k = h
  BY DEF Lock, Failing, Writing
<1>2. Failing(t)' => task'[t].status \in {NOT_STARTED, FAILED}
  BY <1>1 DEF Failing, Others
<1>3. \A k \in Handler : ~ Writing(k, t)'
  BY <1>1 DEF Others, Writing
<1>. QED BY <1>2, <1>3 DEF Lock, Failing, Writing

LEMMA WorksLock ==
    ASSUME NEW t, Lock(t), NEW h \in Handler, NEW s, Works(h, s), task'[t].status = task[t].status,
           (t \in errors)' \/ Holding(s, "fail", t) => Failing(t)
    PROVE  Lock(t)'
<1>1. ~ Writing(h, t)' /\ (Fails(frame[h], t)' <=> Holding(s, "fail", t)) /\ Others(h)
  BY DEF Works, Writing, Writes, Fails
<1>. QED BY <1>1, LockKept

LEMMA LockFree ==
    ASSUME NEW t, Lock(t), task[t].status \notin {NULL, NOT_STARTED, FAILED}
    PROVE  ~ Failing(t) /\ \A k \in Handler : ~ Writing(k, t)
BY DEF Lock, Failing, Writing

-----------------------------------------------------------------------------
(***************************************************************************)
(* Tasks that wait: who has been offered what                              *)
(***************************************************************************)
Pulling(h, t) == Pulls(pc[h], frame[h], t)

LEMMA SoloKept ==
    ASSUME Solo, NEW h \in Handler, Others(h),
           Offers(frame'[h].todo) => Offers(frame[h].todo) \/ \A g \in Handler : ~ Offers(frame[g].todo)
    PROVE  Solo'
BY DEF Solo, Others

LEMMA PullsKept ==
    ASSUME PullsWait, NEW h \in Handler, Others(h),
           \A t \in Task : Pulling(h, t)' => Pulling(h, t) \/ task'[t].status = WAITING_FOR_AGENT,
           \A t \in Task : task[t].status = WAITING_FOR_AGENT =>
               task'[t].status = WAITING_FOR_AGENT \/ \A g \in Handler : ~ Pulling(g, t)'
    PROVE  PullsWait'
<1>. SUFFICES ASSUME NEW g \in Handler, NEW t \in Task, Pulling(g, t)' PROVE task'[t].status = WAITING_FOR_AGENT
  BY DEF PullsWait, Pulling
<1>1. Pulling(g, t) \/ task'[t].status = WAITING_FOR_AGENT
  BY DEF Others, Pulling
<1>. QED BY <1>1 DEF PullsWait, Pulling

\* A handler that looks for an agent for one of the other tasks.
Seeks(p, f) == p \in {"route", "wait"} /\ f.task \notin Shared

LEMMA TriedKept ==
    ASSUME TriedKnown, NEW h \in Handler, Others(h),
           \A g \in Handler \ {h} : Seeks(pc[g], frame[g]) => task'[frame[g].task] = task[frame[g].task],
           Seeks(pc'[h], frame'[h]) => /\ frame'[h].tried = task'[frame'[h].task].attempted
                                       /\ task'[frame'[h].task].status = NOT_STARTED
    PROVE  TriedKnown'
BY DEF TriedKnown, Others, Seeks

LEMMA AgainKept ==
    ASSUME AgainComes, NEW h \in Handler, Others(h), \A a \in Agent : Active(a)' => Active(a),
           Has(frame[h].todo, "again") => Has(frame'[h].todo, "again"),
           pc'[h] = "wait" /\ frame'[h].task \notin Shared => \A a \in Agent : Active(a) => a \in frame'[h].tried
    PROVE  AgainComes'
<1>. SUFFICES ASSUME NEW k \in Handler, pc'[k] = "wait", frame'[k].task \notin Shared
              PROVE  \/ \A a \in Agent : Active(a)' => a \in frame'[k].tried
                     \/ \E g \in Handler : Has(frame'[g].todo, "again")
  BY DEF AgainComes
<1>1. CASE k = h
  BY <1>1
<1>2. CASE k # h
  <2>1. \/ \A a \in Agent : Active(a) => a \in frame[k].tried
        \/ \E g \in Handler : Has(frame[g].todo, "again")
    BY <1>2 DEF AgainComes, Others
  <2>2. (\E g \in Handler : Has(frame[g].todo, "again")) => \E g \in Handler : Has(frame'[g].todo, "again")
    BY DEF Others
  <2>3. frame'[k] = frame[k]
    BY <1>2 DEF Others
  <2>. QED BY <2>1, <2>2, <2>3
<1>. QED BY <1>1, <1>2

LEMMA WaitersKept ==
    ASSUME WaitersSeen, NEW h \in Handler, Others(h), \A a \in Agent : Active(a)' => Active(a),
           Has(frame[h].todo, "again") => Has(frame'[h].todo, "again"),
           Has(frame[h].todo, "list") => Has(frame'[h].todo, "list"),
           \A t \in Task \ Shared : task'[t].status = WAITING_FOR_AGENT =>
               /\ task[t].status = WAITING_FOR_AGENT /\ task[t].attempted \subseteq task'[t].attempted
               /\ Pulling(h, t) => Pulling(h, t)'
    PROVE  WaitersSeen'
<1>. SUFFICES ASSUME NEW t \in Task \ Shared, task'[t].status = WAITING_FOR_AGENT
              PROVE  Alert(t)' \/ \A a \in Agent : Active(a)' => a \in task'[t].attempted
  BY DEF WaitersSeen
<1>1. Alert(t) \/ \A a \in Agent : Active(a) => a \in task[t].attempted
  BY DEF WaitersSeen
<1>2. Alert(t) => Alert(t)'
  BY DEF Alert, Others, Pulling
<1>. QED BY <1>1, <1>2

\* A step after which h has the same to offer.
Steady(h) ==
    /\ Others(h)
    /\ Has(frame[h].todo, "again") => Has(frame'[h].todo, "again")
    /\ Has(frame[h].todo, "list") => Has(frame'[h].todo, "list")
    /\ \A t : Pulling(h, t)' <=> Pulling(h, t)
Modest(h) == Offers(frame'[h].todo) => Offers(frame[h].todo) \/ \A g \in Handler : ~ Offers(frame[g].todo)

\* The same tasks wait, and none has more agents to try.
SameWait == \A t \in Task : /\ task'[t].status = WAITING_FOR_AGENT <=> task[t].status = WAITING_FOR_AGENT
                            /\ task[t].attempted \subseteq task'[t].attempted
FewerActive == \A a \in Agent : Active(a)' => Active(a)
OthersSeek(h) == \A g \in Handler \ {h} : Seeks(pc[g], frame[g]) => task'[frame[g].task] = task[frame[g].task]
SeeksWell(h) == Seeks(pc'[h], frame'[h]) => /\ frame'[h].tried = task'[frame'[h].task].attempted
                                            /\ task'[frame'[h].task].status = NOT_STARTED
WaitsWell(h) == pc'[h] = "wait" /\ frame'[h].task \notin Shared => \A a \in Agent : Active(a) => a \in frame'[h].tried

LEMMA SteadyOffer ==
    ASSUME OfferInv, NEW h \in Handler, Steady(h), Modest(h), SameWait, FewerActive, OthersSeek(h),
           SeeksWell(h), WaitsWell(h)
    PROVE  OfferInv'
<1>1. Solo'
  BY SoloKept DEF OfferInv, Steady, Modest
<1>2. PullsWait'
  BY PullsKept DEF OfferInv, Steady, SameWait
<1>3. TriedKnown'
  BY TriedKept DEF OfferInv, Steady, OthersSeek, SeeksWell
<1>4. AgainComes'
  BY AgainKept DEF OfferInv, Steady, FewerActive, WaitsWell
<1>5. WaitersSeen'
  BY WaitersKept DEF OfferInv, Steady, FewerActive, SameWait
<1>. QED BY <1>1, <1>2, <1>3, <1>4, <1>5 DEF OfferInv

LEMMA StillOffer ==
    ASSUME OfferInv, UNCHANGED <<pc, frame, task>>, FewerActive
    PROVE  OfferInv'
<1>1. Solo' /\ PullsWait' /\ TriedKnown'
  BY DEF OfferInv, Solo, PullsWait, TriedKnown
<1>2. AgainComes'
  BY DEF OfferInv, AgainComes, FewerActive
<1>3. \A t : Alert(t) => Alert(t)'
  BY DEF Alert
<1>4. WaitersSeen'
  BY <1>3 DEF OfferInv, WaitersSeen, FewerActive
<1>. QED BY <1>1, <1>2, <1>4 DEF OfferInv

-----------------------------------------------------------------------------
(***************************************************************************)
(* Tasks that wait: what is left to offer                                  *)
(***************************************************************************)
LEMMA WorksPulls ==
    ASSUME NEW h \in Handler, NEW s, Works(h, s), NEW t
    PROVE  Pulling(h, t)' <=> Holding(s, "pull", t)
<1>1. pc'[h] = "idle" => s = <<>>
  BY DEF Works, EmptyFrame
<1>2. Beyond(s, "pull", t) => Holding(s, "pull", t)
  BY DEF Beyond, Holding
<1>3. pc'[h] = "idle" => ~ Holding(s, "pull", t)
  BY <1>1, NoItem
<1>. QED BY <1>2, <1>3 DEF Works, Pulling, Pulls

LEMMA NoneHeld == ASSUME NEW s, NoPulls(s), NEW t PROVE ~ Holding(s, "pull", t) /\ ~ Beyond(s, "pull", t)
BY DEF NoPulls, Has, Holding, Beyond, Asks

Planned(h) == Plan(frame[h].todo)

LEMMA HeadTodo ==
    ASSUME TypeInv, NEW h \in Handler, pc[h] # "idle"
    PROVE  /\ frame[h].todo \in Seq(AnyItem) /\ frame[h].todo # <<>> /\ Head(frame[h].todo) = frame[h].todo[1]
           /\ 1 \in DOMAIN frame[h].todo /\ Tail(frame[h].todo) \in Seq(AnyItem)
<1>1. frame[h].todo \in Seq(AnyItem) /\ frame[h].todo # <<>>
  BY Turn, HeadOK
<1>. QED BY <1>1, HeadTailProperties, LenProperties, EmptySeq

LEMMA TailOffers ==
    ASSUME NEW s \in Seq(AnyItem), s # <<>>
    PROVE  Offers(Tail(s)) => Offers(s)
<1>1. ASSUME NEW k \in DOMAIN Tail(s) PROVE k + 1 \in DOMAIN s /\ Tail(s)[k] = s[k + 1]
  BY TailLeft DEF Left
<1>. QED BY <1>1 DEF Offers

\* After an item that offers nothing.
LEMMA RestSteady ==
    ASSUME TypeInv, NEW h \in Handler, pc[h] # "idle", Planned(h), Works(h, Tail(frame[h].todo)),
           Head(frame[h].todo).do \notin {"list", "again"},
           pc[h] \in Publishing \/ Head(frame[h].todo).do # "pull"
    PROVE  Steady(h) /\ Modest(h)
<1>. DEFINE s == frame[h].todo
<1>1. s \in Seq(AnyItem) /\ s # <<>> /\ Head(s) = s[1] /\ 1 \in DOMAIN s
  BY HeadTodo
<1>2. frame'[h].todo = Tail(s) /\ Others(h)
  BY DEF Works
<1>3. \A do \in {"again", "list"} : Has(s, do) => Has(Tail(s), do)
  BY <1>1, TailHas
<1>4. ASSUME NEW t PROVE Pulling(h, t)' <=> Pulling(h, t)
  <2>1. Pulling(h, t)' <=> Holding(Tail(s), "pull", t)
    BY WorksPulls
  <2>2. Holding(Tail(s), "pull", t) <=> Beyond(s, "pull", t)
    BY <1>1, TailHolding
  <2>3. CASE pc[h] \in Publishing
    BY <2>1, <2>2, <2>3 DEF Publishing, Pulling, Pulls
  <2>4. CASE Head(s).do # "pull"
    <3>1. Holding(s, "pull", t) => Beyond(s, "pull", t)
      BY <1>1, <2>4 DEF Holding, Beyond, Asks
    <3>. QED BY <2>1, <2>2, <3>1 DEF Pulling, Pulls
  <2>. QED BY <2>3, <2>4
<1>5. Modest(h)
  BY <1>1, <1>2, TailOffers DEF Modest
<1>. HIDE DEF s
<1>6. Steady(h)
  BY <1>2, <1>3, <1>4 DEF Steady, s
<1>. QED BY <1>5, <1>6

\* An item that is replaced by others that offer nothing yet.
LEMMA ThenSteady ==
    ASSUME TypeInv, NEW h \in Handler, pc[h] = "work", Planned(h),
           Head(frame[h].todo).do \in {"orphans", "orphan"},
           NEW items \in Seq(AnyItem), NoPulls(items), Works(h, items \o Tail(frame[h].todo))
    PROVE  Steady(h) /\ Modest(h)
<1>. DEFINE s == frame[h].todo
            r == Tail(s)
            q == items \o r
<1>1. s \in Seq(AnyItem) /\ s # <<>> /\ Head(s) = s[1] /\ 1 \in DOMAIN s /\ r \in Seq(AnyItem)
  BY HeadTodo
<1>2. frame'[h].todo = q /\ Others(h)
  BY DEF Works
<1>3. \A do : Has(q, do) <=> Has(items, do) \/ Has(r, do)
  BY <1>1, JoinHolding
<1>4. NoPulls(s) /\ NoPulls(r)
  BY <1>1, TailNoPulls DEF Planned
<1>5. NoPulls(q)
  BY <1>3, <1>4 DEF NoPulls
<1>6. \A do \in {"again", "list"} : Has(s, do) => Has(r, do)
  BY <1>1, TailHas
<1>7. Offers(s)
  BY <1>1 DEF Offers
<1>8. ASSUME NEW t PROVE ~ Pulling(h, t) /\ ~ Pulling(h, t)'
  <2>1. Pulling(h, t)' <=> Holding(q, "pull", t)
    BY WorksPulls
  <2>. QED BY <1>4, <1>5, <2>1, NoneHeld DEF Pulling, Pulls
<1>. HIDE DEF q, r, s
<1>9. Steady(h)
  BY <1>2, <1>3, <1>6, <1>8 DEF Steady, s
<1>10. Modest(h)
  BY <1>7 DEF Modest, s
<1>. QED BY <1>9, <1>10

\* A handler that publishes keeps what it has to do.
LEMMA PublishSteady ==
    ASSUME TypeInv, NEW h \in Handler, NEW p \in Publishing, NEW f, f.todo = frame[h].todo, Publishes(h, p, f),
           Planned(h), pc[h] \in Publishing \/ (pc[h] = "work" /\ Head(frame[h].todo).do # "pull")
    PROVE  Steady(h) /\ Modest(h)
<1>1. Others(h) /\ frame'[h].todo = frame[h].todo /\ pc'[h] = p
  BY DEF Publishes
<1>2. ASSUME NEW t PROVE Pulling(h, t)' <=> Pulling(h, t)
  <2>1. Pulling(h, t)' <=> Beyond(frame[h].todo, "pull", t)
    BY <1>1 DEF Pulling, Pulls, Publishing
  <2>2. CASE pc[h] \in Publishing
    BY <2>1, <2>2 DEF Pulling, Pulls, Publishing
  <2>3. CASE pc[h] = "work" /\ Head(frame[h].todo).do # "pull"
    <3>1. NoPulls(frame[h].todo)
      BY <2>3, HeadTodo, TailNoPulls DEF Planned
    <3>. QED BY <2>1, <3>1, NoneHeld DEF Pulling, Pulls
  <2>. QED BY <2>2, <2>3
<1>. QED BY <1>1, <1>2 DEF Steady, Modest

\* A request that begins offers nothing yet.
LEMMA StartSteady ==
    ASSUME TypeInv, WaitInv, NEW h \in Handler, NEW items, NoPulls(items), Start(h, items)
    PROVE  Steady(h) /\ (~ crowded' => Modest(h))
<1>1. pc[h] = "idle" /\ Works(h, items)
  BY StartWorks DEF Start
<1>2. frame[h] = EmptyFrame
  BY <1>1 DEF WaitInv, Quest
<1>3. frame[h].todo = <<>>
  BY <1>2 DEF EmptyFrame
<1>4. ASSUME NEW t PROVE ~ Pulling(h, t) /\ ~ Pulling(h, t)'
  <2>1. Pulling(h, t)' <=> Holding(items, "pull", t)
    BY <1>1, WorksPulls
  <2>. QED BY <1>3, <2>1, NoneHeld, NoItem DEF Pulling, Pulls
<1>5. Steady(h)
  BY <1>1, <1>3, <1>4, NoItem DEF Steady, Works
<1>6. ~ crowded' => Modest(h)
  BY <1>1 DEF Start, Modest, Works
<1>. QED BY <1>5, <1>6

-----------------------------------------------------------------------------
(***************************************************************************)
(* Tasks that wait: a step of one handler                                  *)
(***************************************************************************)
\* No task restarts by itself, and an agent whose heartbeat was late counts as
\* one that comes back.
NoneLost == AutoRestart = {} /\ "stale" \notin Returns

LEMMA SoleOrShared == ASSUME NoneLost, NEW t \in Task PROVE t \in Sole \/ t \in Shared
BY DEF NoneLost, Sole, Shared

LEMMA Assembled ==
    ASSUME WaitInv, NEW h \in Handler, Others(h), Quest(pc'[h], frame'[h]), \A t \in Shared : Lock(t)',
           ~ crowded' => OfferInv'
    PROVE  WaitInv'
<1>1. \A k \in Handler : Quest(pc'[k], frame'[k])
  BY QuestStep
<1>. QED BY <1>1 DEF WaitInv

LEMMA StillWait ==
    ASSUME WaitInv, UNCHANGED <<pc, frame, task, errors, crowded>>, FewerActive
    PROVE  WaitInv'
<1>1. \A t \in Shared : Lock(t)'
  BY DEF WaitInv, Lock
<1>2. ~ crowded' => OfferInv'
  BY StillOffer DEF WaitInv
<1>. QED BY <1>1, <1>2 DEF WaitInv

LEMMA AgentsSame == UNCHANGED agent => FewerActive
BY DEF FewerActive, Active

\* The handler has other things to do, and has written nothing.
LEMMA WorkWait ==
    ASSUME WaitInv, NEW h \in Handler, NEW s, Works(h, s), Plan(s), UNCHANGED task, FewerActive,
           \A t \in errors' : t \in errors,
           \A t \in Shared : Holding(s, "fail", t) => Failing(t),
           ~ crowded' => ~ crowded /\ Steady(h) /\ Modest(h)
    PROVE  WaitInv'
<1>1. Others(h) /\ Quest(pc'[h], frame'[h])
  BY WorksQuest DEF Works
<1>2. ASSUME NEW t \in Shared PROVE Lock(t)'
  BY WorksLock DEF WaitInv, Failing
<1>3. ASSUME ~ crowded' PROVE OfferInv'
  <2>1. SameWait /\ OthersSeek(h)
    BY DEF SameWait, OthersSeek
  <2>2. SeeksWell(h) /\ WaitsWell(h)
    BY DEF Works, SeeksWell, Seeks, WaitsWell
  <2>. QED BY <1>3, <2>1, <2>2, SteadyOffer DEF WaitInv
<1>. QED BY <1>1, <1>2, <1>3, Assembled

LEMMA TailFails ==
    ASSUME NEW s \in Seq(AnyItem), s # <<>>, NEW do, NEW t, Holding(Tail(s), do, t)
    PROVE  Holding(s, do, t)
BY TailHolding DEF Holding, Beyond

LEMMA TailWait ==
    ASSUME TypeInv, WaitInv, NEW h \in Handler, pc[h] # "idle", Works(h, Tail(frame[h].todo)),
           Head(frame[h].todo).do \notin {"list", "again"},
           pc[h] \in Publishing \/ Head(frame[h].todo).do # "pull",
           UNCHANGED <<task, errors, crowded>>, FewerActive
    PROVE  WaitInv'
<1>. DEFINE s == frame[h].todo
<1>1. s \in Seq(AnyItem) /\ s # <<>> /\ Tail(s) \in Seq(AnyItem)
  BY HeadTodo
<1>2. Planned(h)
  BY DEF WaitInv, Quest, Planned
<1>3. Plan(Tail(s))
  BY <1>1, <1>2, TailLeft, LeftPlan DEF Planned
<1>4. \A t \in Shared : Holding(Tail(s), "fail", t) => Failing(t)
  BY <1>1, TailFails DEF Failing, Fails
<1>5. Steady(h) /\ Modest(h)
  BY <1>2, RestSteady
<1>. QED BY <1>3, <1>4, <1>5, WorkWait

\* ... and goes on with the next item.
LEMMA RestWait ==
    ASSUME TypeInv, WaitInv, NEW h \in Handler, pc[h] # "idle", Go(h, "work", Rest(frame[h])),
           Head(frame[h].todo).do \notin {"list", "again"},
           pc[h] \in Publishing \/ Head(frame[h].todo).do # "pull",
           UNCHANGED <<task, errors, crowded>>, FewerActive
    PROVE  WaitInv'
BY RestWorks, TailWait

\* A request begins.
LEMMA StartWait ==
    ASSUME TypeInv, WaitInv, NEW h \in Handler, NEW items, Start(h, items), NoPulls(items), Plan(items),
           UNCHANGED task, FewerActive, \A t \in errors' : t \in errors,
           \A t \in Shared : Holding(items, "fail", t) => t \in errors
    PROVE  WaitInv'
<1>1. Works(h, items)
  BY StartWorks
<1>2. ~ crowded' => ~ crowded
  BY DEF Start
<1>3. Steady(h) /\ (~ crowded' => Modest(h))
  BY StartSteady
<1>. QED BY <1>1, <1>2, <1>3, WorkWait DEF Failing

\* A handler that publishes goes on, and has written nothing.
LEMMA OnwardWait ==
    ASSUME TypeInv, WaitInv, NEW h \in Handler, pc[h] \in Publishing, NEW p \in Publishing \ {"route"}, NEW f,
           Publishes(h, p, f), f.todo = frame[h].todo, f.task = frame[h].task, f.requeue = frame[h].requeue,
           f.tried = frame[h].tried,
           p \in {"resend", "requeued"} => f.requeue # NoAgent,
           p \in {"assign", "published", "create", "send"} => f.requeue = NoAgent,
           p = "wait" => pc[h] = "route", p \in {"create", "send"} \/ Writing(h, f.task),
           ~ crowded => WaitsWell(h), UNCHANGED <<agent, task, errors, crowded>>
    PROVE  WaitInv'
<1>1. Others(h) /\ pc'[h] = p /\ frame'[h] = f
  BY DEF Publishes
<1>2. Planned(h) /\ Head(f.todo).do \in {"launch", "republish", "requeue", "pull"}
  BY DEF WaitInv, Quest, Planned
<1>3. Quest(pc'[h], frame'[h])
  BY <1>1, <1>2 DEF Quest, Planned, Publishing
<1>4. ASSUME NEW t \in Shared PROVE Lock(t)'
  <2>1. Writing(h, t)' => Writing(h, t) /\ frame'[h].requeue = frame[h].requeue
    BY <1>1 DEF Writing, Writes
  <2>2. (t \in errors)' \/ Fails(frame[h], t)' => Failing(t)
    BY <1>1 DEF Failing, Fails
  <2>. QED BY <1>1, <2>1, <2>2, LockKept DEF WaitInv
<1>5. ASSUME ~ crowded' PROVE OfferInv'
  <2>1. Steady(h) /\ Modest(h)
    BY <1>2, PublishSteady
  <2>2. SameWait /\ OthersSeek(h) /\ FewerActive
    BY AgentsSame DEF SameWait, OthersSeek
  <2>3. OfferInv
    BY <1>5 DEF WaitInv
  <2>4. SeeksWell(h)
    <3>1. p = "wait" /\ f.task \notin Shared => /\ f.tried = task[f.task].attempted
                                                /\ task[f.task].status = NOT_STARTED
      BY <2>3 DEF OfferInv, TriedKnown
    <3>2. Seeks(pc'[h], frame'[h]) => p = "wait" /\ f.task \notin Shared
      BY <1>1 DEF Seeks
    <3>. QED BY <1>1, <3>1, <3>2 DEF SeeksWell
  <2>. QED BY <1>5, <2>1, <2>2, <2>3, <2>4, SteadyOffer
<1>. QED BY <1>1, <1>3, <1>4, <1>5, Assembled

\* The task is in the hands of the handler: it does not wait, and no other looks for
\* an agent for it.
Grips(h, t) == Writing(h, t) \/ (pc[h] = "work" /\ Takes(Head(frame[h].todo), t))

LEMMA HeldBusy ==
    ASSUME NoneLost, TypeInv, PlaceInv, WaitInv, NEW h \in Handler, NEW t \in Task, Grips(h, t)
    PROVE  /\ task[t].status # WAITING_FOR_AGENT
           /\ \A g \in Handler \ {h} : Seeks(pc[g], frame[g]) => frame[g].task # t
<1>1. CASE t \in Sole
  <2>1. Calm(t)
    BY <1>1 DEF PlaceInv, Calm
  <2>2. Holds(pc[h], frame[h], t)
    BY DEF Grips, Writing, Writes, Holds
  <2>3. OnlyHand(h, t) /\ ~ Idling(t)
    BY <2>1, <2>2, HandIsOnly
  <2>4. ASSUME NEW g \in Handler \ {h}, Seeks(pc[g], frame[g]), frame[g].task = t PROVE FALSE
    <3>1. Holds(pc[g], frame[g], t)
      BY <2>4 DEF Seeks, Holds
    <3>. QED BY <2>3, <3>1 DEF OnlyHand
  <2>. QED BY <2>3, <2>4 DEF Idling
<1>2. CASE t \in Shared
  <2>1. Lock(t) /\ Planned(h)
    BY <1>2 DEF WaitInv, Quest, Planned
  <2>2. CASE Writing(h, t)
    <3>1. task[t].status \in {NOT_STARTED, NULL}
      BY <2>1, <2>2 DEF Lock, Writing
    <3>. QED BY <1>2, <3>1 DEF Seeks, NOT_STARTED, NULL, WAITING_FOR_AGENT
  <2>3. CASE pc[h] = "work" /\ Takes(Head(frame[h].todo), t)
    <3>1. 1 \in DOMAIN frame[h].todo /\ Head(frame[h].todo) = frame[h].todo[1]
      BY <2>3, HeadTodo
    <3>2. Head(frame[h].todo).do # "republish"
      BY <1>2, <2>1, <2>3, <3>1 DEF Planned, Plan, Takes
    <3>3. Fails(frame[h], t)
      BY <2>3, <3>1, <3>2 DEF Fails, Holding, Asks, Takes
    <3>4. task[t].status \in {NOT_STARTED, FAILED}
      BY <2>1, <3>3 DEF Lock
    <3>. QED BY <1>2, <3>4 DEF Seeks, NOT_STARTED, FAILED, WAITING_FOR_AGENT
  <2>. QED BY <2>2, <2>3 DEF Grips
<1>. QED BY <1>1, <1>2, SoleOrShared

\* It is given a status that is not waiting.
LEMMA GripSet ==
    ASSUME NoneLost, TypeInv, PlaceInv, WaitInv, NEW h \in Handler, NEW t \in Task, Grips(h, t),
           NEW s, Sets(t, s), s # WAITING_FOR_AGENT
    PROVE  SameWait /\ OthersSeek(h)
<1>1. task[t].status # WAITING_FOR_AGENT
  BY HeldBusy
<1>2. task'[t].status = s /\ task'[t].attempted = task[t].attempted /\ \A u \in Task \ {t} : task'[u] = task[u]
  BY SetsOne
<1>3. SameWait
  BY <1>1, <1>2 DEF SameWait
<1>4. ASSUME NEW g \in Handler \ {h}, Seeks(pc[g], frame[g]) PROVE task'[frame[g].task] = task[frame[g].task]
  <2>1. frame[g].task # t
    BY <1>4, HeldBusy
  <2>2. frame[g].task \in Task
    BY <1>4, Turn DEF Seeks, FrameOK, Publishing
  <2>. QED BY <1>2, <2>1, <2>2
<1>. QED BY <1>3, <1>4 DEF OthersSeek

\* The handler has done with the task it wrote.
LEMMA LeftWait ==
    ASSUME NoneLost, TypeInv, PlaceInv, WaitInv, NEW h \in Handler, pc[h] \in Publishing,
           NEW t \in Task, Writing(h, t), NEW s, Sets(t, s), s # WAITING_FOR_AGENT,
           Works(h, Tail(frame[h].todo)), UNCHANGED <<agent, errors, crowded>>
    PROVE  WaitInv'
<1>. DEFINE r == frame[h].todo
<1>1. r \in Seq(AnyItem) /\ r # <<>> /\ Tail(r) \in Seq(AnyItem) /\ pc[h] # "idle"
  BY HeadTodo DEF Publishing
<1>2. Planned(h) /\ Head(r).do \in {"launch", "republish", "requeue", "pull"}
  BY DEF WaitInv, Quest, Planned
<1>3. Others(h) /\ Quest(pc'[h], frame'[h])
  <2>1. Plan(Tail(r))
    BY <1>1, <1>2, TailLeft, LeftPlan DEF Planned
  <2>. QED BY <2>1, WorksQuest DEF Works
<1>4. \A u \in Task \ {t} : task'[u] = task[u]
  BY SetsOne
<1>5. ASSUME NEW u \in Shared PROVE Lock(u)'
  <2>1. Lock(u) /\ u \in Task
    BY DEF WaitInv, Shared
  <2>2. Holding(Tail(r), "fail", u) => Fails(frame[h], u)
    BY <1>1, TailFails DEF Fails
  <2>3. CASE u = t
    <3>1. ~ Failing(u)
      BY <2>1, <2>3 DEF Lock, Failing, Writing
    <3>2. ~ Writing(h, u)' /\ ~ Fails(frame[h], u)' /\ ~ (u \in errors)'
      BY <2>2, <3>1 DEF Works, Writing, Writes, Fails, Failing
    <3>. QED BY <1>3, <2>1, <2>3, <3>2, LockLeft
  <2>4. CASE u # t
    BY <1>4, <2>1, <2>2, <2>4, WorksLock DEF Failing
  <2>. QED BY <2>3, <2>4
<1>6. ASSUME ~ crowded' PROVE OfferInv'
  <2>1. Steady(h) /\ Modest(h)
    BY <1>1, <1>2, RestSteady
  <2>2. SameWait /\ OthersSeek(h) /\ FewerActive
    BY GripSet, AgentsSame DEF Grips
  <2>3. SeeksWell(h) /\ WaitsWell(h)
    BY DEF Works, SeeksWell, Seeks, WaitsWell
  <2>. QED BY <1>6, <2>1, <2>2, <2>3, SteadyOffer DEF WaitInv
<1>. QED BY <1>3, <1>5, <1>6, Assembled

-----------------------------------------------------------------------------
(***************************************************************************)
(* Tasks that wait: the actions                                            *)
(***************************************************************************)
LEMMA FailTaskWait == ASSUME NoneLost, TypeInv, PlaceInv, WaitInv, NEW h \in Handler, FailTask(h) PROVE WaitInv'
<1>. DEFINE s == frame[h].todo
            t == Head(s).task
<1>1. At(h, "fail") /\ Go(h, "work", Rest(frame[h])) /\ Sets(t, FAILED) /\ UNCHANGED <<agent, errors, crowded>>
  BY DEF FailTask, Sets, mail, bounds
<1>2. pc[h] = "work" /\ Head(s).do = "fail" /\ t \in Task
  BY <1>1, AtItem DEF ItemOK, NaturalTask
<1>3. s \in Seq(AnyItem) /\ s # <<>> /\ Tail(s) \in Seq(AnyItem) /\ 1 \in DOMAIN s /\ Head(s) = s[1]
  BY <1>2, HeadTodo
<1>4. Planned(h) /\ Works(h, Tail(s))
  BY <1>1, RestWorks DEF WaitInv, Quest, Planned
<1>. HIDE DEF t
<1>5. Others(h) /\ Quest(pc'[h], frame'[h])
  <2>1. Plan(Tail(s))
    BY <1>3, <1>4, TailLeft, LeftPlan DEF Planned
  <2>. QED BY <1>4, <2>1, WorksQuest DEF Works
<1>6. task'[t].status = FAILED /\ \A u \in Task \ {t} : task'[u] = task[u]
  BY <1>1, <1>2, SetsOne
<1>7. Grips(h, t)
  BY <1>2 DEF Grips, Takes, t
<1>8. ASSUME NEW u \in Shared PROVE Lock(u)'
  <2>1. Lock(u) /\ u \in Task
    BY DEF WaitInv, Shared
  <2>2. Holding(Tail(s), "fail", u) => Fails(frame[h], u)
    BY <1>3, TailFails DEF Fails
  <2>3. CASE u = t
    <3>1. Fails(frame[h], u)
      BY <1>2, <1>3, <2>3 DEF Fails, Holding, Asks, t
    <3>2. \A k \in Handler : ~ Writing(k, u)
      BY <2>1, <3>1 DEF Lock, Writing
    <3>3. \A k \in Handler : ~ Writing(k, u)'
      BY <1>4, <3>2, ZeroIsNoTask, <2>1 DEF Works, Others, Writing, Writes
    <3>. QED BY <1>6, <2>3, <3>3 DEF Lock, Writing
  <2>4. CASE u # t
    BY <1>1, <1>4, <1>6, <2>1, <2>2, <2>4, WorksLock DEF Failing
  <2>. QED BY <2>3, <2>4
<1>9. ASSUME ~ crowded' PROVE OfferInv'
  <2>1. Steady(h) /\ Modest(h)
    BY <1>2, <1>4, RestSteady
  <2>2. FAILED # WAITING_FOR_AGENT
    BY DEF FAILED, WAITING_FOR_AGENT
  <2>3. SameWait /\ OthersSeek(h) /\ FewerActive
    BY <1>1, <1>2, <1>7, <2>2, GripSet, AgentsSame
  <2>4. SeeksWell(h) /\ WaitsWell(h)
    BY <1>4 DEF Works, SeeksWell, Seeks, WaitsWell
  <2>. QED BY <1>1, <1>9, <2>1, <2>3, <2>4, SteadyOffer DEF WaitInv
<1>. QED BY <1>5, <1>8, <1>9, Assembled

LEMMA ErrorOutcomeWait == ASSUME TypeInv, WaitInv, NEW h \in Handler, ErrorOutcome(h) PROVE WaitInv'
<1>1. At(h, "errorOutcome") /\ Go(h, "work", Rest(frame[h])) /\ UNCHANGED <<agent, task, errors, crowded>>
  BY DEF ErrorOutcome, mail, bounds
<1>. QED BY <1>1, AtItem, RestWait, AgentsSame

LEMMA AnswerWait == ASSUME TypeInv, WaitInv, NEW h \in Handler, Answer(h) PROVE WaitInv'
<1>1. At(h, "answer") /\ Go(h, "work", Rest(frame[h])) /\ UNCHANGED <<agent, task, errors, crowded>>
  BY DEF Answer, docs, bounds
<1>. QED BY <1>1, AtItem, RestWait, AgentsSame

LEMMA CatchWait == ASSUME TypeInv, WaitInv, NEW h \in Handler, CatchItem(h) PROVE WaitInv'
<1>1. At(h, "catch") /\ Go(h, "work", Rest(frame[h])) /\ UNCHANGED <<agent, task, errors, crowded>>
  BY DEF CatchItem, docs, mail, bounds
<1>. QED BY <1>1, AtItem, RestWait, AgentsSame

LEMMA SetOfflineWait == ASSUME TypeInv, WaitInv, NEW h \in Handler, SetOffline(h) PROVE WaitInv'
<1>. DEFINE a == Head(frame[h].todo).agent
<1>1. At(h, "offline") /\ Go(h, "work", Rest(frame[h])) /\ UNCHANGED <<task, errors, crowded>>
      /\ agent' = [agent EXCEPT ![a].offline = TRUE]
  BY DEF SetOffline, mail, bounds
<1>2. a \in Agent
  BY <1>1, AtItem DEF ItemOK, NaturalAgent
<1>. HIDE DEF a
<1>3. FewerActive
  BY <1>1, <1>2 DEF FewerActive, Active, TypeInv, DocumentsOK
<1>. QED BY <1>1, <1>3, AtItem, RestWait

LEMMA ListLostWait == ASSUME TypeInv, WaitInv, NEW h \in Handler, ListLost(h) PROVE WaitInv'
<1>1. At(h, "lost") /\ UNCHANGED <<agent, task, errors, crowded>>
  BY DEF ListLost, docs, mail, bounds
<1>2. PICK lost : Go(h, "work", [Rest(frame[h]) EXCEPT !.cancel = lost])
  BY DEF ListLost
<1>. DEFINE g == [Rest(frame[h]) EXCEPT !.cancel = lost]
<1>3. g.todo = Tail(frame[h].todo) /\ g.task = 0
  BY DEF Rest, EmptyFrame
<1>. HIDE DEF g
<1>4. Works(h, g.todo)
  BY <1>2, <1>3, WorkLands DEF g
<1>. QED BY <1>1, <1>3, <1>4, AtItem, TailWait, AgentsSame

LEMMA LapseWait == ASSUME TypeInv, WaitInv, NEW a \in Agent, Lapse(a) PROVE WaitInv'
<1>1. UNCHANGED <<pc, frame, task, errors, crowded>>
  BY DEF Lapse, mail
<1>2. \E beat \in {"stale", "old"} : agent' = [agent EXCEPT ![a].beat = beat]
  BY DEF Lapse
<1>3. FewerActive
  BY <1>2 DEF FewerActive, Active, TypeInv, DocumentsOK
<1>. QED BY <1>1, <1>3, StillWait

LEMMA CrashWait == ASSUME WaitInv, NEW a \in Agent, Crash(a) PROVE WaitInv'
BY AgentsSame, StillWait DEF Crash, docs, bounds

LEMMA ConsumeWait == ASSUME WaitInv, NEW m \in queue, Consume(m) PROVE WaitInv'
BY AgentsSame, StillWait DEF Consume, bounds

LEMMA ExpireWait == ASSUME WaitInv, NEW m \in queue, Expire(m) PROVE WaitInv'
BY AgentsSame, StillWait DEF Expire, docs, bounds

\* A request of one item, neither offering nor failing a task.
LEMMA OneWait ==
    ASSUME TypeInv, WaitInv, NEW h \in Handler, NEW i, Start(h, <<i>>), i.do \notin {"pull", "republish", "fail"},
           UNCHANGED <<agent, task>>, \A t \in errors' : t \in errors
    PROVE  WaitInv'
<1>1. \A do : Has(<<i>>, do) <=> i.do = do
  BY OneItem
<1>2. \A t : ~ Holding(<<i>>, "fail", t)
  BY OneItem DEF Asks
<1>3. \A k \in DOMAIN <<i>> : <<i>>[k].do # "republish"
  BY <1>1 DEF Has
<1>4. NoPulls(<<i>>) /\ Plan(<<i>>)
  BY <1>1, <1>3, PlainPlan DEF NoPulls
<1>. QED BY <1>2, <1>4, StartWait, AgentsSame

LEMMA FinishWait == ASSUME TypeInv, WaitInv, NEW h \in Handler, NEW o \in run, Finish(h, o) PROVE WaitInv'
<1>. DEFINE i == Item("list", 0, outcome[o].agent, 0)
<1>1. UNCHANGED <<agent, task, errors>> /\ (Start(h, <<i>>) \/ UNCHANGED <<pc, frame, crowded>>)
  BY DEF Finish
<1>2. i.do = "list"
  BY DEF Item
<1>. HIDE DEF i
<1>. QED BY <1>1, <1>2, OneWait, StillWait, AgentsSame

LEMMA OrphansAskedWait ==
    ASSUME TypeInv, WaitInv, NEW h \in Handler, NEW a \in Agent, ProcessOrphanedTasks(h, a)
    PROVE  WaitInv'
<1>. DEFINE i == Item("orphans", 0, a, 0)
<1>1. UNCHANGED <<agent, task, errors>> /\ Start(h, <<i>>)
  BY DEF ProcessOrphanedTasks, docs, mail
<1>2. i.do = "orphans"
  BY DEF Item
<1>. HIDE DEF i
<1>. QED BY <1>1, <1>2, OneWait

LEMMA ExpiredWait == ASSUME TypeInv, WaitInv, NEW h \in Handler, OnTTLMessage(h) PROVE WaitInv'
<1>1. PICK m \in dead : IF Target[m.task] = "single"
                        THEN Start(h, <<Item("republish", m.task, NoAgent, 0), Catch>>)
                        ELSE Start(h, <<Item("requeue", m.task, m.agent, m.outcome)>>)
  BY DEF OnTTLMessage
<1>2. UNCHANGED <<agent, task, errors>>
  BY DEF OnTTLMessage, docs
<1>3. CASE Target[m.task] = "single"
  <2>. DEFINE i == Item("republish", m.task, NoAgent, 0)
              s == <<i, Catch>>
  <2>1. i.do = "republish" /\ i.task = m.task /\ Catch.do = "catch"
    BY DEF Item, Catch
  <2>2. DOMAIN s = {1, 2} /\ s[1] = i /\ s[2] = Catch
    OBVIOUS
  <2>3. m.task \notin Shared
    BY <1>3 DEF Shared
  <2>. HIDE DEF i, s
  <2>4. NoPulls(s) /\ \A t : ~ Holding(s, "fail", t)
    BY <2>1, <2>2 DEF NoPulls, Has, Holding, Asks
  <2>5. Plan(s)
    BY <2>1, <2>2, <2>3, <2>4, PlainPlan
  <2>6. Start(h, s)
    BY <1>1, <1>3 DEF s, i
  <2>. QED BY <1>2, <2>4, <2>5, <2>6, StartWait, AgentsSame
<1>4. CASE Target[m.task] # "single"
  <2>. DEFINE i == Item("requeue", m.task, m.agent, m.outcome)
  <2>1. i.do = "requeue" /\ Start(h, <<i>>)
    BY <1>1, <1>4 DEF Item
  <2>. HIDE DEF i
  <2>. QED BY <1>2, <2>1, OneWait
<1>. QED BY <1>3, <1>4

LEMMA RefusedWait == ASSUME TypeInv, WaitInv, NEW h \in Handler, OnLaunchTaskErrorMessage(h) PROVE WaitInv'
<1>1. PICK t \in errors :
          /\ errors' = errors \ {t}
          /\ Start(h, <<Item("fail", t, NoAgent, 0), Item("errorOutcome", t, NoAgent, 0), Item("list", 0, NoAgent, 0)>>)
  BY DEF OnLaunchTaskErrorMessage
<1>2. UNCHANGED <<agent, task>>
  BY DEF OnLaunchTaskErrorMessage, docs
<1>. DEFINE i == Item("fail", t, NoAgent, 0)
            j == Item("errorOutcome", t, NoAgent, 0)
            k == Item("list", 0, NoAgent, 0)
            s == <<i, j, k>>
<1>3. i.do = "fail" /\ i.task = t /\ j.do = "errorOutcome" /\ k.do = "list"
  BY DEF Item
<1>4. DOMAIN s = {1, 2, 3} /\ s[1] = i /\ s[2] = j /\ s[3] = k
  OBVIOUS
<1>5. Start(h, s)
  BY <1>1
<1>. HIDE DEF i, j, k, s
<1>6. NoPulls(s) /\ \A u : Holding(s, "fail", u) => u = t
  BY <1>3, <1>4 DEF NoPulls, Has, Holding, Asks
<1>7. Plan(s)
  BY <1>3, <1>4, <1>6, PlainPlan
<1>. QED BY <1>1, <1>2, <1>5, <1>6, <1>7, StartWait, AgentsSame

\* The copy of a task that has no agent left to go to has been tried on all of them.
LEMMA TriedAll ==
    ASSUME TypeInv, NoneLost, NEW h \in Handler, pc[h] \in Publishing, frame[h].task \notin Shared,
           Candidates(frame[h]) = {}, NEW a \in Agent, Active(a)
    PROVE  a \in frame[h].tried
<1>1. frame[h].task \in Task /\ (frame[h].requeue # NoAgent => Target[frame[h].task] # "single")
  BY Turn DEF FrameOK
<1>2. Target[frame[h].task] = "single" /\ frame[h].requeue = NoAgent
  BY <1>1 DEF Shared
<1>3. Candidates(frame[h]) = {b \in Agent : Active(b)} \ frame[h].tried
  BY <1>2 DEF Candidates
<1>. QED BY <1>3

LEMMA GetTaskRoutesWait == ASSUME NoneLost, TypeInv, WaitInv, NEW h \in Handler, GetTaskRoutes(h) PROVE WaitInv'
<1>. DEFINE f == frame[h]
            to == Candidates(f)
            aim(A) == [f EXCEPT !.targets = A]
<1>1. f \in Frame /\ pc[h] = "route" /\ pc[h] \in Publishing /\ UNCHANGED <<agent, task, errors, crowded>>
  BY Turn DEF FrameOK, GetTaskRoutes, Publishing, Steps, docs, mail, bounds
<1>2. {"wait", "resend", "published", "assign"} \subseteq Publishing \ {"route"}
  BY DEF Publishing, Steps
<1>3. Writing(h, f.task)
  BY <1>1 DEF Writing, Writes
<1>4. ASSUME NEW A PROVE /\ aim(A).todo = f.todo /\ aim(A).task = f.task /\ aim(A).requeue = f.requeue
                         /\ aim(A).tried = f.tried
  BY <1>1 DEF Frame
<1>5. \/ to = {} /\ Go(h, "wait", f)
      \/ f.requeue # NoAgent /\ Go(h, "resend", f)
      \/ f.requeue = NoAgent /\ Go(h, "published", aim(to))
      \/ f.requeue = NoAgent /\ \E a \in to : Go(h, "assign", aim({a}))
  BY DEF GetTaskRoutes
<1>6. CASE to = {} /\ Go(h, "wait", f)
  <2>1. Publishes(h, "wait", f)
    BY <1>6, GoPublishes
  <2>2. WaitsWell(h)
    BY <1>1, <1>6, <2>1, TriedAll DEF WaitsWell, Publishes
  <2>. QED BY <1>1, <1>2, <1>3, <2>1, <2>2, OnwardWait
<1>7. CASE f.requeue # NoAgent /\ Go(h, "resend", f)
  <2>1. Publishes(h, "resend", f)
    BY <1>7, GoPublishes
  <2>2. WaitsWell(h)
    BY <2>1 DEF WaitsWell, Publishes
  <2>. QED BY <1>1, <1>2, <1>3, <1>7, <2>1, <2>2, OnwardWait
<1>8. ASSUME NEW p \in {"published", "assign"}, NEW A, f.requeue = NoAgent, Go(h, p, aim(A)) PROVE WaitInv'
  <2>. DEFINE g == aim(A)
  <2>1. g.todo = f.todo /\ g.task = f.task /\ g.requeue = f.requeue /\ g.tried = f.tried
    BY <1>4
  <2>2. Publishes(h, p, g)
    BY <1>8, GoPublishes
  <2>. HIDE DEF g
  <2>3. WaitsWell(h)
    BY <2>2 DEF WaitsWell, Publishes
  <2>. QED BY <1>1, <1>2, <1>3, <1>8, <2>1, <2>2, <2>3, OnwardWait
<1>. HIDE DEF to, aim
<1>. QED BY <1>5, <1>6, <1>7, <1>8

LEMMA ResendWait == ASSUME TypeInv, WaitInv, NEW h \in Handler, Resend(h) PROVE WaitInv'
<1>1. pc[h] = "resend" /\ Go(h, "requeued", frame[h]) /\ UNCHANGED <<agent, task, errors, crowded>>
  BY DEF Resend, docs, bounds
<1>2. pc[h] \in Publishing /\ "requeued" \in Publishing \ {"route"} /\ Writing(h, frame[h].task)
  BY <1>1 DEF Publishing, Steps, Writing, Writes
<1>3. frame[h].requeue # NoAgent
  BY <1>1 DEF WaitInv, Quest
<1>4. Publishes(h, "requeued", frame[h])
  BY <1>1, GoPublishes
<1>5. WaitsWell(h)
  BY <1>4 DEF WaitsWell, Publishes
<1>. QED BY <1>1, <1>2, <1>3, <1>4, <1>5, OnwardWait

LEMMA CreateOutcomeWait == ASSUME TypeInv, WaitInv, NEW h \in Handler, CreateOutcome(h) PROVE WaitInv'
<1>1. PICK o : Go(h, "send", [frame[h] EXCEPT !.outcome = o])
  BY DEF CreateOutcome
<1>2. pc[h] = "create" /\ UNCHANGED <<agent, task, errors, crowded>>
  BY DEF CreateOutcome, mail, bounds
<1>. DEFINE g == [frame[h] EXCEPT !.outcome = o]
<1>3. pc[h] \in Publishing /\ "send" \in Publishing \ {"route"} /\ frame[h] \in Frame
  BY <1>2, Turn DEF Publishing, Steps, FrameOK
<1>4. g.todo = frame[h].todo /\ g.task = frame[h].task /\ g.requeue = frame[h].requeue /\ g.tried = frame[h].tried
  BY <1>3 DEF Frame
<1>5. frame[h].requeue = NoAgent
  BY <1>2 DEF WaitInv, Quest
<1>6. Publishes(h, "send", g)
  BY <1>1, GoPublishes
<1>. HIDE DEF g
<1>7. WaitsWell(h)
  BY <1>6 DEF WaitsWell, Publishes
<1>. QED BY <1>2, <1>3, <1>4, <1>5, <1>6, <1>7, OnwardWait

LEMMA SendTaskWait == ASSUME TypeInv, WaitInv, NEW h \in Handler, SendTask(h) PROVE WaitInv'
<1>1. pc[h] = "send" /\ UNCHANGED <<agent, task, errors, crowded>>
  BY DEF SendTask, docs, bounds
<1>2. pc[h] \in Publishing /\ "create" \in Publishing \ {"route"} /\ frame[h] \in Frame /\ pc[h] # "idle"
  BY <1>1, Turn DEF Publishing, Steps, FrameOK
<1>3. frame[h].requeue = NoAgent /\ Head(frame[h].todo).do \in {"launch", "republish", "requeue", "pull"}
  BY <1>1, <1>2 DEF WaitInv, Quest
<1>4. Go(h, "work", Rest(frame[h])) \/ \E left : Go(h, "create", [frame[h] EXCEPT !.targets = left])
  BY DEF SendTask
<1>5. ASSUME NEW left, Go(h, "create", [frame[h] EXCEPT !.targets = left]) PROVE WaitInv'
  <2>. DEFINE g == [frame[h] EXCEPT !.targets = left]
  <2>1. g.todo = frame[h].todo /\ g.task = frame[h].task /\ g.requeue = frame[h].requeue /\ g.tried = frame[h].tried
    BY <1>2 DEF Frame
  <2>2. Publishes(h, "create", g)
    BY <1>5, GoPublishes
  <2>. HIDE DEF g
  <2>3. WaitsWell(h)
    BY <2>2 DEF WaitsWell, Publishes
  <2>. QED BY <1>1, <1>2, <1>3, <2>1, <2>2, <2>3, OnwardWait
<1>6. CASE Go(h, "work", Rest(frame[h]))
  BY <1>1, <1>2, <1>3, <1>6, RestWait, AgentsSame
<1>. QED BY <1>4, <1>5, <1>6

LEMMA RequeuedWait == ASSUME NoneLost, TypeInv, PlaceInv, WaitInv, NEW h \in Handler, Requeued(h) PROVE WaitInv'
<1>1. pc[h] = "requeued" /\ Go(h, "work", Rest(frame[h])) /\ Sets(frame[h].task, PUBLISHED)
      /\ UNCHANGED <<agent, errors, crowded>>
  BY DEF Requeued, Sets, mail, bounds
<1>2. pc[h] \in Publishing /\ Writing(h, frame[h].task) /\ frame[h].task \in Task
  BY <1>1, Turn DEF Publishing, Steps, Writing, Writes, FrameOK
<1>3. Works(h, Tail(frame[h].todo))
  BY <1>1, RestWorks
<1>4. PUBLISHED # WAITING_FOR_AGENT
  BY DEF PUBLISHED, WAITING_FOR_AGENT
<1>. QED BY <1>1, <1>2, <1>3, <1>4, LeftWait

LEMMA AssignAgentWait == ASSUME NoneLost, TypeInv, PlaceInv, WaitInv, NEW h \in Handler, AssignAgent(h) PROVE WaitInv'
<1>. DEFINE f == frame[h]
            t == f.task
            tried == task[t].attempted \cup f.targets
<1>1. pc[h] = "assign" /\ Go(h, "published", f) /\ UNCHANGED <<agent, errors, crowded>>
      /\ task' = [task EXCEPT ![t].attempted = tried]
  BY DEF AssignAgent, mail, bounds
<1>2. pc[h] \in Publishing /\ "published" \in Publishing /\ Writing(h, t) /\ t \in Task /\ pc[h] # "work"
  BY <1>1, Turn DEF Publishing, Steps, Writing, Writes, FrameOK
<1>3. task'[t].status = task[t].status /\ task[t].attempted \subseteq task'[t].attempted
      /\ \A u \in Task \ {t} : task'[u] = task[u]
  <2>1. task'[t] = [task[t] EXCEPT !.attempted = tried] /\ \A u \in Task \ {t} : task'[u] = task[u]
    BY <1>1, <1>2 DEF TypeInv, DocumentsOK
  <2>2. task[t] \in [status : TaskStatus, attempted : SUBSET Agent] /\ task[t].attempted \subseteq tried
    BY <1>2 DEF TypeInv, DocumentsOK
  <2>. HIDE DEF tried
  <2>. QED BY <2>1, <2>2
<1>. HIDE DEF tried
<1>4. Publishes(h, "published", f)
  BY <1>1, GoPublishes
<1>5. Others(h) /\ pc'[h] = "published" /\ frame'[h] = f
  BY <1>4 DEF Publishes
<1>6. Planned(h) /\ Quest(pc'[h], frame'[h])
  BY <1>1, <1>2, <1>5 DEF WaitInv, Quest, Planned
<1>7. ASSUME NEW u \in Shared PROVE Lock(u)'
  <2>1. Lock(u) /\ task'[u].status = task[u].status
    BY <1>3 DEF WaitInv, Shared
  <2>2. Writing(h, u)' => Writing(h, u) /\ frame'[h].requeue = frame[h].requeue
    BY <1>1, <1>5 DEF Writing, Writes
  <2>3. (u \in errors)' \/ Fails(frame[h], u)' => Failing(u)
    BY <1>1, <1>5 DEF Failing, Fails
  <2>. QED BY <1>5, <2>1, <2>2, <2>3, LockKept
<1>8. ASSUME ~ crowded' PROVE OfferInv'
  <2>1. Steady(h) /\ Modest(h)
    BY <1>2, <1>4, <1>6, PublishSteady
  <2>2. SameWait /\ FewerActive
    BY <1>1, <1>3, AgentsSame DEF SameWait
  <2>3. ASSUME NEW g \in Handler \ {h}, Seeks(pc[g], frame[g]) PROVE task'[frame[g].task] = task[frame[g].task]
    <3>1. frame[g].task # t
      BY <1>2, <2>3, HeldBusy DEF Grips
    <3>2. frame[g].task \in Task
      BY <2>3, Turn DEF Seeks, FrameOK, Publishing
    <3>. QED BY <1>3, <3>1, <3>2
  <2>4. OthersSeek(h)
    BY <2>3 DEF OthersSeek
  <2>5. SeeksWell(h) /\ WaitsWell(h)
    BY <1>5 DEF SeeksWell, Seeks, WaitsWell
  <2>. QED BY <1>1, <1>8, <2>1, <2>2, <2>4, <2>5, SteadyOffer DEF WaitInv
<1>. QED BY <1>5, <1>6, <1>7, <1>8, Assembled

LEMMA SetPublishedWait == ASSUME NoneLost, TypeInv, PlaceInv, WaitInv, NEW h \in Handler, SetPublished(h) PROVE WaitInv'
<1>. DEFINE f == frame[h]
            t == f.task
            s == f.todo
<1>1. pc[h] = "published" /\ UNCHANGED <<agent, crowded>>
  BY DEF SetPublished, bounds
<1>2. pc[h] \in Publishing /\ Writing(h, t) /\ t \in Task /\ pc[h] \notin {"work", "idle"} /\ Grips(h, t)
  BY <1>1, Turn DEF Publishing, Steps, Writing, Writes, FrameOK, Grips
<1>3. Planned(h) /\ f.requeue = NoAgent /\ Head(s).do \in {"launch", "republish", "requeue", "pull"}
  BY <1>1, <1>2 DEF WaitInv, Quest, Planned
<1>4. s \in Seq(AnyItem) /\ s # <<>> /\ Tail(s) \in Seq(AnyItem)
  BY <1>2, HeadTodo
<1>5. ASSUME NEW u \in Shared, u = t PROVE ~ Failing(u) /\ task[u].status = NOT_STARTED
  BY <1>2, <1>3, <1>5 DEF WaitInv, Lock, Failing, Writing
<1>6. CASE Sets(t, PUBLISHED) /\ Go(h, "create", f) /\ UNCHANGED errors
  <2>1. Publishes(h, "create", f) /\ "create" \in Publishing
    BY <1>6, GoPublishes DEF Publishing, Steps
  <2>2. Others(h) /\ pc'[h] = "create" /\ frame'[h] = f
    BY <2>1 DEF Publishes
  <2>3. Quest(pc'[h], frame'[h])
    BY <1>3, <2>2 DEF Quest, Planned
  <2>4. PUBLISHED # WAITING_FOR_AGENT
    BY DEF PUBLISHED, WAITING_FOR_AGENT
  <2>5. \A u \in Task \ {t} : task'[u] = task[u]
    BY <1>2, <1>6, SetsOne
  <2>6. ASSUME NEW u \in Shared PROVE Lock(u)'
    <3>1. Lock(u) /\ u \in Task
      BY DEF WaitInv, Shared
    <3>2. ~ Writing(h, u)' /\ (Fails(frame[h], u)' => Fails(frame[h], u))
      BY <2>2 DEF Writing, Writes
    <3>3. CASE u = t
      BY <1>2, <1>5, <1>6, <2>2, <3>1, <3>2, <3>3, LockLeft DEF Failing
    <3>4. CASE u # t
      BY <1>6, <2>2, <2>5, <3>1, <3>2, <3>4, LockKept DEF Failing
    <3>. QED BY <3>3, <3>4
  <2>7. ASSUME ~ crowded' PROVE OfferInv'
    <3>1. Steady(h) /\ Modest(h)
      BY <1>2, <1>3, <2>1, PublishSteady
    <3>2. SameWait /\ OthersSeek(h) /\ FewerActive
      BY <1>1, <1>2, <1>6, <2>4, GripSet, AgentsSame
    <3>3. SeeksWell(h) /\ WaitsWell(h)
      BY <2>2 DEF SeeksWell, Seeks, WaitsWell
    <3>. QED BY <1>1, <2>7, <3>1, <3>2, <3>3, SteadyOffer DEF WaitInv
  <2>. QED BY <2>2, <2>3, <2>6, <2>7, Assembled
<1>7. CASE errors' = errors \cup {t} /\ Go(h, "work", Rest(f)) /\ UNCHANGED task
  <2>1. Works(h, Tail(s))
    BY <1>7, RestWorks
  <2>2. Others(h) /\ Quest(pc'[h], frame'[h])
    <3>1. Plan(Tail(s))
      BY <1>3, <1>4, TailLeft, LeftPlan DEF Planned
    <3>. QED BY <2>1, <3>1, WorksQuest DEF Works
  <2>3. ASSUME NEW u \in Shared PROVE Lock(u)'
    <3>1. Lock(u) /\ u \in Task
      BY DEF WaitInv, Shared
    <3>2. ~ Writing(h, u)' /\ (Holding(Tail(s), "fail", u) => Fails(frame[h], u))
      BY <1>4, <2>1, <3>1, ZeroIsNoTask, TailFails DEF Works, Writing, Writes, Fails
    <3>3. CASE u = t
      BY <1>2, <1>5, <1>7, <2>2, <3>1, <3>2, <3>3, LockLeft
    <3>4. CASE u # t
      BY <1>7, <2>1, <3>1, <3>2, <3>4, WorksLock DEF Failing
    <3>. QED BY <3>3, <3>4
  <2>4. ASSUME ~ crowded' PROVE OfferInv'
    <3>1. Steady(h) /\ Modest(h)
      BY <1>2, <1>3, <2>1, RestSteady
    <3>2. SameWait /\ OthersSeek(h) /\ FewerActive
      BY <1>1, <1>7, AgentsSame DEF SameWait, OthersSeek
    <3>3. SeeksWell(h) /\ WaitsWell(h)
      BY <2>1 DEF Works, SeeksWell, Seeks, WaitsWell
    <3>. QED BY <1>1, <2>4, <3>1, <3>2, <3>3, SteadyOffer DEF WaitInv
  <2>. QED BY <2>2, <2>3, <2>4, Assembled
<1>. QED BY <1>6, <1>7 DEF SetPublished, Sets

\* No agent is left for the task, unless one came back meanwhile: whoever welcomes
\* that one looks for tasks that wait a second time.
LEMMA WaitForAgentWait == ASSUME NoneLost, TypeInv, PlaceInv, WaitInv, NEW h \in Handler, WaitForAgent(h) PROVE WaitInv'
<1>. DEFINE f == frame[h]
            t == f.task
            s == f.todo
<1>1. pc[h] = "wait" /\ Go(h, "work", Rest(f)) /\ Sets(t, WAITING_FOR_AGENT) /\ UNCHANGED <<agent, errors, crowded>>
  BY DEF WaitForAgent, Sets, mail, bounds
<1>2. pc[h] \in Publishing /\ Writing(h, t) /\ t \in Task /\ pc[h] \notin {"work", "idle"} /\ Grips(h, t)
  BY <1>1, Turn DEF Publishing, Steps, Writing, Writes, FrameOK, Grips
<1>3. Planned(h) /\ Head(s).do \in {"launch", "republish", "requeue", "pull"}
  BY <1>2 DEF WaitInv, Quest, Planned
<1>4. s \in Seq(AnyItem) /\ s # <<>> /\ Tail(s) \in Seq(AnyItem)
  BY <1>2, HeadTodo
<1>5. Works(h, Tail(s))
  BY <1>1, RestWorks
<1>6. Others(h) /\ Quest(pc'[h], frame'[h])
  <2>1. Plan(Tail(s))
    BY <1>3, <1>4, TailLeft, LeftPlan DEF Planned
  <2>. QED BY <1>5, <2>1, WorksQuest DEF Works
<1>7. /\ task'[t].status = WAITING_FOR_AGENT /\ task'[t].attempted = task[t].attempted
      /\ \A u \in Task \ {t} : task'[u] = task[u]
  BY <1>1, <1>2, SetsOne
<1>8. ASSUME NEW u \in Shared PROVE Lock(u)'
  <2>1. Lock(u) /\ u \in Task
    BY DEF WaitInv, Shared
  <2>2. ~ Writing(h, u)' /\ (Holding(Tail(s), "fail", u) => Fails(frame[h], u))
    BY <1>4, <1>5, <2>1, ZeroIsNoTask, TailFails DEF Works, Writing, Writes, Fails
  <2>3. CASE u = t
    <3>1. ~ Failing(u)
      BY <1>2, <2>1, <2>3 DEF Lock, Failing, Writing
    <3>2. ~ Fails(frame[h], u)' /\ ~ (u \in errors)'
      BY <1>1, <1>5, <2>2, <3>1 DEF Works, Fails, Failing
    <3>. QED BY <1>2, <1>6, <2>1, <2>2, <2>3, <3>2, LockLeft
  <2>4. CASE u # t
    BY <1>1, <1>5, <1>7, <2>1, <2>2, <2>4, WorksLock DEF Failing
  <2>. QED BY <2>3, <2>4
<1>9. ASSUME ~ crowded' PROVE OfferInv'
  <2>1. OfferInv /\ Steady(h) /\ Modest(h)
    BY <1>1, <1>2, <1>3, <1>5, <1>9, RestSteady DEF WaitInv
  <2>2. Solo'
    BY <1>6, <2>1, SoloKept DEF OfferInv, Modest
  <2>3. PullsWait'
    <3>1. \A u \in Task : Pulling(h, u)' => Pulling(h, u)
      BY <2>1 DEF Steady
    <3>2. \A u \in Task : task[u].status = WAITING_FOR_AGENT => task'[u].status = WAITING_FOR_AGENT
      BY <1>7
    <3>. QED BY <1>6, <2>1, <3>1, <3>2, PullsKept DEF OfferInv
  <2>4. TriedKnown'
    <3>1. ASSUME NEW g \in Handler \ {h}, Seeks(pc[g], frame[g]) PROVE task'[frame[g].task] = task[frame[g].task]
      <4>1. frame[g].task # t
        BY <1>2, <3>1, HeldBusy
      <4>2. frame[g].task \in Task
        BY <3>1, Turn DEF Seeks, FrameOK, Publishing
      <4>. QED BY <1>7, <4>1, <4>2
    <3>2. ~ Seeks(pc'[h], frame'[h])
      BY <1>5 DEF Works, Seeks
    <3>. QED BY <1>6, <2>1, <3>1, <3>2, TriedKept DEF OfferInv
  <2>5. AgainComes'
    <3>1. pc'[h] # "wait" /\ \A a \in Agent : Active(a)' => Active(a)
      BY <1>1, <1>5 DEF Works, Active
    <3>. QED BY <1>6, <2>1, <3>1, AgainKept DEF OfferInv, Steady
  <2>6. WaitersSeen'
    <3>1. \A a \in Agent : Active(a)' => Active(a)
      BY <1>1 DEF Active
    <3>2. ASSUME NEW u \in Task PROVE Alert(u) => Alert(u)'
      BY <2>1 DEF Steady, Others, Alert, Pulling
    <3>3. ASSUME NEW u \in Task \ Shared, u = t
          PROVE  Alert(u)' \/ \A a \in Agent : Active(a)' => a \in task'[u].attempted
      <4>1. f.tried = task[u].attempted
        BY <1>1, <2>1, <3>3 DEF OfferInv, TriedKnown
      <4>2. (\E g \in Handler : Has(frame[g].todo, "again")) => Alert(u)
        BY DEF Alert
      <4>3. (\A a \in Agent : Active(a) => a \in f.tried) \/ Alert(u)
        BY <1>1, <2>1, <3>3, <4>2 DEF OfferInv, AgainComes
      <4>. QED BY <1>7, <3>1, <3>2, <3>3, <4>1, <4>3
    <3>4. ASSUME NEW u \in Task \ Shared, u # t, task'[u].status = WAITING_FOR_AGENT
          PROVE  Alert(u)' \/ \A a \in Agent : Active(a)' => a \in task'[u].attempted
      BY <1>7, <2>1, <3>1, <3>2, <3>4 DEF OfferInv, WaitersSeen
    <3>. QED BY <3>3, <3>4 DEF WaitersSeen
  <2>. QED BY <2>2, <2>3, <2>4, <2>5, <2>6 DEF OfferInv
<1>. QED BY <1>6, <1>8, <1>9, Assembled

LEMMA RepublishTaskWait == ASSUME NoneLost, TypeInv, PlaceInv, WaitInv, NEW h \in Handler, RepublishTask(h) PROVE WaitInv'
<1>. DEFINE f == frame[h]
            t == Head(f.todo).task
            g == [f EXCEPT !.task = t, !.tried = task[t].attempted]
<1>1. At(h, "republish") /\ UNCHANGED <<agent, errors, crowded>>
  BY DEF RepublishTask, mail, bounds
<1>2. pc[h] = "work" /\ Head(f.todo).do = "republish" /\ t \in Task /\ f \in Frame /\ f.requeue = NoAgent
  BY <1>1, AtItem, Turn DEF ItemOK, NaturalTask, FrameOK
<1>3. Planned(h) /\ t \notin Shared
  <2>1. Planned(h)
    BY DEF WaitInv, Quest, Planned
  <2>2. 1 \in DOMAIN f.todo /\ Head(f.todo) = f.todo[1]
    BY <1>2, HeadTodo
  <2>. QED BY <1>2, <2>1, <2>2 DEF Planned, Plan
<1>4. Grips(h, t)
  BY <1>2 DEF Grips, Takes
<1>5. g.todo = f.todo /\ g.task = t /\ g.requeue = NoAgent /\ g.tried = task[t].attempted
  BY <1>2 DEF Frame
<1>6. \/ Sets(t, NOT_STARTED) /\ Go(h, "route", g)
      \/ Go(h, "work", Rest(f)) /\ UNCHANGED task
  BY DEF RepublishTask, Sets
<1>. HIDE DEF t, g
<1>7. CASE Go(h, "work", Rest(f)) /\ UNCHANGED task
  BY <1>1, <1>2, <1>7, RestWait, AgentsSame
<1>8. CASE Sets(t, NOT_STARTED) /\ Go(h, "route", g)
  <2>1. Publishes(h, "route", g) /\ "route" \in Publishing
    BY <1>8, GoPublishes DEF Publishing, Steps
  <2>2. Others(h) /\ pc'[h] = "route" /\ frame'[h] = g
    BY <2>1 DEF Publishes
  <2>3. Quest(pc'[h], frame'[h])
    BY <1>2, <1>3, <1>5, <2>2 DEF Quest, Planned
  <2>4. NOT_STARTED # WAITING_FOR_AGENT
    BY DEF NOT_STARTED, WAITING_FOR_AGENT
  <2>5. /\ task'[t].status = NOT_STARTED /\ task'[t].attempted = task[t].attempted
        /\ \A u \in Task \ {t} : task'[u] = task[u]
    BY <1>2, <1>8, SetsOne
  <2>6. ASSUME NEW u \in Shared PROVE Lock(u)'
    <3>1. Lock(u) /\ u \in Task /\ u # t
      BY <1>3 DEF WaitInv, Shared
    <3>2. ~ Writing(h, u)' /\ (Fails(frame[h], u)' => Fails(frame[h], u))
      BY <1>5, <2>2, <3>1 DEF Writing, Writes, Fails
    <3>. QED BY <1>1, <2>2, <2>5, <3>1, <3>2, LockKept DEF Failing
  <2>7. ASSUME ~ crowded' PROVE OfferInv'
    <3>1. Steady(h) /\ Modest(h)
      BY <1>2, <1>3, <1>5, <2>1, PublishSteady
    <3>2. SameWait /\ OthersSeek(h) /\ FewerActive
      BY <1>1, <1>2, <1>4, <1>8, <2>4, GripSet, AgentsSame
    <3>3. SeeksWell(h) /\ WaitsWell(h)
      BY <1>5, <2>2, <2>5 DEF SeeksWell, Seeks, WaitsWell
    <3>. QED BY <1>1, <2>7, <3>1, <3>2, <3>3, SteadyOffer DEF WaitInv
  <2>. QED BY <2>2, <2>3, <2>6, <2>7, Assembled
<1>. QED BY <1>6, <1>7, <1>8

LEMMA RequeueTaskWait == ASSUME NoneLost, TypeInv, PlaceInv, WaitInv, NEW h \in Handler, RequeueTask(h) PROVE WaitInv'
<1>. DEFINE f == frame[h]
            i == Head(f.todo)
            t == i.task
            g == [f EXCEPT !.task = t, !.requeue = i.agent, !.outcome = i.outcome]
<1>1. At(h, "requeue") /\ UNCHANGED <<agent, errors, crowded>>
  BY DEF RequeueTask, mail, bounds
<1>2. pc[h] = "work" /\ i.do = "requeue" /\ t \in Task /\ i.agent \in Agent /\ t \in Shared /\ f \in Frame
  BY <1>1, AtItem, Turn DEF ItemOK, NaturalTask, NaturalAgent, FrameOK, Shared
<1>3. Planned(h) /\ i.agent # NoAgent
  BY <1>2 DEF WaitInv, Quest, Planned
<1>4. g.todo = f.todo /\ g.task = t /\ g.requeue = i.agent
  BY <1>2 DEF Frame
<1>5. \/ task[t].status = PUBLISHED /\ Sets(t, NULL) /\ Go(h, "route", g)
      \/ Go(h, "work", Rest(f)) /\ UNCHANGED task
  BY DEF RequeueTask, Sets
<1>6. CASE Go(h, "work", Rest(f)) /\ UNCHANGED task
  BY <1>1, <1>2, <1>6, RestWait, AgentsSame
<1>. HIDE DEF t, g
<1>7. CASE task[t].status = PUBLISHED /\ Sets(t, NULL) /\ Go(h, "route", g)
  <2>1. Publishes(h, "route", g) /\ "route" \in Publishing
    BY <1>7, GoPublishes DEF Publishing, Steps
  <2>2. Others(h) /\ pc'[h] = "route" /\ frame'[h] = g
    BY <2>1 DEF Publishes
  <2>3. Quest(pc'[h], frame'[h])
    BY <1>2, <1>3, <1>4, <2>2 DEF Quest, Planned
  <2>4. PUBLISHED \notin {NULL, NOT_STARTED, FAILED, WAITING_FOR_AGENT} /\ NULL # WAITING_FOR_AGENT
    BY DEF PUBLISHED, NULL, NOT_STARTED, FAILED, WAITING_FOR_AGENT
  <2>5. /\ task'[t].status = NULL /\ task'[t].attempted = task[t].attempted
        /\ \A u \in Task \ {t} : task'[u] = task[u]
    BY <1>2, <1>7, SetsOne
  <2>6. ASSUME NEW u \in Shared PROVE Lock(u)'
    <3>1. Lock(u) /\ u \in Task
      BY DEF WaitInv, Shared
    <3>2. Fails(frame[h], u)' => Fails(frame[h], u)
      BY <1>4, <2>2 DEF Fails
    <3>3. CASE u = t
      <4>1. ~ Failing(u) /\ \A k \in Handler : ~ Writing(k, u)
        BY <1>7, <2>4, <3>1, <3>3, LockFree
      <4>2. ~ (u \in errors)' /\ ~ Fails(frame[h], u)'
        BY <1>1, <3>2, <4>1 DEF Failing
      <4>3. frame'[h].requeue # NoAgent
        BY <1>3, <1>4, <2>2
      <4>. QED BY <2>2, <2>5, <3>3, <4>1, <4>2, <4>3, LockTaken
    <3>4. CASE u # t
      <4>1. ~ Writing(h, u)'
        BY <1>4, <2>2, <3>4 DEF Writing, Writes
      <4>. QED BY <1>1, <2>2, <2>5, <3>1, <3>2, <3>4, <4>1, LockKept DEF Failing
    <3>. QED BY <3>3, <3>4
  <2>7. ASSUME ~ crowded' PROVE OfferInv'
    <3>1. Steady(h) /\ Modest(h)
      BY <1>2, <1>3, <1>4, <2>1, PublishSteady
    <3>2. SameWait /\ FewerActive
      BY <1>1, <1>7, <2>4, <2>5, AgentsSame DEF SameWait
    <3>3. OthersSeek(h)
      <4>1. ASSUME NEW k \in Handler \ {h}, Seeks(pc[k], frame[k]) PROVE task'[frame[k].task] = task[frame[k].task]
        <5>1. frame[k].task \in Task /\ frame[k].task # t
          BY <1>2, <4>1, Turn DEF Seeks, FrameOK, Publishing, t
        <5>. QED BY <2>5, <5>1
      <4>. QED BY <4>1 DEF OthersSeek
    <3>4. SeeksWell(h) /\ WaitsWell(h)
      BY <1>2, <1>4, <2>2 DEF SeeksWell, Seeks, WaitsWell, t
    <3>. QED BY <1>1, <2>7, <3>1, <3>2, <3>3, <3>4, SteadyOffer DEF WaitInv
  <2>. QED BY <2>2, <2>3, <2>6, <2>7, Assembled
<1>. QED BY <1>5, <1>6, <1>7

\* A task never launched is with nobody: a requeue that has emptied the status has
\* its outcome.
LEMMA LaunchWait == ASSUME NoneLost, TypeInv, WaitInv, NEW h \in Handler, Launch(h) PROVE WaitInv'
<1>1. PICK t \in Task : /\ task[t].status = NULL /\ (\A o \in Existing : outcome[o].task # t)
                        /\ Sets(t, NOT_STARTED)
                        /\ Go(h, "route", [EmptyFrame EXCEPT !.todo = <<Item("launch", t, NoAgent, 0)>>,
                                                             !.task = t, !.tried = task[t].attempted])
  BY DEF Launch, Sets
<1>2. pc[h] = "idle" /\ UNCHANGED <<agent, errors, crowded>>
  BY DEF Launch, mail, bounds
<1>. DEFINE i == Item("launch", t, NoAgent, 0)
            s == <<i>>
            g == [EmptyFrame EXCEPT !.todo = s, !.task = t, !.tried = task[t].attempted]
<1>3. g.todo = s /\ g.task = t /\ g.tried = task[t].attempted /\ g.requeue = NoAgent
  BY DEF EmptyFrame
<1>4. i.do = "launch" /\ Head(s) = i /\ DOMAIN s = {1} /\ s[1] = i
  BY DEF Item
<1>5. Publishes(h, "route", g) /\ "route" \in Publishing
  BY <1>1, GoPublishes DEF Publishing, Steps
<1>. HIDE DEF i, s, g
<1>6. Others(h) /\ pc'[h] = "route" /\ frame'[h] = g
  BY <1>5 DEF Publishes
<1>7. NoPulls(s) /\ Plan(s) /\ ~ Offers(s) /\ \A u : ~ Holding(s, "fail", u) /\ ~ Beyond(s, "pull", u)
  <2>1. NoPulls(s) /\ \A u : ~ Holding(s, "fail", u)
    BY <1>4 DEF NoPulls, Has, Holding, Asks
  <2>2. Plan(s) /\ ~ Offers(s)
    BY <1>4, <2>1, PlainPlan DEF Offers
  <2>. QED BY <2>1, <2>2, NoneHeld
<1>8. Quest(pc'[h], frame'[h])
  BY <1>3, <1>4, <1>6, <1>7 DEF Quest
<1>9. /\ task'[t].status = NOT_STARTED /\ task'[t].attempted = task[t].attempted
      /\ \A u \in Task \ {t} : task'[u] = task[u]
  BY <1>1, SetsOne
<1>10. ASSUME NEW u \in Shared PROVE Lock(u)'
  <2>1. Lock(u) /\ u \in Task
    BY DEF WaitInv, Shared
  <2>2. ~ Fails(frame[h], u)'
    BY <1>3, <1>6, <1>7 DEF Fails
  <2>3. CASE u = t
    <3>1. ~ Failing(u)
      BY <1>1, <2>1, <2>3 DEF Lock, Failing, NULL, NOT_STARTED, FAILED
    <3>2. ASSUME NEW k \in Handler, Writing(k, u) PROVE FALSE
      <4>1. frame[k].requeue # NoAgent /\ frame[k].task = u
        BY <1>1, <2>1, <2>3, <3>2 DEF Lock, Writing, Writes, NULL, NOT_STARTED
      <4>2. IsOf(outcome, frame[k].outcome, u)
        BY <4>1, Turn DEF FrameOK
      <4>3. frame[k].outcome \in Existing
        BY <4>2, ZeroIsNoTask DEF IsOf, Existing
      <4>. QED BY <1>1, <2>3, <4>2, <4>3 DEF IsOf
    <3>. QED BY <1>2, <1>3, <1>6, <1>9, <2>2, <2>3, <3>1, <3>2, LockTaken DEF Failing
  <2>4. CASE u # t
    <3>1. ~ Writing(h, u)'
      BY <1>3, <1>6, <2>4 DEF Writing, Writes
    <3>. QED BY <1>2, <1>6, <1>9, <2>1, <2>2, <2>4, <3>1, LockKept DEF Failing
  <2>. QED BY <2>3, <2>4
<1>11. ASSUME ~ crowded' PROVE OfferInv'
  <2>1. OfferInv /\ frame[h] = EmptyFrame
    BY <1>2, <1>11 DEF WaitInv, Quest
  <2>2. frame[h].todo = <<>>
    BY <2>1 DEF EmptyFrame
  <2>3. Steady(h) /\ Modest(h)
    <3>1. ASSUME NEW u PROVE ~ Pulling(h, u) /\ ~ Pulling(h, u)'
      BY <1>3, <1>6, <1>7, <2>2, NoItem DEF Pulling, Pulls
    <3>2. Steady(h)
      BY <1>6, <2>2, <3>1, NoItem DEF Steady
    <3>3. Modest(h)
      BY <1>3, <1>6, <1>7 DEF Modest
    <3>. QED BY <3>2, <3>3
  <2>4. SameWait /\ FewerActive
    BY <1>1, <1>2, <1>9, AgentsSame DEF SameWait, NULL, NOT_STARTED, WAITING_FOR_AGENT
  <2>5. OthersSeek(h)
    <3>1. ASSUME NEW k \in Handler \ {h}, Seeks(pc[k], frame[k]) PROVE task'[frame[k].task] = task[frame[k].task]
      <4>1. frame[k].task \in Task /\ task[frame[k].task].status = NOT_STARTED
        BY <2>1, <3>1, Turn DEF Seeks, FrameOK, Publishing, OfferInv, TriedKnown
      <4>. QED BY <1>1, <1>9, <4>1 DEF NULL, NOT_STARTED
    <3>. QED BY <3>1 DEF OthersSeek
  <2>6. SeeksWell(h) /\ WaitsWell(h)
    BY <1>3, <1>6, <1>9 DEF SeeksWell, Seeks, WaitsWell
  <2>. QED BY <2>1, <2>3, <2>4, <2>5, <2>6, SteadyOffer
<1>. QED BY <1>6, <1>8, <1>10, <1>11, Assembled

\* Items of which none offers a task to an agent yet, publishes one or fails one.
Tame(s) == \A k \in DOMAIN s : s[k].do \notin {"pull", "republish", "fail"}

LEMMA TameThen ==
    ASSUME TypeInv, WaitInv, NEW h \in Handler, pc[h] = "work", Head(frame[h].todo).do \in {"orphans", "orphan"},
           NEW items \in Seq(AnyItem), Tame(items), Go(h, "work", Then(frame[h], items)),
           UNCHANGED <<agent, task, errors, crowded>>
    PROVE  WaitInv'
<1>. DEFINE s == frame[h].todo
            r == Tail(s)
<1>1. s \in Seq(AnyItem) /\ s # <<>> /\ r \in Seq(AnyItem)
  BY HeadTodo
<1>2. Planned(h) /\ Works(h, items \o r)
  BY ThenWorks DEF WaitInv, Quest, Planned
<1>3. NoPulls(items) /\ Plan(items)
  BY PlainPlan DEF Tame, NoPulls, Has
<1>4. NoPulls(r) /\ Plan(r)
  BY <1>1, <1>2, TailNoPulls, TailLeft, LeftPlan DEF Planned
<1>5. Plan(items \o r)
  BY <1>1, <1>3, <1>4, JoinPlan
<1>6. ASSUME NEW t \in Shared, Holding(items \o r, "fail", t) PROVE Failing(t)
  <2>1. ~ Holding(items, "fail", t)
    BY DEF Tame, Holding, Asks
  <2>2. Holding(r, "fail", t)
    BY <1>1, <1>6, <2>1, JoinHolding
  <2>. QED BY <1>1, <2>2, TailFails DEF Failing, Fails
<1>7. Steady(h) /\ Modest(h)
  BY <1>2, <1>3, ThenSteady
<1>. QED BY <1>2, <1>5, <1>6, <1>7, WorkWait, AgentsSame

LEMMA TameJoin ==
    ASSUME NEW s \in Seq(AnyItem), NEW r \in Seq(AnyItem), Tame(s), Tame(r)
    PROVE  s \o r \in Seq(AnyItem) /\ Tame(s \o r)
<1>1. s \o r \in Seq(AnyItem) /\ \A do : Has(s \o r, do) <=> Has(s, do) \/ Has(r, do)
  BY JoinItems, JoinHolding
<1>2. \A do \in {"pull", "republish", "fail"} : ~ Has(s, do) /\ ~ Has(r, do)
  BY DEF Tame, Has
<1>. QED BY <1>1, <1>2 DEF Tame, Has

LEMMA TameOne == ASSUME NEW i \in AnyItem, i.do \notin {"pull", "republish", "fail"} PROVE <<i>> \in Seq(AnyItem) /\ Tame(<<i>>)
<1>1. <<i>> \in Seq(AnyItem)
  OBVIOUS
<1>2. \A do : Has(<<i>>, do) <=> i.do = do
  BY OneItem
<1>. QED BY <1>1, <1>2 DEF Tame, Has

LEMMA ListOrphansWait == ASSUME TypeInv, WaitInv, NEW h \in Handler, ListOrphans(h) PROVE WaitInv'
<1>. DEFINE f == frame[h]
            a == Head(f.todo).agent
            S == {o \in Existing : outcome[o].agent = a /\ outcome[o].status < SUCCEEDED}
            orphans(s) == [k \in DOMAIN s |-> Item("orphan", outcome[s[k]].task, a, s[k])]
            i == Item("offline", 0, a, 0)
<1>1. At(h, "orphans") /\ UNCHANGED <<agent, task, errors, crowded>>
  BY DEF ListOrphans, docs, mail, bounds
<1>2. PICK s \in Listings(S) : Go(h, "work", Then(f, orphans(s) \o <<i>>))
  BY DEF ListOrphans
<1>3. a \in Agent
  BY <1>1, AtItem DEF ItemOK, NaturalAgent
<1>4. S \subseteq Outcome /\ S \subseteq Existing
  BY DEF Existing
<1>5. IsFiniteSet(S)
  BY <1>4, FS_Subset
<1>. HIDE DEF S, a
<1>6. Cardinality(S) \in Nat /\ s \in [1..Cardinality(S) -> S]
  BY <1>5, ListingsOK
<1>7. \A k \in 1..Cardinality(S) : s[k] \in Outcome /\ outcome[s[k]].task \in Task
  BY <1>4, <1>6 DEF TypeInv, DocumentsOK, Document, Existing
<1>8. DOMAIN orphans(s) = 1..Cardinality(S) /\ \A k \in 1..Cardinality(S) : ItemOK(outcome, orphans(s)[k])
  BY <1>3, <1>6, <1>7, Items, ZeroIsNoTask
<1>9. orphans(s) \in Seq(AnyItem)
  <2>1. orphans(s) = [k \in DOMAIN orphans(s) |-> orphans(s)[k]]
    OBVIOUS
  <2>. HIDE DEF orphans
  <2>. QED BY <1>6, <1>8, <2>1, ListedOK DEF TodoOK
<1>10. Tame(orphans(s))
  BY DEF Tame, Item
<1>11. i \in AnyItem /\ i.do = "offline"
  BY <1>3, Items DEF ItemOK, Item
<1>. HIDE DEF orphans, i
<1>12. orphans(s) \o <<i>> \in Seq(AnyItem) /\ Tame(orphans(s) \o <<i>>)
  BY <1>9, <1>10, <1>11, TameOne, TameJoin
<1>13. pc[h] = "work" /\ Head(f.todo).do = "orphans"
  BY <1>1, AtItem
<1>. QED BY <1>1, <1>2, <1>12, <1>13, TameThen

LEMMA OrphanWait == ASSUME NoneLost, TypeInv, WaitInv, NEW h \in Handler, Orphan(h) PROVE WaitInv'
<1>. DEFINE f == frame[h]
            i == Head(f.todo)
            j == Item("list", 0, i.agent, 0)
<1>1. At(h, "orphan") /\ UNCHANGED <<agent, task, errors, crowded>>
  BY DEF Orphan, mail, bounds
<1>2. Go(h, "work", Then(f, Recovery(i))) \/ Go(h, "work", Rest(f))
  BY DEF Orphan, Recovery
<1>3. pc[h] = "work" /\ i.do = "orphan" /\ i.agent \in Agent
  BY <1>1, AtItem DEF ItemOK, NaturalAgent
<1>4. CASE Go(h, "work", Rest(f))
  BY <1>1, <1>3, <1>4, RestWait, AgentsSame
<1>5. CASE Go(h, "work", Then(f, Recovery(i)))
  <2>1. j \in AnyItem /\ j.do = "list" /\ Catch \in AnyItem /\ Catch.do = "catch"
    BY <1>3, Items DEF ItemOK, Item, Catch
  <2>2. Recovery(i) = <<j>> \o <<>> \o <<Catch>>
    BY DEF NoneLost, Recovery
  <2>3. <<>> \in Seq(AnyItem) /\ Tame(<<>>)
    BY DEF Tame
  <2>. HIDE DEF j
  <2>4. <<j>> \o <<>> \in Seq(AnyItem) /\ Tame(<<j>> \o <<>>)
    BY <2>1, <2>3, TameOne, TameJoin
  <2>5. Recovery(i) \in Seq(AnyItem) /\ Tame(Recovery(i))
    <3>. DEFINE x == <<j>> \o <<>>
                y == <<Catch>>
    <3>1. x \in Seq(AnyItem) /\ Tame(x) /\ Recovery(i) = x \o y
      BY <2>2, <2>4
    <3>2. y \in Seq(AnyItem) /\ Tame(y)
      BY <2>1, TameOne
    <3>. HIDE DEF x, y
    <3>3. x \o y \in Seq(AnyItem) /\ Tame(x \o y)
      BY <3>1, <3>2, TameJoin
    <3>. QED BY <3>1, <3>3
  <2>. QED BY <1>1, <1>3, <1>5, <2>5, TameThen
<1>. QED BY <1>2, <1>4, <1>5

\* An agent that comes back: whoever waits is looked for, twice.
LEMMA HeartbeatWait ==
    ASSUME NoneLost, TypeInv, WaitInv, NEW h \in Handler, NEW a \in Agent, Heartbeat(h, a)
    PROVE  WaitInv'
<1>. DEFINE x == <<Item("lost", 0, a, 0)>>
            y == <<Item("list", 0, a, 0)>>
            z == <<Item("again", 0, a, 0)>>
            w == <<Item("answer", 0, a, 0)>>
            s == x \o (y \o z) \o w
<1>1. Start(h, s) /\ UNCHANGED <<task, errors>>
  <2>1. agent[a].offline \/ agent[a].beat = "old"
    BY DEF Heartbeat, NoneLost
  <2>2. Start(h, x \o Welcome(a) \o w)
    BY <2>1 DEF Heartbeat
  <2>3. Welcome(a) = y \o z
    BY DEF Welcome
  <2>. QED BY <2>2, <2>3 DEF Heartbeat, mail
<1>2. /\ x \in Seq(AnyItem) /\ Tame(x) /\ y \in Seq(AnyItem) /\ Tame(y) /\ Has(y, "list")
      /\ z \in Seq(AnyItem) /\ Tame(z) /\ Has(z, "again") /\ w \in Seq(AnyItem) /\ Tame(w)
  <2>1. \A do \in {"lost", "list", "again", "answer"} : Item(do, 0, a, 0) \in AnyItem /\ Item(do, 0, a, 0).do = do
    BY Items DEF ItemOK, Item
  <2>2. \A do \in {"lost", "list", "again", "answer"} :
            <<Item(do, 0, a, 0)>> \in Seq(AnyItem) /\ Tame(<<Item(do, 0, a, 0)>>) /\ Has(<<Item(do, 0, a, 0)>>, do)
    BY <2>1, TameOne, OneItem
  <2>. QED BY <2>2
<1>. HIDE DEF x, y, z, w
<1>3. y \o z \in Seq(AnyItem) /\ Tame(y \o z) /\ Has(y \o z, "list") /\ Has(y \o z, "again")
  BY <1>2, TameJoin, JoinHolding
<1>4. x \o (y \o z) \in Seq(AnyItem) /\ Tame(x \o (y \o z)) /\ Has(x \o (y \o z), "list") /\ Has(x \o (y \o z), "again")
  BY <1>2, <1>3, TameJoin, JoinHolding
<1>5. Tame(s) /\ Has(s, "list") /\ Has(s, "again")
  BY <1>2, <1>4, TameJoin, JoinHolding
<1>. HIDE DEF s
<1>6. NoPulls(s) /\ Plan(s) /\ \A t : ~ Holding(s, "fail", t)
  BY <1>5, PlainPlan DEF Tame, NoPulls, Has, Holding, Asks
<1>7. Works(h, s) /\ pc[h] = "idle"
  BY <1>1, StartWorks DEF Start
<1>8. Others(h) /\ frame'[h].todo = s /\ Quest(pc'[h], frame'[h])
  BY <1>6, <1>7, WorksQuest DEF Works
<1>9. ASSUME NEW t \in Shared PROVE Lock(t)'
  BY <1>1, <1>6, <1>7, WorksLock DEF WaitInv, Failing
<1>10. ASSUME ~ crowded' PROVE OfferInv'
  <2>1. ~ crowded /\ ~ (Offers(s) /\ \E g \in Handler : Offers(frame[g].todo))
    BY <1>1, <1>10 DEF Start
  <2>2. OfferInv
    BY <2>1 DEF WaitInv
  <2>3. Solo'
    BY <1>8, <2>1, <2>2, SoloKept DEF OfferInv
  <2>4. PullsWait'
    <3>1. \A t \in Task : ~ Pulling(h, t)'
      BY <1>6, <1>7, WorksPulls, NoneHeld
    <3>. QED BY <1>1, <1>8, <2>2, <3>1, PullsKept DEF OfferInv
  <2>5. TriedKnown'
    <3>1. ~ Seeks(pc'[h], frame'[h])
      BY <1>7 DEF Works, Seeks
    <3>. QED BY <1>1, <1>8, <2>2, <3>1, TriedKept DEF OfferInv
  <2>6. AgainComes' /\ WaitersSeen'
    BY <1>5, <1>8 DEF AgainComes, WaitersSeen, Alert
  <2>. QED BY <2>3, <2>4, <2>5, <2>6 DEF OfferInv
<1>. QED BY <1>8, <1>9, <1>10, Assembled

\* Every task of the listing is there.
LEMMA ListingsAll == \A S \in SUBSET Task : \A s \in Listings(S) : IsFiniteSet(S) => \A t \in S : \E k \in DOMAIN s : s[k] = t
<1>. SUFFICES ASSUME NEW S, S \subseteq Task, NEW s \in Listings(S), IsFiniteSet(S), NEW t \in S
              PROVE  \E k \in DOMAIN s : s[k] = t
  OBVIOUS
<1>. DEFINE N == 1..Cardinality(S)
<1>1. Cardinality(S) \in Nat /\ s \in [N -> S] /\ \A x \in S : x \in Nat
  BY ListingsOK
<1>2. \A i, j \in N : i < j => s[i] < s[j]
  BY DEF Listings
<1>3. IsFiniteSet(N) /\ Cardinality(N) = Cardinality(S)
  BY <1>1, FS_Interval
<1>4. \A i, j \in N : s[i] = s[j] => i = j
  <2>. SUFFICES ASSUME NEW i \in N, NEW j \in N, s[i] = s[j] PROVE i = j
    OBVIOUS
  <2>1. s[i] \in S /\ s[j] \in S
    BY <1>1
  <2>2. s[i] \in Nat /\ s[j] \in Nat
    BY <1>1, <2>1
  <2>3. i \in Nat /\ j \in Nat
    OBVIOUS
  <2>4. ~ (s[i] < s[j]) /\ ~ (s[j] < s[i])
    BY <2>2
  <2>. QED BY <1>2, <2>3, <2>4
<1>5. s \in Injection(N, S)
  BY <1>1, <1>4 DEF Injection, IsInjective
<1>6. DOMAIN s = N
  BY <1>1
<1>. HIDE DEF N
<1>7. s \in Surjection(N, S)
  BY <1>3, <1>5, FS_Injection
<1>. QED BY <1>6, <1>7 DEF Surjection

\* The tasks that wait, to be offered one after the other.
LEMMA PullsOf ==
    ASSUME NEW S, S \subseteq Task, IsFiniteSet(S), NEW s \in Listings(S), NEW a \in Agent \cup {NoAgent}, NEW r,
           r = [k \in DOMAIN s |-> Item("pull", s[k], a, 0)]
    PROVE  /\ r \in Seq(AnyItem) /\ Plan(r) /\ (\A k \in DOMAIN r : r[k].do = "pull")
           /\ \A t : Holding(r, "pull", t) => t \in S
<1>1. Cardinality(S) \in Nat /\ s \in [1..Cardinality(S) -> S] /\ \A x \in S : x \in Nat
  BY ListingsOK
<1>2. \A i, j \in 1..Cardinality(S) : i < j => s[i] < s[j]
  BY DEF Listings
<1>3. DOMAIN r = 1..Cardinality(S) /\ \A k \in DOMAIN r : r[k] = Item("pull", s[k], a, 0) /\ s[k] \in S
  BY <1>1
<1>4. \A k \in DOMAIN r : r[k].do = "pull" /\ r[k].task = s[k]
  BY <1>3 DEF Item
<1>5. \A k \in 1..Cardinality(S) : r[k] \in AnyItem
  BY <1>3, Items DEF ItemOK
<1>6. r \in Seq(AnyItem)
  <2>1. r = [k \in 1..Cardinality(S) |-> r[k]]
    BY <1>1
  <2>2. r \in [1..Cardinality(S) -> AnyItem]
    BY <1>5, <2>1
  <2>. QED BY <1>1, <2>2
<1>7. ASSUME NEW j \in DOMAIN r, NEW k \in DOMAIN r, r[j].task = r[k].task PROVE j = k
  <2>1. s[j] = s[k] /\ s[j] \in S /\ s[k] \in S /\ j \in 1..Cardinality(S) /\ k \in 1..Cardinality(S)
    BY <1>3, <1>4, <1>7
  <2>2. s[j] \in Nat /\ s[k] \in Nat
    BY <1>1, <2>1
  <2>3. j \in Nat /\ k \in Nat
    BY <2>1
  <2>4. ~ (s[j] < s[k]) /\ ~ (s[k] < s[j])
    BY <2>1, <2>2
  <2>. QED BY <1>2, <2>1, <2>3, <2>4
<1>8. PullsFirst(r)
  <2>1. \A k \in DOMAIN r : \A j \in 1..k : j \in DOMAIN r
    BY <1>1, <1>3
  <2>. QED BY <1>4, <1>7, <2>1 DEF PullsFirst
<1>9. Plan(r)
  BY <1>4, <1>8 DEF Plan
<1>10. \A t : Holding(r, "pull", t) => t \in S
  BY <1>3, <1>4 DEF Holding, Asks
<1>. QED BY <1>4, <1>6, <1>9, <1>10

\* Each task of the listing is asked for.
LEMMA PullsAll ==
    ASSUME NEW S, S \subseteq Task, IsFiniteSet(S), NEW s \in Listings(S), NEW a, NEW r,
           r = [k \in DOMAIN s |-> Item("pull", s[k], a, 0)]
    PROVE  \A t \in S : Holding(r, "pull", t)
<1>. SUFFICES ASSUME NEW t \in S PROVE \E j \in DOMAIN r : Asks(r[j], "pull", t)
  BY DEF Holding
<1>1. \E k \in DOMAIN s : s[k] = t
  BY ListingsAll
<1>2. PICK k \in DOMAIN s : s[k] = t
  BY <1>1
<1>3. Asks(Item("pull", s[k], a, 0), "pull", t)
  BY <1>2 DEF Asks, Item
<1>4. k \in DOMAIN r /\ r[k] = Item("pull", s[k], a, 0)
  OBVIOUS
<1>. QED BY <1>3, <1>4

\* Every task that waits is among those to be offered now.
LEMMA ListWaitingWait == ASSUME TypeInv, WaitInv, NEW h \in Handler, ListWaiting(h) PROVE WaitInv'
<1>. DEFINE f == frame[h]
            a == Head(f.todo).agent
            S == {t \in Task : task[t].status = WAITING_FOR_AGENT}
            pulls(s) == [k \in DOMAIN s |-> Item("pull", s[k], a, 0)]
<1>1. At(h, "list") /\ UNCHANGED <<agent, task, errors, crowded>>
  BY DEF ListWaiting, docs, mail, bounds
<1>2. PICK s \in Listings(S) : Go(h, "work", Then(f, pulls(s)))
  BY DEF ListWaiting
<1>3. pc[h] = "work" /\ pc[h] # "idle" /\ Head(f.todo).do = "list" /\ a \in Agent \cup {NoAgent}
  BY <1>1, AtItem DEF ItemOK, AnyItem
<1>4. S \subseteq Task /\ IsFiniteSet(S) /\ \A t \in Task : t \in S <=> task[t].status = WAITING_FOR_AGENT
  BY FS_Subset
<1>. DEFINE r == pulls(s)
            x == f.todo
<1>5. /\ r \in Seq(AnyItem) /\ Plan(r) /\ (\A k \in DOMAIN r : r[k].do = "pull")
      /\ \A t : Holding(r, "pull", t) <=> t \in S
  <2>. HIDE DEF S, a
  <2>1. /\ r \in Seq(AnyItem) /\ Plan(r) /\ (\A k \in DOMAIN r : r[k].do = "pull")
        /\ \A t : Holding(r, "pull", t) => t \in S
    BY <1>3, <1>4, PullsOf
  <2>2. \A t \in S : Holding(r, "pull", t)
    BY <1>3, <1>4, PullsAll
  <2>. QED BY <2>1, <2>2
<1>6. x \in Seq(AnyItem) /\ x # <<>> /\ Tail(x) \in Seq(AnyItem) /\ 1 \in DOMAIN x /\ Head(x) = x[1]
  BY <1>3, HeadTodo
<1>7. Plan(x)
  BY DEF WaitInv, Quest
<1>8. Plan(Tail(x)) /\ NoPulls(Tail(x))
  BY <1>3, <1>6, <1>7, TailNoPulls, TailLeft, LeftPlan
<1>9. Works(h, r \o Tail(x))
  BY <1>2, ThenWorks
<1>. HIDE DEF S, r, a
<1>. DEFINE q == r \o Tail(x)
<1>10. /\ \A do, t : Holding(q, do, t) <=> Holding(r, do, t) \/ Holding(Tail(x), do, t)
       /\ \A do : Has(q, do) <=> Has(r, do) \/ Has(Tail(x), do)
  BY <1>5, <1>6, JoinHolding
<1>11. Plan(q)
  BY <1>5, <1>6, <1>8, JoinPlan
<1>. HIDE DEF q
<1>12. Works(h, q) /\ Others(h) /\ frame'[h].todo = q /\ Quest(pc'[h], frame'[h])
  BY <1>9, <1>11, WorksQuest DEF Works, q
<1>13. ASSUME NEW t \in Shared PROVE Lock(t)'
  <2>1. ~ Holding(r, "fail", t)
    BY <1>5 DEF Holding, Asks
  <2>2. Holding(q, "fail", t) => Fails(frame[h], t)
    BY <1>6, <1>10, <2>1, TailFails DEF Fails
  <2>. QED BY <1>1, <1>12, <2>2, WorksLock DEF WaitInv, Failing
<1>14. ASSUME NEW t PROVE Pulling(h, t)' <=> t \in S
  <2>1. ~ Holding(Tail(x), "pull", t)
    BY <1>8, NoneHeld
  <2>. QED BY <1>5, <1>10, <1>12, <2>1, WorksPulls
<1>15. ASSUME ~ crowded' PROVE OfferInv'
  <2>1. OfferInv
    BY <1>1, <1>15 DEF WaitInv
  <2>2. Solo'
    <3>1. Offers(frame[h].todo)
      BY <1>3, <1>6 DEF Offers
    <3>. QED BY <1>12, <2>1, <3>1, SoloKept DEF OfferInv
  <2>3. PullsWait'
    BY <1>1, <1>4, <1>12, <1>14, <2>1, PullsKept DEF OfferInv
  <2>4. pc'[h] \notin {"route", "wait"}
    BY <1>12 DEF Works
  <2>5. TriedKnown'
    BY <1>1, <1>12, <2>1, <2>4, TriedKept DEF OfferInv, Seeks
  <2>6. AgainComes'
    <3>1. Has(frame[h].todo, "again") => Has(frame'[h].todo, "again")
      BY <1>3, <1>6, <1>10, <1>12, TailHas
    <3>2. \A b \in Agent : Active(b)' => Active(b)
      BY <1>1 DEF Active
    <3>. QED BY <1>12, <2>1, <2>4, <3>1, <3>2, AgainKept DEF OfferInv
  <2>7. WaitersSeen'
    <3>1. ASSUME NEW t \in Task, task'[t].status = WAITING_FOR_AGENT PROVE Alert(t)'
      BY <1>1, <1>4, <1>14, <3>1 DEF Alert, Pulling
    <3>. QED BY <3>1 DEF WaitersSeen
  <2>. QED BY <2>2, <2>3, <2>5, <2>6, <2>7 DEF OfferInv
<1>. QED BY <1>12, <1>13, <1>15, Assembled

\* The second look finds a task that was about to wait: it waits for that to be over.
LEMMA LookAgainWait == ASSUME TypeInv, WaitInv, NEW h \in Handler, LookAgain(h) PROVE WaitInv'
<1>. DEFINE f == frame[h]
            x == f.todo
            i == Item("list", 0, Head(x).agent, 0)
            pending == \E t \in Task : task[t].status \in {NOT_STARTED, WAITING_FOR_AGENT}
<1>1. At(h, "again") /\ UNCHANGED <<agent, task, errors, crowded>>
  BY DEF LookAgain, docs, mail, bounds
<1>2. pending => \A g \in Handler \ {h} : pc[g] \in {"idle", "work"}
  BY DEF LookAgain
<1>3. (pending /\ Go(h, "work", Then(f, <<i>>))) \/ (~ pending /\ Go(h, "work", Rest(f)))
  <2>1. Go(h, "work", IF pending THEN Then(f, <<i>>) ELSE Rest(f))
    BY DEF LookAgain
  <2>. HIDE DEF pending, i
  <2>. QED BY <2>1
<1>4. pc[h] = "work" /\ pc[h] # "idle" /\ Head(x).do = "again" /\ Head(x).agent \in Agent
  BY <1>1, AtItem DEF ItemOK, NaturalAgent
<1>5. x \in Seq(AnyItem) /\ x # <<>> /\ Tail(x) \in Seq(AnyItem) /\ 1 \in DOMAIN x /\ Head(x) = x[1]
  BY <1>4, HeadTodo
<1>6. Plan(x)
  BY DEF WaitInv, Quest
<1>7. Plan(Tail(x)) /\ NoPulls(Tail(x))
  BY <1>4, <1>5, <1>6, TailNoPulls, TailLeft, LeftPlan
<1>8. i.do = "list" /\ i \in AnyItem
  BY <1>4, Items DEF Item, ItemOK
<1>9. ~ pending => \A t \in Task : task[t].status \notin {NOT_STARTED, WAITING_FOR_AGENT}
  OBVIOUS
<1>10. \E q \in Seq(AnyItem) :
          /\ Works(h, q) /\ Plan(q) /\ NoPulls(q) /\ (\A t : Holding(q, "fail", t) => Holding(x, "fail", t))
          /\ pending => Has(q, "list")
  <2>1. CASE ~ pending /\ Go(h, "work", Rest(f))
    <3>1. Works(h, Tail(x))
      BY <2>1, RestWorks
    <3>2. \A t : Holding(Tail(x), "fail", t) => Holding(x, "fail", t)
      BY <1>5, TailFails
    <3>. QED BY <1>5, <1>7, <2>1, <3>1, <3>2
  <2>2. CASE pending /\ Go(h, "work", Then(f, <<i>>))
    <3>. DEFINE y == <<i>>
                q == y \o Tail(x)
    <3>1. y \in Seq(AnyItem) /\ (\A do : Has(y, do) <=> i.do = do) /\ (\A do, t : Holding(y, do, t) <=> Asks(i, do, t))
      BY <1>8, OneItem
    <3>2. Works(h, q)
      BY <2>2, ThenWorks
    <3>. HIDE DEF y, i
    <3>3. Has(y, "list") /\ NoPulls(y) /\ ~ Has(y, "republish") /\ \A t : ~ Holding(y, "fail", t)
      BY <1>8, <3>1 DEF NoPulls, Asks
    <3>4. Plan(y)
      BY <3>3, PlainPlan DEF Has
    <3>5. /\ \A do, t : Holding(q, do, t) <=> Holding(y, do, t) \/ Holding(Tail(x), do, t)
          /\ \A do : Has(q, do) <=> Has(y, do) \/ Has(Tail(x), do)
      BY <1>5, <3>1, JoinHolding
    <3>6. q \in Seq(AnyItem) /\ Plan(q)
      BY <1>5, <1>7, <3>1, <3>4, JoinPlan, JoinItems
    <3>7. \A t : Holding(Tail(x), "fail", t) => Holding(x, "fail", t)
      BY <1>5, TailFails
    <3>. HIDE DEF q, x
    <3>8. Has(q, "list") /\ NoPulls(q) /\ \A t : Holding(q, "fail", t) => Holding(x, "fail", t)
      BY <1>7, <3>3, <3>5, <3>7 DEF NoPulls
    <3>. QED BY <3>2, <3>6, <3>8
  <2>. QED BY <1>3, <2>1, <2>2
<1>11. PICK q \in Seq(AnyItem) :
          /\ Works(h, q) /\ Plan(q) /\ NoPulls(q) /\ (\A t : Holding(q, "fail", t) => Holding(x, "fail", t))
          /\ pending => Has(q, "list")
  BY <1>10
<1>12. Others(h) /\ frame'[h].todo = q /\ pc'[h] \in {"idle", "work"} /\ Quest(pc'[h], frame'[h])
  BY <1>11, WorksQuest DEF Works
<1>13. ASSUME NEW t \in Shared PROVE Lock(t)'
  <2>1. Holding(q, "fail", t) => Failing(t)
    BY <1>11 DEF Failing, Fails
  <2>. QED BY <1>1, <1>11, <2>1, WorksLock DEF WaitInv, Failing
<1>. HIDE DEF pending
<1>14. ASSUME ~ crowded' PROVE OfferInv'
  <2>1. OfferInv
    BY <1>1, <1>14 DEF WaitInv
  <2>2. Solo'
    <3>1. Offers(frame[h].todo)
      BY <1>4, <1>5 DEF Offers
    <3>. QED BY <1>12, <2>1, <3>1, SoloKept DEF OfferInv
  <2>3. PullsWait'
    <3>1. \A t \in Task : ~ Pulling(h, t)'
      BY <1>11, WorksPulls, NoneHeld
    <3>. QED BY <1>1, <1>12, <2>1, <3>1, PullsKept DEF OfferInv
  <2>4. TriedKnown'
    BY <1>1, <1>12, <2>1, TriedKept DEF OfferInv, Seeks
  <2>5. AgainComes'
    <3>1. ASSUME NEW k \in Handler, pc'[k] = "wait", frame'[k].task \notin Shared PROVE FALSE
      <4>1. k # h /\ pc[k] = "wait" /\ frame[k].task \notin Shared
        BY <1>12, <3>1 DEF Others
      <4>2. frame[k].task \in Task /\ task[frame[k].task].status = NOT_STARTED
        BY <2>1, <4>1, Turn DEF FrameOK, Publishing, Steps, OfferInv, TriedKnown
      <4>. QED BY <1>2, <1>9, <4>1, <4>2
    <3>. QED BY <3>1 DEF AgainComes
  <2>6. WaitersSeen'
    <3>1. ASSUME NEW t \in Task, task'[t].status = WAITING_FOR_AGENT PROVE Alert(t)'
      BY <1>1, <1>9, <1>11, <1>12, <3>1 DEF Alert
    <3>. QED BY <3>1 DEF WaitersSeen
  <2>. QED BY <2>2, <2>3, <2>4, <2>5, <2>6 DEF OfferInv
<1>. QED BY <1>12, <1>13, <1>14, Assembled

LEMMA PullAgentWait == ASSUME TypeInv, WaitInv, NEW h \in Handler, PullAgent(h) PROVE WaitInv'
<1>. DEFINE f == frame[h]
            x == f.todo
            i == Head(x)
            t == i.task
<1>1. At(h, "pull") /\ UNCHANGED <<agent, errors, crowded>>
  BY DEF PullAgent, mail, bounds
<1>2. pc[h] = "work" /\ pc[h] # "idle" /\ i.do = "pull" /\ t \in Task
  BY <1>1, AtItem DEF ItemOK, NaturalTask
<1>3. /\ task'[t].status = task[t].status
      /\ \A u \in Task \ {t} : task'[u] = task[u]
  BY <1>2 DEF PullAgent, TypeInv, DocumentsOK
<1>4. x \in Seq(AnyItem) /\ x # <<>> /\ Tail(x) \in Seq(AnyItem) /\ 1 \in DOMAIN x /\ i = x[1]
  BY <1>2, HeadTodo
<1>5. Plan(x)
  BY DEF WaitInv, Quest
<1>6. Pulling(h, t)
  BY <1>2, <1>4 DEF Pulling, Pulls, Holding, Asks
<1>7. \/ task[t].status = WAITING_FOR_AGENT /\ Go(h, "claim", f)
      \/ task[t].status # WAITING_FOR_AGENT /\ Go(h, "work", Rest(f))
  BY DEF PullAgent
<1>. HIDE DEF t
<1>8. \A u \in Task : task'[u].status = task[u].status
  BY <1>3
<1>9. CASE task[t].status = WAITING_FOR_AGENT /\ Go(h, "claim", f)
  <2>1. Publishes(h, "claim", f)
    BY <1>9, GoPublishes
  <2>2. Others(h) /\ pc'[h] = "claim" /\ frame'[h] = frame[h]
    BY <2>1 DEF Publishes
  <2>3. Quest(pc'[h], frame'[h])
    BY <1>2, <1>5, <2>2 DEF Quest
  <2>4. ASSUME NEW u \in Shared PROVE Lock(u)'
    <3>1. Lock(u) /\ u \in Task
      BY DEF WaitInv, Shared
    <3>2. ~ Writing(h, u)' /\ (Fails(frame[h], u)' => Fails(frame[h], u))
      BY <2>2 DEF Writing, Writes, Fails
    <3>. QED BY <1>1, <1>8, <2>2, <3>1, <3>2, LockKept DEF Failing
  <2>5. \A u : Pulling(h, u)' <=> Pulling(h, u)
    BY <1>2, <2>2 DEF Pulling, Pulls
  <2>6. ASSUME ~ crowded' PROVE OfferInv'
    <3>1. OfferInv /\ \A a \in Agent : Active(a)' => Active(a)
      BY <1>1, <2>6 DEF WaitInv, Active
    <3>2. Solo'
      BY <2>2, <3>1, SoloKept DEF OfferInv
    <3>3. PullsWait'
      BY <1>8, <2>2, <2>5, <3>1, PullsKept DEF OfferInv
    <3>4. TriedKnown'
      <4>1. ASSUME NEW g \in Handler \ {h}, Seeks(pc[g], frame[g]) PROVE task'[frame[g].task] = task[frame[g].task]
        <5>1. frame[g].task \in Task /\ task[frame[g].task].status = NOT_STARTED
          BY <3>1, <4>1, Turn DEF Seeks, FrameOK, Publishing, Steps, OfferInv, TriedKnown
        <5>2. frame[g].task # t
          BY <1>9, <5>1 DEF NOT_STARTED, WAITING_FOR_AGENT
        <5>. QED BY <1>3, <5>1, <5>2
      <4>2. ~ Seeks(pc'[h], frame'[h])
        BY <2>2 DEF Seeks
      <4>. QED BY <2>2, <3>1, <4>1, <4>2, TriedKept DEF OfferInv
    <3>5. AgainComes'
      BY <2>2, <3>1, AgainKept DEF OfferInv
    <3>6. WaitersSeen'
      <4>1. ASSUME NEW u \in Task PROVE Alert(u) => Alert(u)'
        BY <2>2, <2>5 DEF Others, Alert, Pulling
      <4>2. ASSUME NEW u \in Task, u = t PROVE Alert(u)'
        <5>1. Pulling(h, u)'
          BY <1>6, <2>5, <4>2
        <5>. QED BY <5>1 DEF Alert, Pulling
      <4>3. ASSUME NEW u \in Task \ Shared, u # t, task'[u].status = WAITING_FOR_AGENT
            PROVE  Alert(u)' \/ \A a \in Agent : Active(a)' => a \in task'[u].attempted
        BY <1>3, <3>1, <4>1, <4>3 DEF OfferInv, WaitersSeen
      <4>. QED BY <4>2, <4>3 DEF WaitersSeen
    <3>. QED BY <3>2, <3>3, <3>4, <3>5, <3>6 DEF OfferInv
  <2>. QED BY <2>2, <2>3, <2>4, <2>6, Assembled
\* Somebody else took the task: requests that offer waiting tasks have overlapped.
<1>10. CASE task[t].status # WAITING_FOR_AGENT /\ Go(h, "work", Rest(f))
  <2>1. crowded
    BY <1>2, <1>6, <1>10 DEF WaitInv, OfferInv, PullsWait, Pulling
  <2>2. Works(h, Tail(x)) /\ Others(h)
    BY <1>10, RestWorks DEF Works
  <2>3. Plan(Tail(x))
    BY <1>4, <1>5, TailLeft, LeftPlan
  <2>4. Quest(pc'[h], frame'[h])
    BY <2>2, <2>3, WorksQuest
  <2>5. ASSUME NEW u \in Shared PROVE Lock(u)'
    <3>1. Lock(u) /\ u \in Task
      BY DEF WaitInv, Shared
    <3>2. Holding(Tail(x), "fail", u) => Fails(frame[h], u)
      BY <1>4, TailFails DEF Fails
    <3>. QED BY <1>1, <1>8, <2>2, <3>1, <3>2, WorksLock DEF Failing
  <2>. QED BY <1>1, <2>1, <2>2, <2>4, <2>5, Assembled
<1>. QED BY <1>7, <1>9, <1>10

\* The claim: whoever looks for an agent for the task now is alone.
LEMMA ClaimTaskWait == ASSUME TypeInv, WaitInv, NEW h \in Handler, ClaimTask(h) PROVE WaitInv'
<1>. DEFINE f == frame[h]
            x == f.todo
            i == Head(x)
            t == i.task
            g == [f EXCEPT !.task = t, !.tried = task[t].attempted]
<1>1. pc[h] = "claim" /\ pc[h] # "idle" /\ UNCHANGED <<agent, errors, crowded>>
  BY DEF ClaimTask, mail, bounds
<1>2. x \in Seq(AnyItem) /\ x # <<>> /\ 1 \in DOMAIN x /\ i = x[1]
  BY <1>1, HeadTodo
<1>3. f \in Frame /\ i.do = "pull" /\ f.requeue = NoAgent /\ t \in Task
  <2>1. FrameOK(outcome, pc[h], f)
    BY Turn
  <2>2. f \in Frame /\ i.do = "pull" /\ f.requeue = NoAgent /\ ItemOK(outcome, x[1])
    BY <1>1, <1>2, <2>1 DEF FrameOK, TodoOK, Publishing
  <2>. QED BY <1>2, <2>2 DEF ItemOK, NaturalTask
<1>4. Plan(x) /\ PullsFirst(x)
  BY DEF WaitInv, Quest, Plan
<1>5. Pulling(h, t) /\ Offers(x)
  BY <1>1, <1>2, <1>3 DEF Pulling, Pulls, Holding, Asks, Offers
<1>6. g.todo = x /\ g.task = t /\ g.requeue = NoAgent /\ g.tried = task[t].attempted
  BY <1>3 DEF Frame
<1>7. \/ task[t].status = WAITING_FOR_AGENT /\ Sets(t, NOT_STARTED) /\ Go(h, "route", g)
      \/ task[t].status # WAITING_FOR_AGENT /\ Throw(h, f) /\ UNCHANGED task
  BY DEF ClaimTask, ClaimFilter, Sets
<1>8. x[1].do = "pull" /\ x[1].task = t
  BY <1>2, <1>3
<1>. HIDE DEF t, g
<1>9. CASE task[t].status = WAITING_FOR_AGENT /\ Sets(t, NOT_STARTED) /\ Go(h, "route", g)
  <2>1. Publishes(h, "route", g)
    BY <1>9, GoPublishes
  <2>2. Others(h) /\ pc'[h] = "route" /\ frame'[h] = g /\ frame'[h].todo = x
    BY <1>6, <2>1 DEF Publishes
  <2>3. Quest(pc'[h], frame'[h])
    BY <1>2, <1>4, <1>6, <1>8, <2>2 DEF Quest
  <2>4. WAITING_FOR_AGENT \notin {NULL, NOT_STARTED, FAILED}
    BY DEF NULL, NOT_STARTED, FAILED, WAITING_FOR_AGENT
  <2>5. /\ task'[t].status = NOT_STARTED /\ task'[t].attempted = task[t].attempted
        /\ \A u \in Task \ {t} : task'[u] = task[u]
    BY <1>3, <1>9, SetsOne
  <2>6. ASSUME NEW u \in Shared PROVE Lock(u)'
    <3>1. Lock(u) /\ u \in Task
      BY DEF WaitInv, Shared
    <3>2. Fails(frame[h], u)' => Fails(frame[h], u)
      BY <2>2 DEF Fails
    <3>3. CASE u = t
      <4>1. ~ Failing(u) /\ \A k \in Handler : ~ Writing(k, u)
        BY <1>9, <2>4, <3>1, <3>3, LockFree
      <4>2. ~ (u \in errors)' /\ ~ Fails(frame[h], u)'
        BY <1>1, <3>2, <4>1 DEF Failing
      <4>3. frame'[h].requeue = NoAgent
        BY <1>6, <2>2
      <4>. QED BY <2>2, <2>5, <3>3, <4>1, <4>2, <4>3, LockTaken
    <3>4. CASE u # t
      <4>1. ~ Writing(h, u)'
        BY <1>6, <2>2, <3>4 DEF Writing, Writes
      <4>. QED BY <1>1, <2>2, <2>5, <3>1, <3>2, <3>4, <4>1, LockKept DEF Failing
    <3>. QED BY <3>3, <3>4
  <2>7. ASSUME NEW u PROVE /\ Pulling(h, u)' => Pulling(h, u) /\ u # t
                           /\ Pulling(h, u) /\ u # t => Pulling(h, u)'
    <3>1. Pulling(h, u)' <=> Beyond(x, "pull", u)
      BY <2>2 DEF Pulling, Pulls
    <3>2. Pulling(h, u) <=> Beyond(x, "pull", u) \/ Holding(x, "pull", u)
      BY <1>1 DEF Pulling, Pulls
    <3>3. Beyond(x, "pull", u) => u # t
      BY <1>2, <1>4, <1>8 DEF Beyond, Asks, PullsFirst
    <3>4. Holding(x, "pull", u) /\ u # t => Beyond(x, "pull", u)
      BY <1>2, <1>8 DEF Beyond, Holding, Asks
    <3>. QED BY <3>1, <3>2, <3>3, <3>4
  <2>8. ASSUME ~ crowded' PROVE OfferInv'
    <3>1. OfferInv /\ \A a \in Agent : Active(a)' => Active(a)
      BY <1>1, <2>8 DEF WaitInv, Active
    <3>2. Solo'
      BY <2>2, <3>1, SoloKept DEF OfferInv
    <3>3. PullsWait'
      <4>1. ASSUME NEW u \in Task, u = t, NEW k \in Handler, Pulling(k, u)' PROVE FALSE
        <5>1. k # h /\ Pulling(k, u)
          BY <2>2, <2>7, <4>1 DEF Others, Pulling
        <5>2. Offers(frame[k].todo)
          BY <5>1 DEF Pulling, Pulls, Beyond, Holding, Asks, Offers
        <5>. QED BY <1>5, <3>1, <5>1, <5>2 DEF OfferInv, Solo
      <4>2. \A u \in Task : task[u].status = WAITING_FOR_AGENT =>
                task'[u].status = WAITING_FOR_AGENT \/ \A k \in Handler : ~ Pulling(k, u)'
        BY <2>5, <4>1
      <4>3. \A u \in Task : Pulling(h, u)' => Pulling(h, u)
        BY <2>7
      <4>. QED BY <2>2, <3>1, <4>2, <4>3, PullsKept DEF OfferInv
    <3>4. TriedKnown'
      <4>1. ASSUME NEW k \in Handler \ {h}, Seeks(pc[k], frame[k]) PROVE task'[frame[k].task] = task[frame[k].task]
        <5>1. frame[k].task \in Task /\ task[frame[k].task].status = NOT_STARTED
          BY <3>1, <4>1, Turn DEF Seeks, FrameOK, Publishing, Steps, OfferInv, TriedKnown
        <5>2. frame[k].task # t
          BY <1>9, <5>1 DEF NOT_STARTED, WAITING_FOR_AGENT
        <5>. QED BY <2>5, <5>1, <5>2
      <4>2. frame'[h].tried = task'[frame'[h].task].attempted /\ task'[frame'[h].task].status = NOT_STARTED
        BY <1>6, <2>2, <2>5
      <4>. QED BY <2>2, <3>1, <4>1, <4>2, TriedKept DEF OfferInv
    <3>5. AgainComes'
      BY <2>2, <3>1, AgainKept DEF OfferInv
    <3>6. WaitersSeen'
      <4>1. ASSUME NEW u \in Task, task'[u].status = WAITING_FOR_AGENT
            PROVE  task'[u] = task[u] /\ (Pulling(h, u) => Pulling(h, u)')
        <5>1. u # t
          BY <2>4, <2>5, <4>1
        <5>. QED BY <2>5, <2>7, <5>1
      <4>. QED BY <2>2, <3>1, <4>1, WaitersKept DEF OfferInv
    <3>. QED BY <3>2, <3>3, <3>4, <3>5, <3>6 DEF OfferInv
  <2>. QED BY <2>2, <2>3, <2>6, <2>8, Assembled
<1>10. CASE task[t].status # WAITING_FOR_AGENT /\ Throw(h, f) /\ UNCHANGED task
  <2>1. crowded
    BY <1>3, <1>5, <1>10 DEF WaitInv, OfferInv, PullsWait, Pulling
  <2>2. PICK n \in Nat, r \in Seq(AnyItem) : Works(h, r) /\ Left(r, x, n)
    BY <1>1, <1>10, ThrowWorks
  <2>3. Plan(r) /\ Others(h)
    BY <1>4, <2>2, LeftPlan DEF Works
  <2>4. Quest(pc'[h], frame'[h])
    BY <2>2, <2>3, WorksQuest
  <2>5. ASSUME NEW u \in Shared PROVE Lock(u)'
    <3>1. Lock(u)
      BY DEF WaitInv
    <3>2. Holding(r, "fail", u) => Fails(frame[h], u)
      BY <2>2 DEF Fails, Holding, Left
    <3>. QED BY <1>1, <1>10, <2>2, <3>1, <3>2, WorksLock DEF Failing
  <2>. QED BY <1>1, <2>1, <2>3, <2>4, <2>5, Assembled
<1>. QED BY <1>7, <1>9, <1>10

LEMMA ServeWait == ASSUME NoneLost, TypeInv, PlaceInv, WaitInv, NEW h \in Handler, Serve(h) PROVE WaitInv'
<1>1. CASE FailTask(h) \/ ErrorOutcome(h) \/ GetTaskRoutes(h) \/ WaitForAgent(h) \/ AssignAgent(h)
  BY <1>1, FailTaskWait, ErrorOutcomeWait, GetTaskRoutesWait, WaitForAgentWait, AssignAgentWait
<1>2. CASE SetPublished(h) \/ CreateOutcome(h) \/ SendTask(h)
  BY <1>2, SetPublishedWait, CreateOutcomeWait, SendTaskWait
<1>3. CASE RepublishTask(h) \/ RequeueTask(h) \/ Resend(h) \/ Requeued(h)
  BY <1>3, RepublishTaskWait, RequeueTaskWait, ResendWait, RequeuedWait
<1>4. CASE ListLost(h) \/ Answer(h) \/ ListWaiting(h) \/ LookAgain(h) \/ PullAgent(h) \/ ClaimTask(h)
  BY <1>4, ListLostWait, AnswerWait, ListWaitingWait, LookAgainWait, PullAgentWait, ClaimTaskWait
<1>5. CASE ListOrphans(h) \/ Orphan(h) \/ CatchItem(h) \/ SetOffline(h)
  BY <1>5, ListOrphansWait, OrphanWait, CatchWait, SetOfflineWait
<1>. QED BY <1>1, <1>2, <1>3, <1>4, <1>5 DEF Serve

LEMMA EnvironmentWait == ASSUME NoneLost, TypeInv, WaitInv, Environment PROVE WaitInv'
<1>1. ASSUME NEW a \in Agent, Lapse(a) \/ Crash(a) PROVE WaitInv'
  BY <1>1, LapseWait, CrashWait
<1>2. ASSUME NEW m \in queue, Consume(m) \/ Expire(m) PROVE WaitInv'
  BY <1>2, ConsumeWait, ExpireWait
<1>3. ASSUME NEW h \in Handler, Launch(h) \/ OnTTLMessage(h) \/ OnLaunchTaskErrorMessage(h) PROVE WaitInv'
  BY <1>3, LaunchWait, ExpiredWait, RefusedWait
<1>4. ASSUME NEW h \in Handler, NEW o \in run, Finish(h, o) PROVE WaitInv'
  BY <1>4, FinishWait
<1>5. ASSUME NEW h \in Handler, NEW a \in Agent, Heartbeat(h, a) \/ ProcessOrphanedTasks(h, a) PROVE WaitInv'
  BY <1>5, HeartbeatWait, OrphansAskedWait
<1>. QED BY <1>1, <1>2, <1>3, <1>4, <1>5 DEF Environment

LEMMA InitWait == Init => WaitInv
<1>. SUFFICES ASSUME Init PROVE WaitInv
  OBVIOUS
<1>1. \A h \in Handler : pc[h] = "idle" /\ frame[h] = EmptyFrame
  BY DEF Init
<1>2. EmptyFrame.todo = <<>>
  BY DEF EmptyFrame
<1>3. /\ \A t : ~ Fails(EmptyFrame, t) /\ ~ Pulls("idle", EmptyFrame, t)
      /\ ~ Offers(EmptyFrame.todo) /\ Quest("idle", EmptyFrame)
  BY <1>2, NoItem DEF Fails, Pulls, Offers, Quest, Publishing
<1>4. \A t \in Task : task[t].status = NULL /\ NULL # WAITING_FOR_AGENT
  BY DEF Init, NULL, WAITING_FOR_AGENT
<1>5. \A t \in Shared : Lock(t)
  BY <1>1, <1>3 DEF Lock, Writes, Init
<1>6. OfferInv
  BY <1>1, <1>3, <1>4 DEF OfferInv, Solo, PullsWait, TriedKnown, AgainComes, WaitersSeen
<1>. QED BY <1>1, <1>3, <1>5, <1>6 DEF WaitInv

LEMMA StepWait == NoneLost /\ TypeInv /\ PlaceInv /\ WaitInv /\ [Next]_vars => WaitInv'
<1>. SUFFICES ASSUME NoneLost, TypeInv, PlaceInv, WaitInv, [Next]_vars PROVE WaitInv'
  OBVIOUS
<1>1. CASE UNCHANGED vars
  BY <1>1, StillWait, AgentsSame DEF vars
<1>2. CASE Environment
  BY <1>2, EnvironmentWait
<1>3. ASSUME NEW h \in Handler, Serve(h) PROVE WaitInv'
  BY <1>3, ServeWait
<1>. QED BY <1>1, <1>2, <1>3 DEF Next

-----------------------------------------------------------------------------
(***************************************************************************)
(* The theorems                                                            *)
(***************************************************************************)
\* The documents, the messages, the processes and the handlers' locals stay what the
\* code can make of them, whatever expires, is lost, comes back and is published again.
THEOREM TypeCorrect == Spec => []TypeOK
<1>1. TypeInv => TypeOK
  <2>. SUFFICES ASSUME TypeInv PROVE TypeOK
    OBVIOUS
  <2>1. \A t \in Task : task[t].status \in TaskStatus /\ task[t].attempted \subseteq Agent
    BY DEF TypeInv, DocumentsOK
  <2>2. \A o \in Existing : outcome[o].task \in Task /\ outcome[o].agent \in Agent \cup {NoAgent}
                           /\ outcome[o].status \in TaskStatus
    BY DEF TypeInv, DocumentsOK, Document, Existing
  <2>3. queue \subseteq Message /\ dead \subseteq Message /\ errors \subseteq Task /\ run \subseteq Existing
    BY DEF TypeInv, MailOK, MessageOK, Existing
  <2>4. ASSUME NEW h \in Handler PROVE frame[h].targets \subseteq Agent /\ frame[h].cancel \subseteq Existing
    BY Turn DEF FrameOK, Frame, Existing
  <2>. QED BY <2>1, <2>2, <2>3, <2>4 DEF TypeOK, TypeInv, DocumentsOK, HandlersOK
<1>. QED BY <1>1, TypeInvariant, PTL

LEMMA AtMostOne ==
    ASSUME NEW S, \A x, y \in S : x = y
    PROVE  Cardinality(S) = (IF S = {} THEN 0 ELSE 1)
<1>1. CASE S = {}
  BY <1>1, FS_EmptySet
<1>2. CASE S # {}
  <2>1. PICK x \in S : TRUE
    BY <1>2
  <2>2. S = {x}
    BY <2>1
  <2>. QED BY <1>2, <2>2, FS_Singleton
<1>. QED BY <1>1, <1>2

\* A task that one agent runs is in one message, in one process or with one handler,
\* though reports, heartbeats, expiry and launch errors all publish tasks again.  The
\* task published again for a lost one is the job's first (AgentService.ts:448): it
\* has to be one that restarts, or it may be published beside its own message.
THEOREM OneRunnerAtATime == ASSUME RestartsRestart PROVE Spec => []OneRunner
<1>1. TypeInv /\ PlaceInv => OneRunner
  <2>. SUFFICES ASSUME TypeInv, PlaceInv, NEW t \in Task \ AutoRestart, Target[t] = "single"
                PROVE  Cardinality({m \in queue \cup dead : m.task = t})
                       + Cardinality({o \in run : outcome[o].task = t})
                       + Cardinality({h \in Handler : frame[h].task = t /\ pc[h] # "idle"}) <= 1
    BY DEF OneRunner
  <2>. DEFINE M == {m \in queue \cup dead : m.task = t}
              R == {o \in run : outcome[o].task = t}
              H == {h \in Handler : frame[h].task = t /\ pc[h] # "idle"}
  <2>1. Once(t) /\ Apart(t)
    BY DEF PlaceInv, Sole
  <2>2. (\A x, y \in M : x = y) /\ (\A x, y \in R : x = y)
    BY <2>1 DEF Once
  <2>3. \A x, y \in H : x = y
    BY <2>1 DEF Once, Holds
  <2>4. M # {} => R = {} /\ H = {}
    BY <2>1 DEF Apart, InMail, Runs, InHand, Holds
  <2>5. R # {} => H = {}
    BY <2>1 DEF Apart, Runs, InHand, Holds
  <2>. HIDE DEF M, R, H
  <2>6. /\ Cardinality(M) = (IF M = {} THEN 0 ELSE 1) /\ Cardinality(R) = (IF R = {} THEN 0 ELSE 1)
        /\ Cardinality(H) = (IF H = {} THEN 0 ELSE 1)
    BY <2>2, <2>3, AtMostOne
  <2>7. Cardinality(M) + Cardinality(R) + Cardinality(H) <= 1
    BY <2>4, <2>5, <2>6
  <2>. QED BY <2>7 DEF M, R, H
<1>2. Spec => []PlaceInv
  BY InitPlaces, StepPlaces, TypeInvariant, PTL DEF Spec
<1>. QED BY <1>1, <1>2, TypeInvariant, PTL

\* A task for a single agent that waits, when the server is at rest and no two requests
\* have offered waiting tasks at the same time, has been tried on every agent that is
\* active: none came back unnoticed, whatever the order of heartbeats, expiries and
\* publishing.  That is so where no task restarts by itself and an agent whose heartbeat
\* was late counts as one that comes back.
THEOREM WaitersJustified == ASSUME NoneLost PROVE Spec => []WaitingJustified
<1>1. WaitInv => WaitingJustified
  <2>. SUFFICES ASSUME WaitInv, Quiet, ~ crowded, NEW t \in Task, Target[t] = "single",
                       task[t].status = WAITING_FOR_AGENT
                PROVE  {a \in Agent : Active(a)} \subseteq task[t].attempted
    BY DEF WaitingJustified
  <2>1. t \in Task \ Shared
    BY DEF Shared
  <2>2. \A h \in Handler : pc[h] = "idle" /\ frame[h] = EmptyFrame
    BY DEF Quiet, WaitInv, Quest
  <2>3. EmptyFrame.todo = <<>>
    BY DEF EmptyFrame
  <2>4. ~ Alert(t)
    BY <2>2, <2>3, NoItem DEF Alert, Pulls
  <2>. QED BY <2>1, <2>4 DEF WaitInv, OfferInv, WaitersSeen
<1>2. RestartsRestart
  BY DEF NoneLost, RestartsRestart
<1>3. Spec => []PlaceInv
  BY <1>2, InitPlaces, StepPlaces, TypeInvariant, PTL DEF Spec
<1>4. Spec => []WaitInv
  BY <1>3, InitWait, StepWait, TypeInvariant, PTL DEF Spec
<1>. QED BY <1>1, <1>4, PTL
=============================================================================
