--------------------------- MODULE JobLaunch_proofs ---------------------------
(***************************************************************************)
(* Theorems about JobLaunch, for every set of jobs and handlers, every     *)
(* setting of the definition and every mix of requests and failures.       *)
(*                                                                         *)
(* The inductive invariant has three parts: the types; `Fits', which says  *)
(* what the locals of a call chain hold at each place it can stand; and    *)
(* what relates the locals to the database (LaunchExclusion, QuotaKept).   *)
(***************************************************************************)
EXTENDS JobLaunch, FiniteSetTheorems, TLAPS

\* Where a chain works on one job, and where it is inside the launcher's try block.
SubjectSteps  == Steps \ {"idle", "lock", "query", "count", "start", "release"}
LauncherSteps == {"query", "count", "start", "release"}

\* What the locals f satisfy at `step'.
Fits(step, f) ==
    /\ step \in SubjectSteps => Subject(f) \in Job
    /\ f.then # "idle" => f.target \in Job
    /\ step \in LauncherSteps => f.launching
    /\ step = "lock" => ~f.launching
    /\ f.quota > 0 => f.launching

FramesOK ==
    /\ pc \in [Handler -> Steps]
    /\ frame \in [Handler -> Frame]
    /\ \A h \in Handler : Fits(pc[h], frame[h])

DocumentsOK ==
    /\ defStatus \in JobDefStatus
    /\ launchingJobs \in BOOLEAN
    /\ maxInstances \in Limits
    /\ jobStatus \in [Job -> JobStatus \cup {NULL}]
    /\ built \subseteq Job /\ late \subseteq Job
    /\ skipping \subseteq Job /\ fired \in 0..MaxUnawaited /\ published \subseteq Job
    /\ crashes \in 0..MaxCrashes
    /\ launched \subseteq Job /\ inst \subseteq launched

TypeInv == DocumentsOK /\ FramesOK

-----------------------------------------------------------------------------
(***************************************************************************)
(* Lemmas about the control helpers                                        *)
(***************************************************************************)
\* The empty frame is well typed and fits where nothing is expected of the locals.
LEMMA EmptyFrameFits ==
    /\ EmptyFrame \in Frame
    /\ \A next \in {"idle", "lock"} : Fits(next, EmptyFrame)
BY DEF EmptyFrame, Frame, Fits, SubjectSteps, LauncherSteps, NoJob

\* Forgetting the dead locals keeps a frame well typed and fitting.
LEMMA LiveFits ==
    ASSUME NEW next \in Steps, NEW f \in Frame, Fits(next, f)
    PROVE  /\ Live(next, f) \in Frame
           /\ Fits(next, Live(next, f))
<1>1. CASE next = "idle"
  BY <1>1, EmptyFrameFits DEF Live, EmptyFrame
<1>2. CASE next # "idle"
  <2>1. Live(next, f) \in Frame
    BY <1>2 DEF Live, Frame
  <2>2. /\ Live(next, f).launching = f.launching
        /\ Live(next, f).quota = f.quota
        /\ Live(next, f).limit = f.limit
        /\ Live(next, f).then = f.then
    BY <1>2 DEF Live, Frame
  <2>3. Fits(next, Live(next, f))
    BY <1>2, <2>2 DEF Live, Frame, Fits, Subject, SubjectSteps, LauncherSteps
  <2>. QED BY <2>1, <2>2, <2>3
<1>. QED BY <1>1, <1>2

\* A handler that goes on with fitting locals keeps the frames in order.
LEMMA GoFits ==
    ASSUME FramesOK, NEW h \in Handler, NEW next \in Steps, NEW f \in Frame,
           Fits(next, f), Go(h, next, f)
    PROVE  FramesOK'
<1>1. Live(next, f) \in Frame /\ Fits(next, Live(next, f))
  BY LiveFits
<1>2. pc' \in [Handler -> Steps] /\ frame' \in [Handler -> Frame]
  BY <1>1 DEF Go, FramesOK
<1>3. ASSUME NEW i \in Handler PROVE Fits(pc'[i], frame'[i])
  BY <1>1 DEF Go, FramesOK
<1>. QED BY <1>2, <1>3 DEF FramesOK

\* The continuations of a chain are steps, and fit.
LEMMA ContinueFits ==
    ASSUME NEW f \in Frame, f.then # "idle" => f.target \in Job,
           f.launching => f.starting \in Job, f.quota > 0 => f.launching
    PROVE  Continue(f) \in Steps /\ Fits(Continue(f), f)
BY DEF Continue, Frame, Steps, Fits, Subject, SubjectSteps, LauncherSteps

\* Calling LaunchReadyJobs only sets the clock.
LEMMA CallingFits ==
    ASSUME DocumentsOK, NEW f \in Frame, f.then # "idle" => f.target \in Job, ~f.launching,
           f.quota = 0
    PROVE  Calling(f) \in Frame /\ Fits("lock", Calling(f))
<1>1. Calling(f) \in Frame
  BY DEF DocumentsOK, Calling, Frame
<1>. QED BY <1>1 DEF Calling, Frame, Fits, SubjectSteps, LauncherSteps

\* numJobsToStart is never negative and, when there is a limit, leaves room.
LEMMA QuotaBound ==
    ASSUME NEW limit \in Nat, NEW running \in Nat, NEW ready \in Nat
    PROVE  LET quota == NumJobsToStart(limit, running, ready)
           IN  /\ quota \in Nat
               /\ limit # 0 /\ quota > 0 => running + quota <= limit
BY DEF NumJobsToStart

\* updateJob goes on after its write.
LEMMA AfterUpdateFits ==
    ASSUME TypeInv, NEW h \in Handler, NEW f \in Frame, Subject(f) \in Job,
           f.then # "idle" => f.target \in Job, f.quota > 0 => f.launching,
           AfterUpdate(h, f)
    PROVE  FramesOK'
<1>. USE DEF TypeInv
<1>1. CASE f.status \in Finished /\ ~f.launching
  <2>. DEFINE g == [f EXCEPT !.again = FALSE]
  <2>1. /\ g \in Frame /\ ~g.launching /\ g.quota = 0
        /\ g.then # "idle" => g.target \in Job
    <3>1. g \in Frame /\ g.then = f.then /\ g.target = f.target /\ g.quota = f.quota
      BY DEF Frame
    <3>2. g.launching = f.launching
      BY DEF Frame
    <3>3. f.quota \in Nat
      BY DEF Frame
    <3>. QED BY <1>1, <3>1, <3>2, <3>3
  <2>2. Calling(g) \in Frame /\ Fits("lock", Calling(g))
    <3>. HIDE DEF g
    <3>. QED BY <2>1, CallingFits
  <2>3. Go(h, "lock", Calling(g))
    BY <1>1 DEF AfterUpdate
  <2>. HIDE DEF g
  <2>. QED BY <2>2, <2>3, GoFits DEF Steps
<1>2. CASE ~(f.status \in Finished /\ ~f.launching)
  <2>1. Continue(f) \in Steps /\ Fits(Continue(f), f)
    BY ContinueFits DEF Subject
  <2>2. Go(h, Continue(f), f)
    BY <1>2 DEF AfterUpdate
  <2>. QED BY <2>1, <2>2, GoFits
<1>. QED BY <1>1, <1>2

\* LaunchReadyJobs returns.
LEMMA AfterLaunchFits ==
    ASSUME TypeInv, NEW h \in Handler, AfterLaunch(h, frame[h])
    PROVE  FramesOK'
<1>. DEFINE f == frame[h]
            g == [f EXCEPT !.launching = FALSE, !.seenLate = {}, !.limit = 0,
                           !.todo = {}, !.quota = 0, !.again = FALSE]
<1>1. f \in Frame /\ (f.then # "idle" => f.target \in Job)
  BY DEF TypeInv, FramesOK, Fits
<1>2. /\ g \in Frame /\ ~g.launching /\ g.quota = 0
      /\ g.then # "idle" => g.target \in Job
  BY <1>1 DEF Frame
<1>3. \/ Go(h, "lock", Calling(g))
      \/ Go(h, Continue(g), g)
  BY DEF AfterLaunch
<1>. HIDE DEF g
<1>4. Calling(g) \in Frame /\ Fits("lock", Calling(g))
  BY <1>2, CallingFits DEF TypeInv
<1>5. Continue(g) \in Steps /\ Fits(Continue(g), g)
  BY <1>2, ContinueFits DEF Frame
<1>. QED BY <1>2, <1>3, <1>4, <1>5, GoFits DEF TypeInv, Steps

\* A call that is not awaited is counted up to the bound.
LEMMA FireTypes ==
    ASSUME fired \in 0..MaxUnawaited, FireLaunch
    PROVE  fired' \in 0..MaxUnawaited
BY ConstantsAssumption DEF FireLaunch

\* One more element makes a finite set at most one larger.
LEMMA OneMore ==
    ASSUME NEW S, IsFiniteSet(S), NEW x
    PROVE  /\ Cardinality(S) \in Nat
           /\ Cardinality(S \cup {x}) \in Nat
           /\ Cardinality(S \cup {x}) <= Cardinality(S) + 1
<1>1. Cardinality(S) \in Nat
  BY FS_CardinalityType
<1>2. Cardinality(S \cup {x}) = IF x \in S THEN Cardinality(S) ELSE Cardinality(S) + 1
  BY FS_AddElement
<1>. QED BY <1>1, <1>2

-----------------------------------------------------------------------------
(***************************************************************************)
(* Type correctness                                                        *)
(***************************************************************************)
\* The actions that create a job, and the user's actions on one.
LEMMA RequestTypes ==
    ASSUME TypeInv, NEW h \in Handler, Request(h)
    PROVE  TypeInv'
<1>. USE ConstantsAssumption DEF TypeInv
<1>1. CASE CreateJob(h)
  <2>1. PICK j \in Job \ Existing :
            /\ jobStatus' = [jobStatus EXCEPT ![j] = NOT_STARTED]
            /\ Go(h, "create", [EmptyFrame EXCEPT !.target = j])
    BY <1>1 DEF CreateJob
  <2>2. DocumentsOK'
    BY <1>1, <2>1 DEF CreateJob, DocumentsOK, defVars, histVars, JobStatus
  <2>3. /\ [EmptyFrame EXCEPT !.target = j] \in Frame
        /\ Fits("create", [EmptyFrame EXCEPT !.target = j])
    BY EmptyFrameFits DEF EmptyFrame, Frame, Fits, Subject, SubjectSteps, LauncherSteps
  <2>. QED BY <2>1, <2>2, <2>3, GoFits DEF Steps
<1>2. CASE ReportOutcome(h)
  <2>1. PICK j \in published :
            Go(h, "read", [EmptyFrame EXCEPT !.target = j, !.then = "reread"])
    BY <1>2 DEF ReportOutcome
  <2>2. DocumentsOK'
    BY <1>2 DEF ReportOutcome, DocumentsOK, defVars, histVars
  <2>3. /\ [EmptyFrame EXCEPT !.target = j, !.then = "reread"] \in Frame
        /\ Fits("read", [EmptyFrame EXCEPT !.target = j, !.then = "reread"])
    BY EmptyFrameFits
       DEF DocumentsOK, EmptyFrame, Frame, Fits, Subject, SubjectSteps, LauncherSteps
  <2>. QED BY <2>1, <2>2, <2>3, GoFits DEF Steps
<1>3. ASSUME NEW from, NEW to \in JobStatus, NEW next \in {"decide", "tasks"},
             NEW then \in {"idle", "fire"}, JobAction(h, from, to, next, then)
      PROVE  TypeInv'
  <2>. DEFINE f(j) == [EmptyFrame EXCEPT !.target = j, !.status = to, !.then = then]
  <2>1. PICK j \in Job : SetStatus(j, to) /\ Go(h, next, f(j))
    BY <1>3 DEF JobAction, WithStatus
  <2>2. DocumentsOK'
    BY <1>3, <2>1 DEF JobAction, SetStatus, DocumentsOK, defVars
  <2>3. f(j) \in Frame /\ Fits(next, f(j))
    BY <1>3, EmptyFrameFits
       DEF EmptyFrame, Frame, Fits, Subject, SubjectSteps, LauncherSteps, Steps
  <2>4. next \in Steps
    BY <1>3 DEF Steps
  <2>. HIDE DEF f
  <2>. QED BY <2>1, <2>2, <2>3, <2>4, GoFits
<1>4. CASE InterruptJob(h) \/ RestartJob(h) \/ CancelJob(h)
  <2>1. {RUNNING, INTERRUPTING, CANCELING} \subseteq JobStatus
    BY DEF JobStatus
  <2>. QED BY <1>3, <1>4, <2>1 DEF InterruptJob, RestartJob, CancelJob
<1>5. Calling(EmptyFrame) \in Frame /\ Fits("lock", Calling(EmptyFrame))
  BY EmptyFrameFits, CallingFits DEF EmptyFrame
<1>6. CASE UnpauseJobDef(h)
  <2>1. DocumentsOK'
    BY <1>6 DEF UnpauseJobDef, DocumentsOK, JobDefStatus, histVars
  <2>. QED BY <1>5, <1>6, <2>1, GoFits DEF UnpauseJobDef, Steps
<1>7. CASE SetMaxInstances(h)
  <2>1. PICK m \in Limits :
            /\ maxInstances' = m
            /\ Go(h, IF m > maxInstances THEN "lock" ELSE "idle", Calling(EmptyFrame))
    BY <1>7 DEF SetMaxInstances
  <2>2. DocumentsOK'
    BY <1>7, <2>1 DEF SetMaxInstances, DocumentsOK, histVars
  <2>3. Fits("idle", Calling(EmptyFrame))
    BY EmptyFrameFits DEF Calling, EmptyFrame, Fits, SubjectSteps, LauncherSteps
  <2>. QED BY <1>5, <2>1, <2>2, <2>3, GoFits DEF Steps
<1>. QED BY <1>1, <1>2, <1>4, <1>6, <1>7 DEF Request

\* The steps of UpdateJobStatus, updateJob and updateTaskOutcome.
LEMMA UpdateTypes ==
    ASSUME TypeInv, NEW h \in Handler,
           \/ CreateTasks(h) \/ CreateSucceeds(h) \/ CreateFails(h) \/ ReadJob(h)
           \/ Decide(h) \/ WriteStatus(h) \/ CheckFailedJobs(h) \/ ResumeJobDef(h)
           \/ RereadJob(h) \/ PauseOnFailure(h)
    PROVE  TypeInv'
<1>. USE DEF TypeInv
<1>. DEFINE f == frame[h]
<1>0. /\ f \in Frame /\ pc[h] \in Steps /\ Fits(pc[h], f)
      /\ pc[h] \in SubjectSteps => Subject(f) \in Job
      /\ f.then # "idle" => f.target \in Job
      /\ f.quota > 0 => f.launching
  BY DEF FramesOK, Fits
<1>1. ASSUME NEW s \in JobStatus \cup {NULL}
      PROVE  /\ [f EXCEPT !.status = s] \in Frame
             /\ Subject([f EXCEPT !.status = s]) = Subject(f)
             /\ \A next \in SubjectSteps :
                    Subject(f) \in Job => Fits(next, [f EXCEPT !.status = s])
  <2>1. [f EXCEPT !.status = s] \in Frame
    BY <1>0 DEF Frame
  <2>2. /\ [f EXCEPT !.status = s].target = f.target
        /\ [f EXCEPT !.status = s].starting = f.starting
        /\ [f EXCEPT !.status = s].launching = f.launching
        /\ [f EXCEPT !.status = s].then = f.then
        /\ [f EXCEPT !.status = s].quota = f.quota
    BY <1>0 DEF Frame
  <2>. QED BY <1>0, <2>1, <2>2 DEF Fits, Subject, SubjectSteps, LauncherSteps
<1>2. Subject(f) \in Job => Continue(f) \in Steps /\ Fits(Continue(f), f)
  BY <1>0, ContinueFits DEF Subject
<1>3. CASE CreateTasks(h)
  <2>1. Subject(f) \in Job
    BY <1>0, <1>3 DEF CreateTasks, SubjectSteps, Steps
  <2>2. DocumentsOK'
    BY <1>3, <2>1, FireTypes DEF CreateTasks, DocumentsOK, defVars, histVars
  <2>3. Fits("created", f) /\ "created" \in Steps
    BY <1>0, <2>1 DEF Fits, LauncherSteps, Steps
  <2>. QED BY <1>0, <1>3, <2>2, <2>3, GoFits DEF CreateTasks
<1>4. CASE CreateSucceeds(h)
  <2>1. DocumentsOK'
    BY <1>4 DEF CreateSucceeds, DocumentsOK, defVars, histVars
  <2>2. Fits("idle", f) /\ "idle" \in Steps
    BY <1>0 DEF Fits, SubjectSteps, LauncherSteps, Steps
  <2>. QED BY <1>0, <1>4, <2>1, <2>2, GoFits DEF CreateSucceeds
<1>5. CASE CreateFails(h) \/ ReadJob(h) \/ RereadJob(h)
  <2>1. DocumentsOK'
    BY <1>5 DEF CreateFails, ReadJob, RereadJob, DocumentsOK, defVars, histVars
  <2>2. Subject(f) \in Job
    BY <1>0, <1>5 DEF CreateFails, ReadJob, RereadJob, SubjectSteps, Steps
  <2>3. PICK next \in {"write", "decide", "pause"}, s \in JobStatus \cup {NULL} :
            Go(h, next, [f EXCEPT !.status = s])
    <3>1. jobStatus[Subject(f)] \in JobStatus \cup {NULL}
      BY <2>2 DEF DocumentsOK
    <3>2. FAILED \in JobStatus
      BY DEF JobStatus
    <3>. QED BY <1>5, <3>1, <3>2 DEF CreateFails, ReadJob, RereadJob
  <2>4. next \in SubjectSteps /\ next \in Steps
    BY DEF SubjectSteps, Steps
  <2>. QED BY <1>1, <2>1, <2>2, <2>3, <2>4, GoFits
<1>6. CASE Decide(h)
  <2>1. DocumentsOK'
    BY <1>6 DEF Decide, DocumentsOK, defVars, histVars
  <2>2. Subject(f) \in Job
    BY <1>0, <1>6 DEF Decide, SubjectSteps, Steps
  <2>3. f.status \in JobStatus \cup {NULL}
    BY <1>0 DEF Frame
  <2>4. \A s \in MayBecome(f.status) : s \in JobStatus \cup {NULL}
    BY <2>3 DEF MayBecome, JobStatus
  <2>5. CASE \E s \in MayBecome(f.status) : Go(h, "write", [f EXCEPT !.status = s])
    BY <1>1, <2>1, <2>2, <2>4, <2>5, GoFits DEF SubjectSteps, Steps
  <2>6. CASE Go(h, Continue(f), f)
    BY <1>0, <1>2, <2>1, <2>2, <2>6, GoFits
  <2>7. CASE Go(h, "pause", f)
    <3>1. Fits("pause", f) /\ "pause" \in Steps
      BY <1>0, <2>2 DEF Fits, SubjectSteps, LauncherSteps, Steps
    <3>. QED BY <1>0, <2>1, <2>7, <3>1, GoFits
  <2>. QED BY <1>6, <2>5, <2>6, <2>7 DEF Decide
<1>7. CASE WriteStatus(h)
  <2>1. Subject(f) \in Job
    BY <1>0, <1>7 DEF WriteStatus, SubjectSteps, Steps
  <2>2. DocumentsOK'
    BY <1>0, <1>7, <2>1 DEF WriteStatus, SetStatus, DocumentsOK, Frame, defVars
  <2>3. Fits("check", f) /\ "check" \in Steps
    BY <1>0, <2>1 DEF Fits, LauncherSteps, Steps
  <2>. QED BY <1>0, <1>7, <2>1, <2>2, <2>3, GoFits, AfterUpdateFits DEF WriteStatus
<1>8. CASE CheckFailedJobs(h)
  <2>1. Subject(f) \in Job
    BY <1>0, <1>8 DEF CheckFailedJobs, SubjectSteps, Steps
  <2>2. DocumentsOK'
    BY <1>8 DEF CheckFailedJobs, DocumentsOK, defVars, histVars
  <2>3. Fits("resume", f) /\ "resume" \in Steps
    BY <1>0, <2>1 DEF Fits, LauncherSteps, Steps
  <2>. QED BY <1>0, <1>8, <2>1, <2>2, <2>3, GoFits, AfterUpdateFits DEF CheckFailedJobs
<1>9. CASE ResumeJobDef(h)
  <2>1. Subject(f) \in Job
    BY <1>0, <1>9 DEF ResumeJobDef, SubjectSteps, Steps
  <2>2. DocumentsOK'
    BY <1>9 DEF ResumeJobDef, DocumentsOK, JobDefStatus, histVars
  <2>3. CASE AfterUpdate(h, f)
    BY <1>0, <2>1, <2>2, <2>3, AfterUpdateFits
  <2>4. CASE ~f.launching /\ Go(h, "lock", Calling([f EXCEPT !.again = f.status \in Finished]))
    <3>. DEFINE b == f.status \in Finished
    <3>. DEFINE g == [f EXCEPT !.again = b]
    <3>0. b \in BOOLEAN
      OBVIOUS
    <3>. HIDE DEF b
    <3>1. g \in Frame /\ g.then = f.then /\ g.target = f.target /\ g.quota = f.quota
      BY <1>0, <3>0 DEF Frame
    <3>2. g.launching = f.launching
      BY <1>0 DEF Frame
    <3>3. f.quota = 0
      BY <1>0, <2>4 DEF Frame
    <3>. HIDE DEF g
    <3>4. Calling(g) \in Frame /\ Fits("lock", Calling(g))
      BY <1>0, <2>4, <3>1, <3>2, <3>3, CallingFits
    <3>. QED BY <2>2, <2>4, <3>4, GoFits DEF Steps, g, b
  <2>. QED BY <1>9, <2>3, <2>4 DEF ResumeJobDef
<1>10. CASE PauseOnFailure(h)
  <2>1. Subject(f) \in Job
    BY <1>0, <1>10 DEF PauseOnFailure, SubjectSteps, Steps
  <2>2. DocumentsOK'
    BY <1>10 DEF PauseOnFailure, DocumentsOK, JobDefStatus, histVars
  <2>3. /\ [f EXCEPT !.then = "idle"] \in Frame
        /\ Fits("read", [f EXCEPT !.then = "idle"])
    BY <1>0, <2>1 DEF Frame, Fits, Subject, LauncherSteps
  <2>. QED BY <1>10, <2>2, <2>3, GoFits DEF PauseOnFailure, Steps
<1>. QED BY <1>3, <1>4, <1>5, <1>6, <1>7, <1>8, <1>9, <1>10

\* The steps of LaunchReadyJobs and of the launching of tasks.
LEMMA LaunchTypes ==
    ASSUME TypeInv, NEW h \in Handler,
           \/ RunLaunch(h) \/ TakeLock(h) \/ LockTaken(h) \/ QueryReadyJobs(h)
           \/ CountRunningJobs(h) \/ StartJob(h) \/ StartThrows(h) \/ TasksThrow(h)
           \/ LaunchThrows(h) \/ Release(h) \/ ReleaseFails(h)
           \/ BeginTasks(h) \/ TasksPublished(h) \/ NothingPublished(h) \/ LaunchAfterNothing(h)
    PROVE  TypeInv'
<1>. USE DEF TypeInv
<1>. DEFINE f == frame[h]
<1>0. /\ f \in Frame /\ pc[h] \in Steps /\ Fits(pc[h], f)
      /\ pc[h] \in SubjectSteps => Subject(f) \in Job
      /\ f.then # "idle" => f.target \in Job
      /\ f.quota > 0 => f.launching
      /\ pc[h] \in LauncherSteps => f.launching
  BY DEF FramesOK, Fits
<1>1. CASE RunLaunch(h)
  <2>1. fired' \in 0..MaxUnawaited
    BY <1>1, ConstantsAssumption DEF RunLaunch, DocumentsOK
  <2>2. DocumentsOK'
    BY <1>1, <2>1 DEF RunLaunch, DocumentsOK, defVars, histVars
  <2>3. Calling(EmptyFrame) \in Frame /\ Fits("lock", Calling(EmptyFrame))
    BY EmptyFrameFits, CallingFits DEF EmptyFrame
  <2>. QED BY <1>1, <2>2, <2>3, GoFits DEF RunLaunch, Steps
<1>2. CASE TakeLock(h)
  <2>. DEFINE g == [f EXCEPT !.launching = TRUE, !.limit = maxInstances]
  <2>1. DocumentsOK'
    BY <1>2 DEF TakeLock, DocumentsOK, histVars
  <2>2. g \in Frame /\ g.then = f.then /\ g.target = f.target
    BY <1>0 DEF Frame, DocumentsOK
  <2>3. g.launching = TRUE
    BY <1>0 DEF Frame
  <2>4. Fits("release", g) /\ Fits("query", g) /\ {"release", "query"} \subseteq Steps
    BY <1>0, <2>2, <2>3 DEF Fits, SubjectSteps, LauncherSteps, Steps
  <2>5. Go(h, "release", g) \/ Go(h, "query", g)
    BY <1>2 DEF TakeLock
  <2>. HIDE DEF g
  <2>. QED BY <2>1, <2>2, <2>4, <2>5, GoFits
<1>3. CASE LockTaken(h) \/ Release(h) \/ ReleaseFails(h)
  <2>1. crashes < MaxCrashes => crashes + 1 \in 0..MaxCrashes
    BY ConstantsAssumption DEF DocumentsOK
  <2>2. DocumentsOK'
    BY <1>3, <2>1 DEF LockTaken, Release, ReleaseFails, DocumentsOK, defVars, histVars
  <2>. QED BY <1>3, <2>2, AfterLaunchFits DEF LockTaken, Release, ReleaseFails
<1>4. CASE QueryReadyJobs(h)
  <2>. DEFINE ready == WithStatus({NOT_STARTED})
              expired == ready \cap f.seenLate
              g == [f EXCEPT !.todo = ready \ expired]
  <2>1. ready \subseteq Job
    BY DEF WithStatus
  <2>. HIDE DEF ready
  <2>2. g \in Frame /\ g.then = f.then /\ g.target = f.target /\ g.quota = f.quota
    BY <1>0, <2>1 DEF Frame
  <2>3. f.launching
    BY <1>0, <1>4 DEF QueryReadyJobs, LauncherSteps
  <2>4. g.launching
    BY <1>0, <2>3 DEF Frame
  <2>5. Fits("release", g) /\ Fits("count", g) /\ {"release", "count"} \subseteq Steps
    BY <1>0, <2>2, <2>4 DEF Fits, SubjectSteps, LauncherSteps, Steps
  <2>6. Go(h, "release", g) \/ Go(h, "count", g)
    BY <1>4 DEF QueryReadyJobs, ready
  <2>7. DocumentsOK'
    BY <1>4, <2>1 DEF QueryReadyJobs, DocumentsOK, defVars, histVars, ready
  <2>. HIDE DEF g
  <2>. QED BY <2>2, <2>5, <2>6, <2>7, GoFits
<1>5. CASE CountRunningJobs(h)
  <2>1. f.todo \subseteq Job /\ IsFiniteSet(f.todo)
    BY <1>0, ConstantsAssumption, FS_Subset DEF Frame
  <2>2. PICK todo \in SUBSET f.todo, quota \in Nat :
            Go(h, "start", [f EXCEPT !.todo = todo, !.quota = quota])
    <3>. DEFINE q == NumJobsToStart(f.limit, Cardinality(WithStatus({RUNNING})),
                                    Cardinality(f.todo))
    <3>1. q \in Nat
      <4>1. WithStatus({RUNNING}) \subseteq Job
        BY DEF WithStatus
      <4>2. Cardinality(WithStatus({RUNNING})) \in Nat /\ Cardinality(f.todo) \in Nat
        BY <2>1, <4>1, ConstantsAssumption, FS_Subset, FS_CardinalityType
      <4>3. f.limit \in Nat
        <5>1. f.limit \in Limits \/ f.limit = 0
          BY <1>0 DEF Frame
        <5>2. \A m \in Limits : m \in Nat
          BY ConstantsAssumption
        <5>. QED BY <5>1, <5>2
      <4>. QED BY <4>2, <4>3, QuotaBound
    <3>2. Newest(f.todo) \subseteq f.todo
      BY DEF Newest
    <3>3. CASE Go(h, "start", [f EXCEPT !.todo = Newest(f.todo), !.quota = 1])
      BY <3>2, <3>3
    <3>4. CASE Go(h, "start", [f EXCEPT !.quota = q])
      <4>1. [f EXCEPT !.quota = q] = [f EXCEPT !.todo = f.todo, !.quota = q]
        BY <1>0 DEF Frame
      <4>. QED BY <3>1, <3>4, <4>1
    <3>. QED BY <1>5, <3>3, <3>4 DEF CountRunningJobs
  <2>. DEFINE g == [f EXCEPT !.todo = todo, !.quota = quota]
  <2>3. g \in Frame /\ g.then = f.then /\ g.target = f.target
    BY <1>0, <2>1, <2>2 DEF Frame
  <2>4. f.launching
    BY <1>0, <1>5 DEF CountRunningJobs, LauncherSteps
  <2>5. g.launching
    BY <1>0, <2>4 DEF Frame
  <2>6. Fits("start", g) /\ "start" \in Steps
    BY <1>0, <2>3, <2>5 DEF Fits, SubjectSteps, LauncherSteps, Steps
  <2>7. DocumentsOK'
    BY <1>5, <2>1 DEF CountRunningJobs, DocumentsOK, defVars, histVars
  <2>. HIDE DEF g
  <2>. QED BY <2>2, <2>3, <2>6, <2>7, GoFits DEF g
<1>6. CASE StartJob(h)
  <2>1. PICK j \in f.todo :
            /\ StartFilter(j) =>
                   /\ jobStatus' = [jobStatus EXCEPT ![j] = RUNNING]
                   /\ launched' = launched \cup {j}
                   /\ inst' = inst \cup {j}
                   /\ Go(h, "tasks", [f EXCEPT !.starting = j, !.todo = f.todo \ {j},
                                               !.quota = f.quota - 1])
            /\ ~StartFilter(j) =>
                   /\ UNCHANGED <<jobStatus, histVars>>
                   /\ Go(h, "start", [f EXCEPT !.starting = j, !.todo = f.todo \ {j},
                                               !.quota = f.quota - 1])
    BY <1>6 DEF StartJob
  <2>. DEFINE g == [f EXCEPT !.starting = j, !.todo = f.todo \ {j}, !.quota = f.quota - 1]
  <2>2. j \in Job
    BY <1>0 DEF Frame
  <2>3. f.quota - 1 \in Nat
    <3>1. f.quota > 0
      BY <1>6 DEF StartJob
    <3>2. f.quota \in Nat
      BY <1>0 DEF Frame
    <3>. QED BY <3>1, <3>2
  <2>4. g \in Frame /\ g.then = f.then /\ g.target = f.target /\ g.starting = j
    BY <1>0, <2>2, <2>3 DEF Frame
  <2>5. f.launching
    BY <1>0, <1>6 DEF StartJob, LauncherSteps
  <2>6. g.launching
    BY <1>0, <2>5 DEF Frame
  <2>7. Fits("start", g) /\ Fits("tasks", g) /\ {"start", "tasks"} \subseteq Steps
    BY <1>0, <2>2, <2>4, <2>6 DEF Fits, Subject, SubjectSteps, LauncherSteps, Steps
  <2>8. DocumentsOK'
    BY <1>6, <2>1, <2>2 DEF StartJob, DocumentsOK, JobStatus, defVars, histVars
  <2>9. Go(h, "start", g) \/ Go(h, "tasks", g)
    BY <2>1
  <2>. HIDE DEF g
  <2>. QED BY <2>4, <2>7, <2>8, <2>9, GoFits
<1>10. CASE StartThrows(h)
  <2>1. PICK j \in f.todo :
            Go(h, "start", [f EXCEPT !.starting = j, !.todo = f.todo \ {j}, !.quota = f.quota - 1])
    BY <1>10 DEF StartThrows
  <2>. DEFINE g == [f EXCEPT !.starting = j, !.todo = f.todo \ {j}, !.quota = f.quota - 1]
  <2>2. j \in Job /\ f.quota \in Nat /\ f.quota > 0
    BY <1>0, <1>10 DEF StartThrows, Frame
  <2>3. f.quota - 1 \in Nat
    BY <2>2
  <2>4. g \in Frame /\ g.then = f.then /\ g.target = f.target
    BY <1>0, <2>2, <2>3 DEF Frame
  <2>5. g.launching
    BY <1>0, <2>2 DEF Frame
  <2>6. Fits("start", g) /\ "start" \in Steps
    BY <1>0, <2>4, <2>5 DEF Fits, SubjectSteps, LauncherSteps, Steps
  <2>7. DocumentsOK'
    BY <1>10 DEF StartThrows, DocumentsOK, defVars, histVars
  <2>8. Go(h, "start", g)
    BY <2>1
  <2>. HIDE DEF g
  <2>. QED BY <2>4, <2>6, <2>7, <2>8, GoFits
<1>11. CASE TasksThrow(h)
  <2>1. DocumentsOK'
    BY <1>11 DEF TasksThrow, DocumentsOK, defVars, histVars
  <2>2. Fits("start", f) /\ "start" \in Steps
    BY <1>0, <1>11 DEF TasksThrow, Fits, SubjectSteps, LauncherSteps, Steps
  <2>. QED BY <1>0, <1>11, <2>1, <2>2, GoFits DEF TasksThrow
<1>7. CASE LaunchThrows(h)
  <2>. DEFINE g == [f EXCEPT !.then = "idle", !.again = FALSE]
  <2>1. DocumentsOK'
    BY <1>7 DEF LaunchThrows, DocumentsOK, defVars, histVars
  <2>2. g \in Frame /\ g.then = "idle"
    BY <1>0 DEF Frame
  <2>3. f.launching
    BY <1>0, <1>7 DEF LaunchThrows, LauncherSteps
  <2>4. g.launching
    BY <1>0, <2>3 DEF Frame
  <2>5. Fits("release", g) /\ "release" \in Steps
    BY <2>2, <2>4 DEF Fits, SubjectSteps, LauncherSteps, Steps
  <2>6. Go(h, "release", g)
    BY <1>7 DEF LaunchThrows
  <2>. HIDE DEF g
  <2>. QED BY <2>1, <2>2, <2>5, <2>6, GoFits
<1>8. CASE BeginTasks(h) \/ NothingPublished(h)
  <2>1. DocumentsOK'
    BY <1>8 DEF BeginTasks, NothingPublished, DocumentsOK, defVars, histVars
  <2>2. Subject(f) \in Job
    BY <1>0, <1>8 DEF BeginTasks, NothingPublished, SubjectSteps, Steps
  <2>3. PICK next \in {"publish", "decide"}, s \in JobStatus \cup {NULL} :
            Go(h, next, [f EXCEPT !.status = s])
    <3>1. jobStatus[Subject(f)] \in JobStatus \cup {NULL}
      BY <2>2 DEF DocumentsOK
    <3>2. f.status \in JobStatus \cup {NULL} /\ [f EXCEPT !.status = f.status] = f
      BY <1>0 DEF Frame
    <3>. QED BY <1>8, <3>1, <3>2 DEF BeginTasks, NothingPublished
  <2>. DEFINE g == [f EXCEPT !.status = s]
  <2>4. /\ g \in Frame /\ g.then = f.then /\ g.target = f.target
        /\ g.starting = f.starting /\ g.quota = f.quota
    BY <1>0 DEF Frame
  <2>5. g.launching = f.launching
    BY <1>0 DEF Frame
  <2>6. Fits(next, g) /\ next \in Steps
    BY <1>0, <2>2, <2>4, <2>5 DEF Fits, Subject, LauncherSteps, Steps
  <2>. HIDE DEF g
  <2>. QED BY <2>1, <2>3, <2>4, <2>6, GoFits DEF g
<1>9. CASE TasksPublished(h) \/ LaunchAfterNothing(h)
  <2>. DEFINE g == [f EXCEPT !.status = RUNNING, !.then = IF f.launching THEN @ ELSE "idle"]
  <2>1. Subject(f) \in Job
    BY <1>0, <1>9 DEF TasksPublished, LaunchAfterNothing, SubjectSteps, Steps
  <2>2. /\ g \in Frame /\ g.target = f.target /\ g.starting = f.starting /\ g.quota = f.quota
        /\ g.then # "idle" => f.then # "idle"
    BY <1>0 DEF Frame, JobStatus
  <2>3. g.launching = f.launching
    BY <1>0 DEF Frame
  <2>4. DocumentsOK'
    BY <1>9, <2>1, FireTypes
       DEF TasksPublished, LaunchAfterNothing, DocumentsOK, defVars, histVars
  <2>5. CASE f.launching
    <3>1. Fits("start", g) /\ "start" \in Steps
      BY <1>0, <2>2, <2>3, <2>5 DEF Fits, SubjectSteps, Steps
    <3>2. Go(h, "start", g)
      BY <1>9, <2>5 DEF TasksPublished, LaunchAfterNothing, AfterTasks
    <3>. HIDE DEF g
    <3>. QED BY <2>2, <2>4, <3>1, <3>2, GoFits
  <2>6. CASE ~f.launching
    <3>1. Fits("decide", g) /\ "decide" \in Steps
      BY <1>0, <2>1, <2>2, <2>3, <2>6 DEF Fits, Subject, LauncherSteps, Steps
    <3>2. Go(h, "decide", g)
      BY <1>9, <2>6 DEF TasksPublished, LaunchAfterNothing, AfterTasks
    <3>. HIDE DEF g
    <3>. QED BY <2>2, <2>4, <3>1, <3>2, GoFits
  <2>. QED BY <2>5, <2>6
<1>. QED BY <1>1, <1>2, <1>3, <1>4, <1>5, <1>6, <1>7, <1>8, <1>9, <1>10, <1>11

\* The environment's steps and the SKIPPED updates nobody awaits.
LEMMA OtherTypes ==
    ASSUME TypeInv,
           \/ \E h \in Handler : WriteSkipped(h) \/ Crash(h)
           \/ PauseJobDef
           \/ BecomeLate
    PROVE  TypeInv'
<1>. USE DEF TypeInv
<1>1. ASSUME NEW h \in Handler, WriteSkipped(h) PROVE TypeInv'
  <2>1. PICK j \in skipping :
            LET f == [EmptyFrame EXCEPT !.target = j, !.status = SKIPPED]
            IN  /\ skipping' = skipping \ {j}
                /\ SetStatus(j, SKIPPED)
                /\ Go(h, "check", f) \/ AfterUpdate(h, f)
    BY <1>1 DEF WriteSkipped
  <2>. DEFINE f == [EmptyFrame EXCEPT !.target = j, !.status = SKIPPED]
  <2>2. j \in Job
    BY DEF DocumentsOK
  <2>3. /\ f \in Frame /\ f.then = "idle" /\ f.target = j /\ f.quota = 0
        /\ f.launching = FALSE
    BY <2>2, EmptyFrameFits DEF EmptyFrame, Frame, JobStatus
  <2>4. Fits("check", f) /\ "check" \in Steps
    BY <2>2, <2>3 DEF Fits, Subject, LauncherSteps, Steps
  <2>5. Subject(f) \in Job
    BY <2>2, <2>3 DEF Subject
  <2>6. Go(h, "check", f) \/ AfterUpdate(h, f)
    BY <2>1
  <2>7. DocumentsOK'
    BY <1>1, <2>1, <2>2 DEF WriteSkipped, SetStatus, DocumentsOK, JobStatus, defVars
  <2>. HIDE DEF f
  <2>8. CASE Go(h, "check", f)
    BY <2>3, <2>4, <2>7, <2>8, GoFits
  <2>9. CASE AfterUpdate(h, f)
    BY <2>3, <2>5, <2>7, <2>9, AfterUpdateFits
  <2>. QED BY <2>6, <2>8, <2>9
<1>2. ASSUME NEW h \in Handler, Crash(h) PROVE TypeInv'
  <2>1. crashes' \in 0..MaxCrashes
    BY <1>2, ConstantsAssumption DEF Crash, DocumentsOK
  <2>2. DocumentsOK'
    BY <1>2, <2>1 DEF Crash, DocumentsOK, defVars, histVars
  <2>. QED BY <1>2, <2>2, EmptyFrameFits, GoFits DEF Crash, Steps
<1>3. CASE PauseJobDef
  <2>1. DocumentsOK'
    BY <1>3 DEF PauseJobDef, DocumentsOK, JobDefStatus, histVars
  <2>2. FramesOK'
    BY <1>3 DEF PauseJobDef, FramesOK
  <2>. QED BY <2>1, <2>2
<1>4. CASE BecomeLate
  <2>1. DocumentsOK'
    BY <1>4 DEF BecomeLate, Existing, DocumentsOK, defVars, histVars
  <2>2. FramesOK'
    BY <1>4 DEF BecomeLate, FramesOK
  <2>. QED BY <2>1, <2>2
<1>. QED BY <1>1, <1>2, <1>3, <1>4

\* TypeInv is inductive.
LEMMA TypeInvInductive ==
    /\ Init => TypeInv
    /\ TypeInv /\ [Next]_vars => TypeInv'
<1>1. ASSUME Init PROVE TypeInv
  <2>1. DocumentsOK
    <3>1. 0 \in 0..MaxUnawaited /\ 0 \in 0..MaxCrashes
      BY ConstantsAssumption
    <3>. QED BY <1>1, <3>1 DEF Init, DocumentsOK, JobDefStatus
  <2>2. FramesOK
    BY <1>1, EmptyFrameFits DEF Init, FramesOK, Steps
  <2>. QED BY <2>1, <2>2 DEF TypeInv
<1>2. ASSUME TypeInv, [Next]_vars PROVE TypeInv'
  <2>1. CASE UNCHANGED vars
    <3>1. DocumentsOK' /\ FramesOK'
      BY <1>2, <2>1 DEF vars, TypeInv, DocumentsOK, FramesOK
    <3>. QED BY <3>1 DEF TypeInv
  <2>2. ASSUME NEW h \in Handler, Request(h) \/ Step(h) \/ RunLaunch(h) PROVE TypeInv'
    BY <1>2, <2>2, RequestTypes, UpdateTypes, LaunchTypes DEF Step
  <2>. QED BY <1>2, <2>1, <2>2, OtherTypes DEF Next
<1>. QED BY <1>1, <1>2

\* The documents and the locals of every call chain have the values the code can give
\* them, whatever the interleaving of handlers, and a launcher's quota and job list
\* stay meaningful across its awaits.
THEOREM TypeCorrect == Spec => []TypeOK
<1>1. TypeInv => TypeOK
  BY DEF TypeInv, DocumentsOK, FramesOK, TypeOK
<1>. QED BY <1>1, TypeInvInductive, PTL DEF Spec

-----------------------------------------------------------------------------
(***************************************************************************)
(* Mutual exclusion of launchers, and the limit on running instances.      *)
(*                                                                         *)
(* A launcher counts the running jobs once; what it may still start stays  *)
(* within its limit because nobody else can add to `inst' while it holds   *)
(* the lock: everyone else's steps only take jobs out of it.               *)
(***************************************************************************)
QuotaKept ==
    /\ \A j \in inst : jobStatus[j] = RUNNING
    /\ \A h \in Handler :
          frame[h].quota > 0 /\ frame[h].limit # 0
             => Cardinality(inst) + frame[h].quota <= frame[h].limit

LaunchInv == TypeInv /\ LaunchExclusion /\ QuotaKept

\* Locals f hold nothing of the launcher that frame[h] does not hold.
Carries(h, f) ==
    /\ f \in Frame
    /\ f.launching => frame[h].launching
    /\ f.quota > 0 => f.quota = frame[h].quota /\ f.limit = frame[h].limit

\* A step of h in which it gains neither the lock nor a quota, and nobody else moves.
FrameKept(h) ==
    /\ \A i \in Handler \ {h} : frame'[i] = frame[i]
    /\ frame'[h].launching => frame[h].launching
    /\ frame'[h].quota > 0 =>
          frame'[h].quota = frame[h].quota /\ frame'[h].limit = frame[h].limit

\* Forgetting dead locals keeps the list, the quota and the start under way of a launcher.
LEMMA LiveKeeps ==
    ASSUME NEW next, NEW f \in Frame
    PROVE  /\ Live(next, f).launching => f.launching
           /\ Live(next, f).quota > 0 => Live(next, f).quota = f.quota
           /\ Live(next, f).quota > 0 => Live(next, f).limit = f.limit
<1>1. CASE next = "idle"
  BY <1>1 DEF Live, EmptyFrame
<1>2. CASE next # "idle"
  BY <1>2 DEF Live, Frame
<1>. QED BY <1>1, <1>2

\* A handler that goes on with locals it had gains neither the lock nor a quota.
LEMMA GoKeeps ==
    ASSUME FramesOK, NEW h \in Handler, NEW next, NEW f, Carries(h, f), Go(h, next, f)
    PROVE  FrameKept(h)
<1>1. frame'[h] = Live(next, f) /\ \A i \in Handler \ {h} : frame'[i] = frame[i]
  BY DEF Go, FramesOK
<1>. QED BY <1>1, LiveKeeps DEF Carries, FrameKept

\* updateJob going on after its write gains neither the lock nor a quota.
LEMMA AfterUpdateKeeps ==
    ASSUME TypeInv, NEW h \in Handler, NEW f, Carries(h, f), AfterUpdate(h, f)
    PROVE  FrameKept(h)
<1>. DEFINE g == Calling([f EXCEPT !.again = FALSE])
<1>1. Go(h, "lock", g) \/ Go(h, Continue(f), f)
  BY DEF AfterUpdate
<1>2. /\ g \in Frame /\ g.quota = f.quota /\ g.limit = f.limit
  BY DEF Carries, Calling, Frame, TypeInv, DocumentsOK
<1>3. g.launching = f.launching
  BY DEF Carries, Calling, Frame
<1>4. Carries(h, g)
  <2>. HIDE DEF g
  <2>. QED BY <1>2, <1>3 DEF Carries
<1>. QED BY <1>1, <1>4, GoKeeps DEF TypeInv

\* LaunchReadyJobs returning leaves the handler outside the try block.
LEMMA AfterLaunchKeeps ==
    ASSUME TypeInv, NEW h \in Handler, AfterLaunch(h, frame[h])
    PROVE  FrameKept(h) /\ ~frame'[h].launching
<1>. DEFINE f == frame[h]
            g == [f EXCEPT !.launching = FALSE, !.seenLate = {}, !.limit = 0,
                           !.todo = {}, !.quota = 0, !.again = FALSE]
<1>1. f \in Frame
  BY DEF TypeInv, FramesOK
<1>2. g \in Frame /\ ~g.launching /\ g.quota = 0
  BY <1>1 DEF Frame
<1>3. Go(h, "lock", Calling(g)) \/ Go(h, Continue(g), g)
  BY DEF AfterLaunch
<1>. HIDE DEF g
<1>4. Calling(g) \in Frame /\ ~Calling(g).launching /\ Calling(g).quota = 0
  BY <1>2 DEF Calling, Frame, TypeInv, DocumentsOK
<1>5. Carries(h, g) /\ Carries(h, Calling(g))
  BY <1>2, <1>4 DEF Carries
<1>6. \A next : ~Live(next, g).launching /\ ~Live(next, Calling(g)).launching
  BY <1>2, <1>4, LiveKeeps
<1>7. ~frame'[h].launching
  BY <1>3, <1>6 DEF Go, TypeInv, FramesOK
<1>. QED BY <1>3, <1>5, <1>7, GoKeeps DEF TypeInv

\* A request starts with fresh locals, which hold nothing of the launcher.
LEMMA FreshCarries ==
    ASSUME NEW h, NEW f \in Frame, f.quota = 0, ~f.launching
    PROVE  Carries(h, f)
BY DEF Carries

\* The empty frame holds nothing of the launcher.
LEMMA EmptyCarries ==
    ASSUME DocumentsOK, NEW h
    PROVE  Carries(h, Calling(EmptyFrame)) /\ Carries(h, EmptyFrame)
<1>1. Calling(EmptyFrame) \in Frame
  BY EmptyFrameFits DEF EmptyFrame, Frame, Calling, DocumentsOK
<1>2. Calling(EmptyFrame).quota = 0 /\ ~Calling(EmptyFrame).launching
  BY DEF EmptyFrame, Calling
<1>3. EmptyFrame.quota = 0 /\ ~EmptyFrame.launching
  BY DEF EmptyFrame
<1>. QED BY <1>1, <1>2, <1>3, FreshCarries, EmptyFrameFits

\* Naming the job of a request gives the frame nothing of the launcher.
LEMMA TargetCarries ==
    ASSUME NEW h, NEW j \in Job, NEW s \in JobStatus \cup {NULL},
           NEW then \in {"idle", "reread", "fire"}
    PROVE  /\ Carries(h, [EmptyFrame EXCEPT !.target = j, !.status = s, !.then = then])
           /\ Carries(h, [EmptyFrame EXCEPT !.target = j, !.then = then])
           /\ Carries(h, [EmptyFrame EXCEPT !.target = j, !.status = s])
           /\ Carries(h, [EmptyFrame EXCEPT !.target = j])
<1>1. Carries(h, [EmptyFrame EXCEPT !.target = j, !.status = s, !.then = then])
  <2>. DEFINE f == [EmptyFrame EXCEPT !.target = j, !.status = s, !.then = then]
  <2>1. f \in Frame /\ f.quota = 0 /\ ~f.launching
    BY EmptyFrameFits DEF EmptyFrame, Frame
  <2>. QED BY <2>1, FreshCarries
<1>2. Carries(h, [EmptyFrame EXCEPT !.target = j, !.then = then])
  <2>. DEFINE f == [EmptyFrame EXCEPT !.target = j, !.then = then]
  <2>1. f \in Frame /\ f.quota = 0 /\ ~f.launching
    BY EmptyFrameFits DEF EmptyFrame, Frame
  <2>. QED BY <2>1, FreshCarries
<1>3. Carries(h, [EmptyFrame EXCEPT !.target = j, !.status = s])
  <2>. DEFINE f == [EmptyFrame EXCEPT !.target = j, !.status = s]
  <2>1. f \in Frame /\ f.quota = 0 /\ ~f.launching
    BY EmptyFrameFits DEF EmptyFrame, Frame
  <2>. QED BY <2>1, FreshCarries
<1>4. Carries(h, [EmptyFrame EXCEPT !.target = j])
  <2>. DEFINE f == [EmptyFrame EXCEPT !.target = j]
  <2>1. f \in Frame /\ f.quota = 0 /\ ~f.launching
    BY EmptyFrameFits DEF EmptyFrame, Frame
  <2>. QED BY <2>1, FreshCarries
<1>. QED BY <1>1, <1>2, <1>3, <1>4

\* Setting the status local of a handler gives it nothing new of the launcher.
LEMMA StatusCarries ==
    ASSUME FramesOK, NEW h \in Handler, NEW s \in JobStatus \cup {NULL}
    PROVE  Carries(h, [frame[h] EXCEPT !.status = s]) /\ Carries(h, frame[h])
<1>. DEFINE f == frame[h]
            g == [f EXCEPT !.status = s]
<1>1. f \in Frame
  BY DEF FramesOK
<1>2. g \in Frame /\ g.quota = f.quota /\ g.limit = f.limit
  BY <1>1 DEF Frame
<1>3. g.launching = f.launching
  BY <1>1 DEF Frame
<1>. HIDE DEF g
<1>. QED BY <1>1, <1>2, <1>3 DEF Carries, g

\* What every step other than a launcher's own does.
Outside(h) ==
    /\ FrameKept(h)
    /\ launchingJobs' = launchingJobs
    /\ inst' \subseteq inst
    /\ \A j \in inst' : jobStatus[j] = RUNNING => jobStatus'[j] = RUNNING

\* Writing a status takes a job out of `inst' unless it is RUNNING again.
LEMMA SetStatusOutside ==
    ASSUME DocumentsOK, NEW j \in Job, NEW s, SetStatus(j, s)
    PROVE  /\ inst' \subseteq inst
           /\ \A k \in inst' : jobStatus[k] = RUNNING => jobStatus'[k] = RUNNING
BY DEF SetStatus, DocumentsOK

\* A request of a user or an agent neither enters nor leaves the launcher.
LEMMA RequestOutside ==
    ASSUME LaunchInv, NEW h \in Handler, Request(h)
    PROVE  Outside(h)
<1>. USE DEF LaunchInv, TypeInv
<1>1. CASE CreateJob(h)
  <2>1. PICK j \in Job \ Existing :
            /\ jobStatus' = [jobStatus EXCEPT ![j] = NOT_STARTED]
            /\ Go(h, "create", [EmptyFrame EXCEPT !.target = j])
    BY <1>1 DEF CreateJob
  <2>2. Carries(h, [EmptyFrame EXCEPT !.target = j])
    BY TargetCarries
  <2>3. j \notin inst
    <3>1. jobStatus[j] # RUNNING
      BY DEF Existing, NULL, RUNNING
    <3>. QED BY <3>1 DEF QuotaKept
  <2>4. /\ inst' = inst
        /\ \A k \in inst : jobStatus'[k] = jobStatus[k]
    BY <1>1, <2>1, <2>3 DEF CreateJob, histVars, DocumentsOK
  <2>. QED BY <1>1, <2>1, <2>2, <2>4, GoKeeps DEF CreateJob, Outside, defVars
<1>2. CASE ReportOutcome(h)
  <2>1. PICK j \in published :
            Go(h, "read", [EmptyFrame EXCEPT !.target = j, !.then = "reread"])
    BY <1>2 DEF ReportOutcome
  <2>2. Carries(h, [EmptyFrame EXCEPT !.target = j, !.then = "reread"])
    <3>1. j \in Job
      BY DEF DocumentsOK
    <3>. QED BY <3>1, TargetCarries
  <2>. QED BY <1>2, <2>1, <2>2, GoKeeps DEF ReportOutcome, Outside, defVars, histVars
<1>3. ASSUME NEW from, NEW to \in JobStatus, NEW next, NEW then \in {"idle", "fire"},
             JobAction(h, from, to, next, then)
      PROVE  Outside(h)
  <2>. DEFINE f(j) == [EmptyFrame EXCEPT !.target = j, !.status = to, !.then = then]
  <2>1. PICK j \in Job : SetStatus(j, to) /\ Go(h, next, f(j))
    BY <1>3 DEF JobAction, WithStatus
  <2>2. Carries(h, f(j))
    BY <1>3, TargetCarries
  <2>. HIDE DEF f
  <2>. QED BY <1>3, <2>1, <2>2, GoKeeps, SetStatusOutside DEF JobAction, Outside, defVars
<1>4. CASE InterruptJob(h) \/ RestartJob(h) \/ CancelJob(h)
  <2>1. {RUNNING, INTERRUPTING, CANCELING} \subseteq JobStatus
    BY DEF JobStatus
  <2>. QED BY <1>3, <1>4, <2>1 DEF InterruptJob, RestartJob, CancelJob
<1>5. CASE UnpauseJobDef(h) \/ SetMaxInstances(h)
  <2>1. PICK next : Go(h, next, Calling(EmptyFrame))
    BY <1>5 DEF UnpauseJobDef, SetMaxInstances
  <2>2. FrameKept(h)
    BY <2>1, EmptyCarries, GoKeeps DEF JobStatus
  <2>. QED BY <1>5, <2>2 DEF UnpauseJobDef, SetMaxInstances, Outside, histVars
<1>. QED BY <1>1, <1>2, <1>4, <1>5 DEF Request

\* The steps of UpdateJobStatus keep the lock and the launchers as they are.
LEMMA UpdateOutside ==
    ASSUME LaunchInv, NEW h \in Handler,
           \/ CreateTasks(h) \/ CreateSucceeds(h) \/ CreateFails(h) \/ ReadJob(h)
           \/ Decide(h) \/ WriteStatus(h) \/ CheckFailedJobs(h) \/ ResumeJobDef(h)
           \/ RereadJob(h) \/ PauseOnFailure(h)
    PROVE  Outside(h)
<1>. USE DEF LaunchInv, TypeInv
<1>. DEFINE f == frame[h]
<1>0. /\ f \in Frame /\ pc[h] \in Steps
      /\ pc[h] \in SubjectSteps => Subject(f) \in Job
      /\ Carries(h, f)
      /\ \A s \in JobStatus \cup {NULL} : Carries(h, [f EXCEPT !.status = s])
  BY StatusCarries DEF FramesOK, Fits
<1>1. CASE CreateTasks(h) \/ CreateSucceeds(h)
  <2>1. FrameKept(h)
    BY <1>0, <1>1, GoKeeps DEF CreateTasks, CreateSucceeds
  <2>. QED BY <1>1, <2>1 DEF CreateTasks, CreateSucceeds, Outside, defVars, histVars
<1>2. CASE CreateFails(h) \/ ReadJob(h) \/ RereadJob(h)
  <2>1. PICK next \in {"write", "decide", "pause"}, s \in JobStatus \cup {NULL} :
            Go(h, next, [f EXCEPT !.status = s])
    <3>1. Subject(f) \in Job
      BY <1>0, <1>2 DEF CreateFails, ReadJob, RereadJob, SubjectSteps, Steps
    <3>2. jobStatus[Subject(f)] \in JobStatus \cup {NULL} /\ FAILED \in JobStatus
      BY <3>1 DEF DocumentsOK, JobStatus
    <3>. QED BY <1>2, <3>2 DEF CreateFails, ReadJob, RereadJob
  <2>2. FrameKept(h)
    BY <1>0, <2>1, GoKeeps
  <2>. QED BY <1>2, <2>2 DEF CreateFails, ReadJob, RereadJob, Outside, defVars, histVars
<1>3. CASE Decide(h)
  <2>1. f.status \in JobStatus \cup {NULL}
    BY <1>0 DEF Frame
  <2>2. \A s \in MayBecome(f.status) : s \in JobStatus \cup {NULL}
    BY <2>1 DEF MayBecome, JobStatus
  <2>3. \/ \E s \in MayBecome(f.status) : Go(h, "write", [f EXCEPT !.status = s])
        \/ \E next : Go(h, next, f)
    BY <1>3 DEF Decide
  <2>4. FrameKept(h)
    BY <1>0, <2>2, <2>3, GoKeeps
  <2>. QED BY <1>3, <2>4 DEF Decide, Outside, defVars, histVars
<1>4. CASE WriteStatus(h)
  <2>1. Subject(f) \in Job
    BY <1>0, <1>4 DEF WriteStatus, SubjectSteps, Steps
  <2>2. SetStatus(Subject(f), f.status)
    BY <1>4 DEF WriteStatus
  <2>3. FrameKept(h)
    BY <1>0, <1>4, GoKeeps, AfterUpdateKeeps DEF WriteStatus
  <2>. QED BY <1>4, <2>1, <2>2, <2>3, SetStatusOutside DEF WriteStatus, Outside, defVars
<1>5. CASE CheckFailedJobs(h)
  <2>1. FrameKept(h)
    BY <1>0, <1>5, GoKeeps, AfterUpdateKeeps DEF CheckFailedJobs
  <2>. QED BY <1>5, <2>1 DEF CheckFailedJobs, Outside, defVars, histVars
<1>6. CASE ResumeJobDef(h)
  <2>1. CASE AfterUpdate(h, f)
    BY <1>0, <1>6, <2>1, AfterUpdateKeeps DEF ResumeJobDef, Outside, histVars
  <2>2. CASE Go(h, "lock", Calling([f EXCEPT !.again = f.status \in Finished]))
    <3>. DEFINE b == f.status \in Finished
    <3>. DEFINE g == Calling([f EXCEPT !.again = b])
    <3>0. b \in BOOLEAN
      OBVIOUS
    <3>. HIDE DEF b
    <3>1. g \in Frame /\ g.quota = f.quota /\ g.limit = f.limit
      BY <1>0, <3>0 DEF Frame, Calling, DocumentsOK
    <3>2. g.launching = f.launching
      BY <1>0 DEF Frame, Calling
    <3>3. Carries(h, g)
      <4>. HIDE DEF g
      <4>. QED BY <3>1, <3>2 DEF Carries
    <3>4. FrameKept(h)
      BY <2>2, <3>3, GoKeeps DEF b
    <3>. QED BY <1>6, <3>4 DEF ResumeJobDef, Outside, histVars
  <2>. QED BY <1>6, <2>1, <2>2 DEF ResumeJobDef
<1>7. CASE PauseOnFailure(h)
  <2>. DEFINE g == [f EXCEPT !.then = "idle"]
  <2>1. g \in Frame /\ g.quota = f.quota /\ g.limit = f.limit
    BY <1>0 DEF Frame
  <2>2. g.launching = f.launching
    BY <1>0 DEF Frame
  <2>3. Go(h, "read", g)
    BY <1>7 DEF PauseOnFailure
  <2>. HIDE DEF g
  <2>4. FrameKept(h)
    BY <2>1, <2>2, <2>3, GoKeeps DEF Carries
  <2>. QED BY <1>7, <2>4 DEF PauseOnFailure, Outside, histVars
<1>. QED BY <1>1, <1>2, <1>3, <1>4, <1>5, <1>6, <1>7

\* Calling the launcher and launching tasks keep the lock and the launchers as they are.
LEMMA LaunchOutside ==
    ASSUME LaunchInv, NEW h \in Handler,
           \/ RunLaunch(h) \/ LockTaken(h) \/ QueryReadyJobs(h) \/ LaunchThrows(h)
           \/ TasksThrow(h) \/ ReleaseFails(h)
           \/ BeginTasks(h) \/ TasksPublished(h) \/ NothingPublished(h) \/ LaunchAfterNothing(h)
    PROVE  Outside(h)
<1>. USE DEF LaunchInv, TypeInv
<1>. DEFINE f == frame[h]
<1>0. /\ f \in Frame /\ pc[h] \in Steps
      /\ pc[h] \in SubjectSteps => Subject(f) \in Job
      /\ Carries(h, f)
      /\ \A s \in JobStatus \cup {NULL} : Carries(h, [f EXCEPT !.status = s])
  BY StatusCarries DEF FramesOK, Fits
<1>1. CASE RunLaunch(h)
  <2>1. FrameKept(h)
    BY <1>1, EmptyCarries, GoKeeps DEF RunLaunch
  <2>. QED BY <1>1, <2>1 DEF RunLaunch, Outside, defVars, histVars
<1>2. CASE LockTaken(h) \/ ReleaseFails(h)
  <2>1. FrameKept(h)
    BY <1>2, AfterLaunchKeeps DEF LockTaken, ReleaseFails
  <2>. QED BY <1>2, <2>1 DEF LockTaken, ReleaseFails, Outside, defVars, histVars
<1>3. CASE QueryReadyJobs(h)
  <2>1. PICK todo \in SUBSET Job, next \in {"release", "count"} : Go(h, next, [f EXCEPT !.todo = todo])
    <3>1. WithStatus({NOT_STARTED}) \ (WithStatus({NOT_STARTED}) \cap f.seenLate) \in SUBSET Job
      BY DEF WithStatus
    <3>. QED BY <1>3, <3>1 DEF QueryReadyJobs
  <2>. DEFINE g == [f EXCEPT !.todo = todo]
  <2>2. g \in Frame /\ g.quota = f.quota /\ g.limit = f.limit
    BY <1>0 DEF Frame
  <2>3. g.launching = f.launching
    BY <1>0 DEF Frame
  <2>. HIDE DEF g
  <2>4. FrameKept(h)
    BY <2>1, <2>2, <2>3, GoKeeps DEF Carries, g
  <2>. QED BY <1>3, <2>4 DEF QueryReadyJobs, Outside, defVars, histVars
<1>4. CASE LaunchThrows(h)
  <2>. DEFINE g == [f EXCEPT !.then = "idle", !.again = FALSE]
  <2>1. g \in Frame /\ g.quota = f.quota /\ g.limit = f.limit
    BY <1>0 DEF Frame
  <2>2. g.launching = f.launching
    BY <1>0 DEF Frame
  <2>3. Go(h, "release", g)
    BY <1>4 DEF LaunchThrows
  <2>. HIDE DEF g
  <2>4. FrameKept(h)
    BY <2>1, <2>2, <2>3, GoKeeps DEF Carries
  <2>. QED BY <1>4, <2>4 DEF LaunchThrows, Outside, defVars, histVars
<1>5. CASE BeginTasks(h)
  <2>1. jobStatus[Subject(f)] \in JobStatus \cup {NULL}
    BY <1>0, <1>5 DEF BeginTasks, SubjectSteps, Steps, DocumentsOK
  <2>2. FrameKept(h)
    BY <1>0, <1>5, <2>1, GoKeeps DEF BeginTasks
  <2>. QED BY <1>5, <2>2 DEF BeginTasks, Outside, defVars, histVars
<1>6. CASE NothingPublished(h) \/ TasksThrow(h)
  <2>1. FrameKept(h)
    BY <1>0, <1>6, GoKeeps DEF NothingPublished, TasksThrow
  <2>. QED BY <1>6, <2>1 DEF NothingPublished, TasksThrow, Outside, defVars, histVars
<1>7. CASE TasksPublished(h) \/ LaunchAfterNothing(h)
  <2>. DEFINE g == [f EXCEPT !.status = RUNNING, !.then = IF f.launching THEN @ ELSE "idle"]
  <2>1. g \in Frame /\ g.quota = f.quota /\ g.limit = f.limit
    BY <1>0 DEF Frame, JobStatus
  <2>2. g.launching = f.launching
    BY <1>0 DEF Frame
  <2>3. Go(h, AfterTasks(f), g)
    BY <1>7 DEF TasksPublished, LaunchAfterNothing
  <2>. HIDE DEF g
  <2>4. FrameKept(h)
    BY <2>1, <2>2, <2>3, GoKeeps DEF Carries
  <2>. QED BY <1>7, <2>4 DEF TasksPublished, LaunchAfterNothing, Outside, defVars, histVars
<1>. QED BY <1>1, <1>2, <1>3, <1>4, <1>5, <1>6, <1>7

\* The environment and the SKIPPED updates keep the lock; a crash may lose its holder.
LEMMA OtherOutside ==
    ASSUME LaunchInv, NEW h \in Handler, WriteSkipped(h) \/ Crash(h)
    PROVE  Outside(h)
<1>. USE DEF LaunchInv, TypeInv
<1>1. CASE WriteSkipped(h)
  <2>1. PICK j \in skipping :
            LET f == [EmptyFrame EXCEPT !.target = j, !.status = SKIPPED]
            IN  /\ SetStatus(j, SKIPPED)
                /\ Go(h, "check", f) \/ AfterUpdate(h, f)
    BY <1>1 DEF WriteSkipped
  <2>. DEFINE f == [EmptyFrame EXCEPT !.target = j, !.status = SKIPPED]
  <2>2. j \in Job
    BY DEF DocumentsOK
  <2>3. Carries(h, f)
    BY <2>2, TargetCarries DEF JobStatus
  <2>4. Go(h, "check", f) \/ AfterUpdate(h, f)
    BY <2>1
  <2>. HIDE DEF f
  <2>5. FrameKept(h)
    BY <2>3, <2>4, GoKeeps, AfterUpdateKeeps
  <2>6. SetStatus(j, SKIPPED)
    BY <2>1
  <2>. QED BY <1>1, <2>2, <2>5, <2>6, SetStatusOutside DEF WriteSkipped, Outside, defVars
<1>2. CASE Crash(h)
  <2>1. FrameKept(h)
    BY <1>2, EmptyCarries, GoKeeps DEF Crash
  <2>. QED BY <1>2, <2>1 DEF Crash, Outside, defVars, histVars
<1>. QED BY <1>1, <1>2

\* Steps outside the launcher's own keep the lock exclusive and its quota in order.
LEMMA OutsideKeeps ==
    ASSUME LaunchInv, TypeInv', NEW h \in Handler, Outside(h)
    PROVE  LaunchExclusion' /\ QuotaKept'
<1>. USE DEF LaunchInv, Outside
<1>1. \A i \in Handler : frame'[i].launching => frame[i].launching
  BY DEF FrameKept
<1>2. LaunchExclusion'
  BY <1>1 DEF LaunchExclusion
<1>3. \A j \in inst' : jobStatus'[j] = RUNNING
  BY DEF QuotaKept
<1>4. Cardinality(inst') <= Cardinality(inst) /\ Cardinality(inst') \in Nat
                                              /\ Cardinality(inst) \in Nat
  <2>1. IsFiniteSet(inst)
    BY ConstantsAssumption, FS_Subset DEF TypeInv, DocumentsOK
  <2>. QED BY <2>1, FS_Subset, FS_CardinalityType
<1>5. ASSUME NEW i \in Handler, frame'[i].quota > 0, frame'[i].limit # 0
      PROVE  Cardinality(inst') + frame'[i].quota <= frame'[i].limit
  <2>1. frame'[i].quota = frame[i].quota /\ frame'[i].limit = frame[i].limit
    BY <1>5 DEF FrameKept
  <2>2. frame[i].quota \in Nat /\ frame[i].limit \in Nat
    <3>1. frame[i] \in Frame
      BY DEF TypeInv, FramesOK
    <3>2. frame[i].quota \in Nat /\ (frame[i].limit \in Limits \/ frame[i].limit = 0)
      BY <3>1 DEF Frame
    <3>3. \A m \in Limits : m \in Nat
      BY ConstantsAssumption
    <3>. QED BY <3>2, <3>3
  <2>3. Cardinality(inst) + frame[i].quota <= frame[i].limit
    BY <1>5, <2>1 DEF QuotaKept
  <2>. QED BY <1>4, <2>1, <2>2, <2>3
<1>. QED BY <1>2, <1>3, <1>5 DEF QuotaKept

\* The launcher's own steps: take the lock, count, start a job or fail to, release.
LEMMA LauncherKeeps ==
    ASSUME LaunchInv, TypeInv', NEW h \in Handler,
           TakeLock(h) \/ CountRunningJobs(h) \/ StartJob(h) \/ StartThrows(h) \/ Release(h)
    PROVE  LaunchExclusion' /\ QuotaKept'
<1>. USE DEF LaunchInv
<1>. DEFINE f == frame[h]
<1>0. /\ f \in Frame /\ f.quota \in Nat
      /\ pc[h] \in LauncherSteps => f.launching
      /\ pc[h] = "lock" => ~f.launching
      /\ f.quota > 0 => f.launching
  BY DEF TypeInv, FramesOK, Fits, Frame
<1>1. CASE TakeLock(h)
  <2>. DEFINE g == [f EXCEPT !.launching = TRUE, !.limit = maxInstances]
  <2>1. ~launchingJobs /\ launchingJobs' /\ inst' = inst /\ jobStatus' = jobStatus
    BY <1>1 DEF TakeLock, LockFilter, histVars
  <2>2. \A i \in Handler : ~frame[i].launching
    BY <2>1 DEF LaunchExclusion
  <2>3. f.quota = 0
    BY <1>0, <2>2
  <2>4. g \in Frame /\ g.quota = 0
    BY <1>0, <2>3 DEF Frame, TypeInv, DocumentsOK
  <2>5. PICK next : frame'[h] = Live(next, g)
    BY <1>1 DEF TakeLock, Go, TypeInv, FramesOK
  <2>6. \A i \in Handler \ {h} : frame'[i] = frame[i]
    BY <1>1 DEF TakeLock, Go, TypeInv, FramesOK
  <2>. HIDE DEF g
  <2>7. ~(frame'[h].quota > 0)
    BY <2>4, <2>5, LiveKeeps
  <2>8. LaunchExclusion'
    BY <2>1, <2>2, <2>6 DEF LaunchExclusion
  <2>9. QuotaKept'
    BY <2>1, <2>6, <2>7 DEF QuotaKept
  <2>. QED BY <2>8, <2>9
<1>2. CASE Release(h)
  <2>1. f.launching
    BY <1>0, <1>2 DEF Release, Releasing, LauncherSteps
  <2>2. inst' = inst /\ jobStatus' = jobStatus
    BY <1>2 DEF Release, histVars
  <2>3. FrameKept(h) /\ ~frame'[h].launching
    BY <1>2, AfterLaunchKeeps DEF Release
  <2>4. \A i \in Handler : ~frame'[i].launching
    BY <2>1, <2>3 DEF LaunchExclusion, FrameKept
  <2>5. LaunchExclusion'
    BY <2>4 DEF LaunchExclusion
  <2>6. \A i \in Handler : frame'[i].quota > 0 =>
            frame'[i].quota = frame[i].quota /\ frame'[i].limit = frame[i].limit
    BY <2>3 DEF FrameKept
  <2>7. QuotaKept'
    BY <2>2, <2>6 DEF QuotaKept
  <2>. QED BY <2>5, <2>7
<1>3. ASSUME CountRunningJobs(h) \/ StartJob(h) \/ StartThrows(h)
      PROVE  /\ f.launching
             /\ launchingJobs' = launchingJobs
             /\ \A i \in Handler \ {h} : frame'[i] = frame[i] /\ ~frame[i].launching
             /\ \A i \in Handler \ {h} : ~(frame'[i].quota > 0)
             /\ LaunchExclusion'
  <2>1. f.launching
    BY <1>0, <1>3 DEF CountRunningJobs, StartJob, StartThrows, LauncherSteps
  <2>2. launchingJobs' = launchingJobs
    BY <1>3 DEF CountRunningJobs, StartJob, StartThrows, defVars
  <2>3. \A i \in Handler \ {h} : frame'[i] = frame[i]
    BY <1>3 DEF CountRunningJobs, StartJob, StartThrows, Go, TypeInv, FramesOK
  <2>4. \A i \in Handler \ {h} : ~frame[i].launching
    BY <2>1 DEF LaunchExclusion
  <2>5. \A i \in Handler \ {h} : ~(frame'[i].quota > 0)
    BY <2>3, <2>4 DEF TypeInv, FramesOK, Fits
  <2>6. LaunchExclusion'
    BY <2>1, <2>2, <2>3, <2>4 DEF LaunchExclusion
  <2>. QED BY <2>1, <2>2, <2>3, <2>4, <2>5, <2>6
<1>4. IsFiniteSet(inst) /\ Cardinality(inst) \in Nat
  BY ConstantsAssumption, FS_Subset, FS_CardinalityType DEF TypeInv, DocumentsOK
<1>5. f.limit \in Nat
  <2>1. f.limit \in Limits \/ f.limit = 0
    BY <1>0 DEF Frame
  <2>2. \A m \in Limits : m \in Nat
    BY ConstantsAssumption
  <2>. QED BY <2>1, <2>2
<1>6. CASE CountRunningJobs(h)
  <2>. DEFINE running == WithStatus({RUNNING})
              q == NumJobsToStart(f.limit, Cardinality(running), Cardinality(f.todo))
  <2>1. running \subseteq Job /\ inst \subseteq running
    BY DEF WithStatus, QuotaKept, TypeInv, DocumentsOK
  <2>2. /\ Cardinality(running) \in Nat
        /\ Cardinality(inst) <= Cardinality(running)
        /\ Cardinality(f.todo) \in Nat
    <3>1. IsFiniteSet(running)
      BY <2>1, ConstantsAssumption, FS_Subset
    <3>2. f.todo \subseteq Job
      BY <1>0 DEF Frame
    <3>. QED BY <2>1, <3>1, <3>2, ConstantsAssumption, FS_Subset, FS_CardinalityType
  <2>3. q \in Nat /\ (f.limit # 0 /\ q > 0 => Cardinality(running) + q <= f.limit)
    BY <1>5, <2>2, QuotaBound
  <2>4. PICK todo \in SUBSET Job, quota \in Nat :
            /\ quota <= q
            /\ frame'[h] = Live("start", [f EXCEPT !.todo = todo, !.quota = quota])
    <3>. HIDE DEF q
    <3>1. CASE q > 0 /\ Coalesce
      <4>1. Newest(f.todo) \in SUBSET Job
        BY <1>0 DEF Newest, Frame
      <4>2. 1 <= q /\ 1 \in Nat
        BY <2>3, <3>1
      <4>3. frame'[h] = Live("start", [f EXCEPT !.todo = Newest(f.todo), !.quota = 1])
        BY <1>6, <3>1 DEF CountRunningJobs, Go, TypeInv, FramesOK, q
      <4>. QED BY <4>1, <4>2, <4>3
    <3>2. CASE ~(q > 0 /\ Coalesce)
      <4>1. frame'[h] = Live("start", [f EXCEPT !.quota = q])
        BY <1>6, <3>2 DEF CountRunningJobs, Go, TypeInv, FramesOK, q
      <4>2. f.todo \in SUBSET Job /\ [f EXCEPT !.quota = q] = [f EXCEPT !.todo = f.todo, !.quota = q]
        BY <1>0 DEF Frame
      <4>3. q \in Nat /\ q <= q
        BY <2>3
      <4>. QED BY <4>1, <4>2, <4>3
    <3>. QED BY <3>1, <3>2
  <2>. DEFINE g == [f EXCEPT !.todo = todo, !.quota = quota]
  <2>5. g \in Frame /\ g.quota = quota /\ g.limit = f.limit
    BY <1>0 DEF Frame
  <2>6. /\ inst' = inst /\ jobStatus' = jobStatus
        /\ frame'[h] = Live("start", g)
    BY <1>6, <2>4 DEF CountRunningJobs, histVars
  <2>. HIDE DEF g, q, running
  <2>7. frame'[h].quota > 0 => frame'[h].quota = quota /\ frame'[h].limit = f.limit
    BY <2>5, <2>6, LiveKeeps
  <2>8. frame'[h].quota > 0 /\ frame'[h].limit # 0
          => Cardinality(inst) + frame'[h].quota <= frame'[h].limit
    BY <1>4, <1>5, <2>2, <2>3, <2>4, <2>7
  <2>9. QuotaKept'
    BY <1>3, <1>6, <2>6, <2>8 DEF QuotaKept
  <2>. QED BY <1>3, <1>6, <2>9
<1>7. CASE StartJob(h) \/ StartThrows(h)
  <2>1. f.quota > 0
    BY <1>7 DEF StartJob, StartThrows
  <2>2. PICK j \in f.todo :
            /\ \/ /\ jobStatus' = [jobStatus EXCEPT ![j] = RUNNING]
                  /\ inst' = inst \cup {j}
               \/ jobStatus' = jobStatus /\ inst' = inst
            /\ \E next \in {"start", "tasks"} :
                   Go(h, next, [f EXCEPT !.starting = j, !.todo = f.todo \ {j},
                                         !.quota = f.quota - 1])
    BY <1>7 DEF StartJob, StartThrows, histVars
  <2>. DEFINE g == [f EXCEPT !.starting = j, !.todo = f.todo \ {j}, !.quota = f.quota - 1]
  <2>3. j \in Job /\ f.quota - 1 \in Nat
    BY <1>0, <2>1 DEF Frame
  <2>4. g \in Frame /\ g.quota = f.quota - 1 /\ g.limit = f.limit
    BY <1>0, <2>3 DEF Frame
  <2>5. PICK next : frame'[h] = Live(next, g)
    BY <2>2 DEF Go, TypeInv, FramesOK
  <2>. HIDE DEF g
  <2>6. frame'[h].quota > 0 => frame'[h].quota = f.quota - 1 /\ frame'[h].limit = f.limit
    BY <2>4, <2>5, LiveKeeps
  <2>7. \A k \in inst' : jobStatus'[k] = RUNNING
    BY <2>2, <2>3 DEF QuotaKept, TypeInv, DocumentsOK
  <2>8. Cardinality(inst') \in Nat /\ Cardinality(inst') <= Cardinality(inst) + 1
    <3>1. inst' = inst \/ inst' = inst \cup {j}
      BY <2>2
    <3>2. Cardinality(inst) <= Cardinality(inst) + 1
      BY <1>4
    <3>. QED BY <1>4, <3>1, <3>2, OneMore
  <2>9. f.limit # 0 => Cardinality(inst) + f.quota <= f.limit
    BY <2>1 DEF QuotaKept
  <2>10. frame'[h].quota > 0 /\ frame'[h].limit # 0
           => Cardinality(inst') + frame'[h].quota <= frame'[h].limit
    BY <1>0, <1>4, <1>5, <2>6, <2>8, <2>9
  <2>11. QuotaKept'
    BY <1>3, <1>7, <2>7, <2>10 DEF QuotaKept
  <2>. QED BY <1>3, <1>7, <2>11
<1>. QED BY <1>1, <1>2, <1>6, <1>7

\* LaunchInv is inductive: both kinds of step together.
LEMMA LaunchInvInductive ==
    /\ Init => LaunchInv
    /\ LaunchInv /\ [Next]_vars => LaunchInv'
<1>1. ASSUME Init PROVE LaunchInv
  <2>1. LaunchExclusion /\ QuotaKept
    BY <1>1 DEF Init, LaunchExclusion, QuotaKept, EmptyFrame
  <2>. QED BY <1>1, <2>1, TypeInvInductive DEF LaunchInv
<1>2. ASSUME LaunchInv, [Next]_vars PROVE LaunchInv'
  <2>1. TypeInv'
    BY <1>2, TypeInvInductive DEF LaunchInv
  <2>2. CASE UNCHANGED vars
    BY <1>2, <2>1, <2>2 DEF LaunchInv, LaunchExclusion, QuotaKept, vars
  <2>3. CASE PauseJobDef \/ BecomeLate
    BY <1>2, <2>1, <2>3
       DEF PauseJobDef, BecomeLate, LaunchInv, LaunchExclusion, QuotaKept, defVars, histVars
  <2>4. ASSUME NEW h \in Handler,
               Request(h) \/ Step(h) \/ RunLaunch(h) \/ WriteSkipped(h) \/ Crash(h)
        PROVE  LaunchInv'
    <3>1. \/ Outside(h)
          \/ TakeLock(h) \/ CountRunningJobs(h) \/ StartJob(h) \/ StartThrows(h) \/ Release(h)
      BY <1>2, <2>4, RequestOutside, UpdateOutside, LaunchOutside, OtherOutside DEF Step
    <3>. QED BY <1>2, <2>1, <3>1, OutsideKeeps, LauncherKeeps DEF LaunchInv
  <2>. QED BY <1>2, <2>2, <2>3, <2>4 DEF Next
<1>. QED BY <1>1, <1>2

\* Two launchers of one definition are never both between taking and releasing the lock,
\* however many servers and requests there are and even if some die there.
THEOREM LauncherExclusion == Spec => []LaunchExclusion
<1>1. LaunchInv => LaunchExclusion
  BY DEF LaunchInv
<1>. QED BY <1>1, LaunchInvInductive, PTL DEF Spec

\* A launcher that starts several jobs one after the other, from one count of the running
\* jobs, never exceeds the limit it read with the jobs that launchers have put in RUNNING.
THEOREM LimitKept == Spec => InstancesWithinLimit
<1>1. ASSUME LaunchInv, LaunchInv', NEW h \in Handler, StartJob(h), inst' # inst,
             frame[h].limit # 0
      PROVE  Cardinality(inst') <= frame[h].limit
  <2>1. PICK j : inst' = inst \cup {j}
    BY <1>1 DEF StartJob, histVars
  <2>2. IsFiniteSet(inst) /\ Cardinality(inst) \in Nat
    BY <1>1, ConstantsAssumption, FS_Subset, FS_CardinalityType
       DEF LaunchInv, TypeInv, DocumentsOK
  <2>3. Cardinality(inst') \in Nat /\ Cardinality(inst') <= Cardinality(inst) + 1
    BY <2>1, <2>2, OneMore
  <2>4. frame[h].quota > 0
    BY <1>1 DEF StartJob
  <2>5. frame[h].quota \in Nat /\ frame[h].limit \in Nat
    <3>1. frame[h] \in Frame
      BY <1>1 DEF LaunchInv, TypeInv, FramesOK
    <3>2. frame[h].quota \in Nat /\ (frame[h].limit \in Limits \/ frame[h].limit = 0)
      BY <3>1 DEF Frame
    <3>3. \A m \in Limits : m \in Nat
      BY ConstantsAssumption
    <3>. QED BY <3>2, <3>3
  <2>6. Cardinality(inst) + frame[h].quota <= frame[h].limit
    BY <1>1, <2>4 DEF LaunchInv, QuotaKept
  <2>. QED BY <2>2, <2>3, <2>4, <2>5, <2>6
<1>2. LaunchInv /\ LaunchInv' =>
          \A h \in Handler :
              StartJob(h) /\ inst' # inst /\ frame[h].limit # 0
                 => Cardinality(inst') <= frame[h].limit
  BY <1>1
<1>. QED BY <1>2, LaunchInvInductive, PTL DEF Spec, InstancesWithinLimit
=============================================================================
