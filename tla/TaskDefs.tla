------------------------------ MODULE TaskDefs ------------------------------
(***************************************************************************)
(* The task graph of ONE job definition while it is edited: the designer   *)
(* in the browser decides which routes it offers, the server's task        *)
(* definition service checks each request for cycles, rewrites routes when *)
(* a task is renamed or deleted, and a job is built from what it finds.    *)
(*                                                                         *)
(* Tasks are joined by name, through both fromRoutes and toRoutes.  A      *)
(* route's pattern plays no part in any of this and is left out, and so is *)
(* everything else in a task definition.  A step is one database call.     *)
(***************************************************************************)
EXTENDS FiniteSetsExt, Naturals

CONSTANTS
    Def,         \* bound: the task definition documents, positive numbers
    Name,        \* names of tasks, positive numbers
    Handler,     \* bound: requests the server works on at the same time
    Requests,    \* the kinds of request of this instance
    MaxRequests  \* bound: requests made by users

NoName == 0
Key == {"name", "from", "to"}

ASSUME ConstantsAssumption ==
    /\ Def \subseteq Nat \ {0} /\ IsFiniteSet(Def)
    /\ Name \subseteq Nat \ {0} /\ IsFiniteSet(Name)
    /\ MaxRequests \in Nat

VARIABLES
    def,         \* the TaskDef documents
    sent,        \* requests on their way to the server
    pc, frame,   \* per handler
    job,         \* the tasks of the job created last
    requests,    \* how many requests users have made
    history      \* "overlap": a request was made while another was unanswered;
                 \* "unchecked": one that the designer does not check beforehand

vars == <<def, sent, pc, frame, job, requests, history>>

NoDef == [name |-> NoName, from |-> {}, to |-> {}]
TaskDef == [name : Name \cup {NoName}, from : SUBSET Name, to : SUBSET Name]

\* A request: `keys' are the fields its body has.
Request == [op : {"create", "update", "delete", "job"}, id : Def \cup {0}, keys : SUBSET Key, data : TaskDef]

Steps == {"idle", "create", "insert", "find", "check", "rewrite", "write",
          "delete", "references", "unlink", "remove", "createjob"}

\* The locals of a handler.
\*   id, keys, data   the update under way (taskDef id and data)
\*   old              the name the task had (taskName_original)
\*   rewrites         renaming: the other definitions still to be written
\*   accepted         the verdict of the check, given after the rewrites
\*   victim, unlinks  deleting: the task, and the updates the loop has left
EmptyFrame == [id |-> 0, keys |-> {}, data |-> NoDef, old |-> NoName, rewrites |-> {},
               accepted |-> FALSE, victim |-> 0, unlinks |-> {}]

Existing == {d \in Def : def[d].name # NoName}

\* Task definitions as a query returns them.
Read(S) == {[id |-> d, name |-> def[d].name, from |-> def[d].from, to |-> def[d].to] : d \in S}

Go(h, next, f) ==
    /\ pc' = [pc EXCEPT ![h] = next]
    /\ frame' = [frame EXCEPT ![h] = IF next = "idle" THEN EmptyFrame ELSE f]

-----------------------------------------------------------------------------
(***************************************************************************)
(* The check for cycles                                                    *)
(***************************************************************************)
Nodes(taskDefs) == {t.name : t \in taskDefs}

\* Mutant: only toRoutes make edges.
ToRoutesOnly(taskDefs, n) == UNION {t.to : t \in {t \in taskDefs : t.name = n}}

\* graph[n]: a fromRoute of an unknown task is skipped, a toRoute is not.
Edges(taskDefs, n) ==
    {t.name : t \in {t \in taskDefs : n \in t.from}}
    \cup UNION {t.to : t \in {t \in taskDefs : t.name = n}}

\* F over the elements of S, from b.
Loop(F, b, S) == FoldSet(LAMBDA x, r : F[<<x, r>>], b, S)

\* What a search knows: whether it has found a cycle, and the nodes it has visited.
Search == [cyclic : BOOLEAN, visited : SUBSET Name]
Calls == Name \X (SUBSET Name) \X (SUBSET Name)

\* The loop over the neighbours of n; `path' is what recStack holds, `util' are the calls
\* of isCyclicUtil for them.
Neighbor(util, path) ==
    [c \in Name \X Search |->
        LET m == c[1]
            r == c[2]
        IN  CASE r.cyclic -> r
              [] ~r.cyclic /\ m \notin r.visited -> util[<<m, r.visited, path>>]
              [] OTHER -> [r EXCEPT !.cyclic = m \in path]]

\* isCyclicUtil: a call <<n, visited, path>>.  A call visits a node, so calls are nested no
\* deeper than there are names.
CyclicUtil(taskDefs) ==
    LET Util[depth \in 0..Cardinality(Name)] ==
            IF depth = 0 THEN [c \in Calls |-> [cyclic |-> TRUE, visited |-> Name]]
            ELSE LET util == Util[depth - 1]
                 IN  [c \in Calls |-> Loop(Neighbor(util, c[3] \cup {c[1]}),
                                           [cyclic |-> FALSE, visited |-> c[2] \cup {c[1]}],
                                           Edges(taskDefs, c[1]))]
    IN  Util[Cardinality(Name)]

\* ... from every node not visited yet.
IsCyclic(taskDefs) ==
    LET util == CyclicUtil(taskDefs)
        Root == [c \in Name \X Search |->
                    IF c[2].cyclic \/ c[1] \in c[2].visited THEN c[2] ELSE util[<<c[1], c[2].visited, {}>>]]
    IN  Loop(Root, [cyclic |-> FALSE, visited |-> {}], Nodes(taskDefs)).cyclic

\* A toRoute to a task that is not there has no entry in the graph: the search
\* fails on it, if it does not stop at a cycle before, and the request with it.
Dangling(taskDefs) == \E t \in taskDefs : ~ (t.to \subseteq Nodes(taskDefs))

\* isJobDefCyclical returns {}: no exception and no cycle.  One task is not checked.
Accepted(taskDefs) == Cardinality(taskDefs) < 2 \/ (~Dangling(taskDefs) /\ ~IsCyclic(taskDefs))

\* The least set that contains `start' and, with a name, those its arcs lead to.
Reach(arcs, start) ==
    LET Level[k \in 0..Cardinality(Name)] ==
            IF k = 0 THEN start
            ELSE LET S == Level[k - 1] IN S \cup {m \in Name : \E n \in S : <<n, m>> \in arcs}
    IN  Level[Cardinality(Name)]

\* The reference for "cyclic": some task reaches itself over routes of either kind.
Arcs(taskDefs) ==
    {a \in Name \X Name : \E t \in taskDefs : \/ t.name = a[2] /\ a[1] \in t.from
                                              \/ t.name = a[1] /\ a[2] \in t.to}
After(arcs, n) == {m \in Name : <<n, m>> \in arcs}
NoCycle(arcs) == \A n \in Name : n \notin Reach(arcs, After(arcs, n))
Acyclic(taskDefs) == NoCycle(Arcs(taskDefs))

-----------------------------------------------------------------------------
(***************************************************************************)
(* The designer in the browser, on its copy of the documents               *)
(***************************************************************************)
\* Mutant: only one kind of route is followed.
DownstreamByToRoutes(taskDefs, target) ==
    Reach({a \in Name \X Name : \E u \in taskDefs : u.name = a[1] /\ a[2] \in u.to}, {target})

\* The tasks downstream (upstream) of a task, level by level, with the task itself.
Downstream(taskDefs, target) ==
    Reach({a \in Name \X Name : \E t \in taskDefs :
              t.name = a[2] /\ (a[1] \in t.from \/ \E u \in taskDefs : u.name = a[1] /\ a[2] \in u.to)},
          {target})
Upstream(taskDefs, target) ==
    Reach({a \in Name \X Name : \E t \in taskDefs :
              t.name = a[2] /\ (a[1] \in t.to \/ \E u \in taskDefs : u.name = a[1] /\ a[2] \in u.from)},
          {target})

Idle == sent = {} /\ \A h \in Handler : pc[h] = "idle"

\* `how' is {} for what the designer has checked, {"unchecked"} for the rest.
Send(R, how) ==
    /\ requests + Cardinality(R) <= MaxRequests
    /\ requests' = requests + Cardinality(R)
    /\ sent' = sent \cup R
    /\ history' = history \cup how \cup IF Idle /\ Cardinality(R) < 2 THEN {} ELSE {"overlap"}
    /\ UNCHANGED <<def, pc, frame, job>>

Update(d, keys, data) == [op |-> "update", id |-> d, keys |-> keys, data |-> data]

SaveNewTaskDef ==
    /\ "create" \in Requests
    /\ \E n \in Name :
         Send({[op |-> "create", id |-> 0, keys |-> Key, data |-> [NoDef EXCEPT !.name = n]]}, {})

\* A box ticked or cleared beside a task that the designer offers.
EditInbound ==
    /\ "inbound" \in Requests
    /\ \E d, e \in Existing :
         \/ /\ def[e].name \notin def[d].from \cup Downstream(Read(Existing), def[d].name)
            /\ Send({Update(d, {"from"}, [NoDef EXCEPT !.from = def[d].from \cup {def[e].name}])}, {})
         \/ /\ def[e].name \in def[d].from
            /\ Send({Update(d, {"from"}, [NoDef EXCEPT !.from = def[d].from \ {def[e].name}])}, {})

EditOutbound ==
    /\ "outbound" \in Requests
    /\ \E d, e \in Existing :
         \/ /\ def[e].name \notin def[d].to \cup Upstream(Read(Existing), def[d].name)
            /\ Send({Update(d, {"to"}, [NoDef EXCEPT !.to = def[d].to \cup {def[e].name}])}, {})
         \/ /\ def[e].name \in def[d].to
            /\ Send({Update(d, {"to"}, [NoDef EXCEPT !.to = def[d].to \ {def[e].name}])}, {})

\* createOutboundRoutes: a route to one task is added to all others, at once.
RouteAllTo ==
    /\ "routeall" \in Requests
    /\ \E d \in Existing :
         Send({Update(e, {"to"}, [NoDef EXCEPT !.to = def[e].to \cup {def[d].name}]) : e \in Existing \ {d}},
              {"unchecked"})

\* The editor saves its whole copy of the task, here with another name; "reuse":
\* nothing keeps the user from choosing the name of another task.
Rename ==
    \E d \in Existing, n \in Name :
        /\ n # def[d].name
        /\ LET request == {Update(d, Key, [def[d] EXCEPT !.name = n])}
           IN
           \/ "rename" \in Requests /\ n \notin Nodes(Read(Existing)) /\ Send(request, {})
           \/ "reuse" \in Requests /\ n \in Nodes(Read(Existing)) /\ Send(request, {"unchecked"})

DeleteTask ==
    /\ "delete" \in Requests
    /\ \E d \in Existing : Send({[op |-> "delete", id |-> d, keys |-> {}, data |-> NoDef]}, {})

RunJob ==
    /\ "job" \in Requests
    /\ Send({[op |-> "job", id |-> 0, keys |-> {}, data |-> NoDef]}, {})

-----------------------------------------------------------------------------
(***************************************************************************)
(* createTaskDef                                                           *)
(***************************************************************************)
\* The HTTP layer hands a request to its handler, in any order.
Receive(h) ==
    /\ pc[h] = "idle"
    /\ \E r \in sent :
         /\ sent' = sent \ {r}
         /\ Go(h, CASE r.op = "create" -> "create" [] r.op = "update" -> "find"
                    [] r.op = "delete" -> "delete" [] r.op = "job" -> "createjob",
               [EmptyFrame EXCEPT !.id = r.id, !.keys = r.keys, !.data = r.data,
                                  !.victim = IF r.op = "delete" THEN r.id ELSE 0])
    /\ UNCHANGED <<def, job, requests, history>>

\* The query selects names and fromRoutes only: the toRoutes of others are not seen.
CheckCreate(h) ==
    LET f == frame[h]
        others == {[t EXCEPT !.to = {}] : t \in Read(Existing)}
        new == [id |-> 0, name |-> f.data.name, from |-> f.data.from, to |-> f.data.to]
    IN  /\ pc[h] = "create"
        /\ Go(h, IF f.data.name \notin Nodes(others) /\ Accepted(others \cup {new}) THEN "insert" ELSE "idle", f)
        /\ UNCHANGED <<def, sent, job, requests, history>>

Insert(h) ==
    /\ pc[h] = "insert"
    /\ \E d \in Def \ Existing :
         /\ \A e \in Def \ Existing : d <= e
         /\ def' = [def EXCEPT ![d] = frame[h].data]
    /\ Go(h, "idle", frame[h])
    /\ UNCHANGED <<sent, job, requests, history>>

-----------------------------------------------------------------------------
(***************************************************************************)
(* updateTaskDef, also as called by deleteTaskDef                          *)
(***************************************************************************)
\* An exception leaves the update and, where there is one, the deletion.
Throw(h) == Go(h, "idle", EmptyFrame)

\* The task's routes as the request gives them: none where it gives none.
Replaced(h, taskDefs) ==
    LET f == frame[h]
    IN  {IF t.id # f.id THEN t ELSE [t EXCEPT !.from = f.data.from, !.to = f.data.to] : t \in taskDefs}

\* Mutant: the old name's place is kept, with no name in it.
RenameToNothing(S, old, new) == IF old \in S THEN (S \ {old}) \cup {NoName} ELSE S

RenameIn(S, old, new) == IF old \in S THEN (S \ {old}) \cup {new} ELSE S

\* Mutant: outbound routes of other tasks are not renamed.
FromRoutesRewritten(taskDefs, old, new) ==
    {[t EXCEPT !.from = RenameIn(t.from, old, new)] : t \in {t \in taskDefs : old \in t.from}}

Rewritten(taskDefs, old, new) ==
    {[t EXCEPT !.from = RenameIn(t.from, old, new), !.to = RenameIn(t.to, old, new)] :
        t \in {t \in taskDefs : old \in t.from \cup t.to}}

FindTaskDef(h) ==
    LET f == frame[h]
    IN  /\ pc[h] = "find"
        /\ IF f.id \in Existing THEN Go(h, "check", [f EXCEPT !.old = def[f.id].name]) ELSE Throw(h)
        /\ UNCHANGED <<def, sent, job, requests, history>>

\* The other definitions are rewritten BEFORE the verdict on the cycle is given.
CheckUpdate(h) ==
    LET f == frame[h]
        taskDefs == Replaced(h, Read(Existing))
        renames == "name" \in f.keys /\ f.data.name # f.old
        rewrites == IF renames THEN Rewritten(taskDefs, f.old, f.data.name) ELSE {}
        g == [f EXCEPT !.rewrites = rewrites, !.accepted = Accepted(taskDefs)]
    IN  /\ pc[h] = "check"
        /\ CASE rewrites # {} -> Go(h, "rewrite", g)
             [] rewrites = {} /\ g.accepted -> Go(h, "write", g)
             [] OTHER -> Throw(h)
        /\ UNCHANGED <<def, sent, job, requests, history>>

\* By id and without a condition, with the routes read before.
Rewrite(h) ==
    LET f == frame[h]
    IN  /\ pc[h] = "rewrite"
        /\ \E t \in f.rewrites :
             /\ \A u \in f.rewrites : t.id <= u.id
             /\ def' = IF t.id \in Existing THEN [def EXCEPT ![t.id].from = t.from, ![t.id].to = t.to] ELSE def
             /\ LET left == f.rewrites \ {t}
                IN  CASE left # {} -> Go(h, "rewrite", [f EXCEPT !.rewrites = left])
                      [] left = {} /\ f.accepted -> Go(h, "write", [f EXCEPT !.rewrites = {}])
                      [] OTHER -> Throw(h)
        /\ UNCHANGED <<sent, job, requests, history>>

Write(h) ==
    LET f == frame[h]
        back == IF f.victim # 0 THEN "unlink" ELSE "idle"
    IN  /\ pc[h] = "write"
        /\ IF f.id \in Existing
           THEN /\ def' = [def EXCEPT ![f.id] =
                              [name |-> IF "name" \in f.keys THEN f.data.name ELSE @.name,
                               from |-> IF "from" \in f.keys THEN f.data.from ELSE @.from,
                               to   |-> IF "to"   \in f.keys THEN f.data.to   ELSE @.to]]
                /\ Go(h, back, f)
           ELSE Throw(h) /\ UNCHANGED def
        /\ UNCHANGED <<sent, job, requests, history>>

-----------------------------------------------------------------------------
(***************************************************************************)
(* deleteTaskDef, createJobFromJobDef                                      *)
(***************************************************************************)
FindVictim(h) ==
    LET f == frame[h]
    IN  /\ pc[h] = "delete"
        /\ IF f.victim \in Existing THEN Go(h, "references", [f EXCEPT !.old = def[f.victim].name]) ELSE Throw(h)
        /\ UNCHANGED <<def, sent, job, requests, history>>

\* The updates that take the victim's name out of routes, from one reading of them all.
Unlinks(taskDefs, name) ==
    {Update(t.id, {"to"}, [NoDef EXCEPT !.to = t.to \ {name}]) : t \in {t \in taskDefs : name \in t.to}}
    \cup {Update(t.id, {"from"}, [NoDef EXCEPT !.from = t.from \ {name}]) : t \in {t \in taskDefs : name \in t.from}}

ListReferences(h) ==
    /\ pc[h] = "references"
    /\ Go(h, "unlink", [frame[h] EXCEPT !.unlinks = Unlinks(Read(Existing), frame[h].old)])
    /\ UNCHANGED <<def, sent, job, requests, history>>

Unlink(h) ==
    LET f == frame[h]
        Before(u, v) == u.id < v.id \/ (u.id = v.id /\ "to" \in u.keys)
    IN  /\ pc[h] = "unlink"
        /\ IF f.unlinks = {} THEN Go(h, "remove", f)
           ELSE \E u \in f.unlinks :
                    /\ \A v \in f.unlinks : Before(u, v)
                    /\ Go(h, "find", [f EXCEPT !.unlinks = f.unlinks \ {u}, !.id = u.id,
                                               !.keys = u.keys, !.data = u.data])
        /\ UNCHANGED <<def, sent, job, requests, history>>

Remove(h) ==
    /\ pc[h] = "remove"
    /\ def' = [def EXCEPT ![frame[h].victim] = NoDef]
    /\ Go(h, "idle", frame[h])
    /\ UNCHANGED <<sent, job, requests, history>>

\* The tasks of a job are copies of the definitions of one reading, if they pass.
CreateJob(h) ==
    /\ pc[h] = "createjob"
    /\ job' = IF Accepted(Read(Existing)) THEN Read(Existing) ELSE job
    /\ Go(h, "idle", frame[h])
    /\ UNCHANGED <<def, sent, requests, history>>

-----------------------------------------------------------------------------
Users == SaveNewTaskDef \/ EditInbound \/ EditOutbound \/ RouteAllTo \/ Rename \/ DeleteTask \/ RunJob

Handle(h) ==
    \/ Receive(h) \/ CheckCreate(h) \/ Insert(h)
    \/ FindTaskDef(h) \/ CheckUpdate(h) \/ Rewrite(h) \/ Write(h)
    \/ FindVictim(h) \/ ListReferences(h) \/ Unlink(h) \/ Remove(h)
    \/ CreateJob(h)

\* A definition in good order: names differ, routes lead to its tasks, no cycle.
NamesUnique(taskDefs) == \A t, u \in taskDefs : t.name = u.name => t.id = u.id
RoutesResolve(taskDefs) == \A t \in taskDefs : t.from \cup t.to \subseteq Nodes(taskDefs)
InOrder(taskDefs) == NamesUnique(taskDefs) /\ RoutesResolve(taskDefs) /\ Acyclic(taskDefs)

\* Any definition in good order whose routes are all of one kind (requests mix
\* the kinds); documents are named after their numbers.
Init ==
    /\ \E S \in SUBSET (Def \cap Name) : \E E \in SUBSET {e \in S \X S : e[1] # e[2]}, inbound \in BOOLEAN :
         /\ def = [d \in Def |->
                IF d \notin S THEN NoDef
                ELSE [name |-> d,
                      from |-> {u \in S : inbound /\ <<u, d>> \in E},
                      to   |-> {u \in S : ~inbound /\ <<d, u>> \in E}]]
         /\ InOrder(Read(Existing))
    /\ sent = {} /\ job = {} /\ requests = 0 /\ history = {}
    /\ pc = [h \in Handler |-> "idle"]
    /\ frame = [h \in Handler |-> EmptyFrame]

Next == Users \/ \E h \in Handler : Handle(h)
Spec == Init /\ [][Next]_vars

-----------------------------------------------------------------------------
(***************************************************************************)
(* Properties                                                              *)
(***************************************************************************)
\* Definitions and requests are what the code can make them: every definition has a name,
\* and routes lead to names.
TypeOK ==
    /\ def \in [Def -> TaskDef]
    /\ sent \subseteq Request
    /\ pc \in [Handler -> Steps]
    /\ \A h \in Handler : /\ frame[h].id \in Def \cup {0} /\ frame[h].keys \subseteq Key
                          /\ frame[h].data \in TaskDef /\ frame[h].unlinks \subseteq Request
    /\ requests \in 0..MaxRequests /\ history \subseteq {"overlap", "unchecked"}

\* As long as users wait for an answer before they make the next request, and make
\* those the designer checks (ticking routes, a new name, deleting), the definition is
\* in good order whenever the server is at rest: no cycle, no route to a task that is
\* gone, no two tasks of one name.  It takes the designer's rule (which looks at both
\* kinds of routes) to make up for the server's partial check.
EditsKeepOrder == Idle /\ history = {} => InOrder(Read(Existing))

\* TaskDefService.ts:236: an update that "would create a cyclic dependency" is
\* refused.  Said of a user who waits for each answer, whatever the request is.
UpdatesRefuseCycles == Idle /\ "overlap" \notin history => Acyclic(Read(Existing))

\* Whatever edits were mixed, a job of several tasks is never built from a definition with
\* a cycle.  (The one task of a job may wait for itself: isJobDefCyclical does not check
\* a definition of one task.)
JobGraphAcyclic == Cardinality(job) > 1 => Acyclic(job)

\* The search of the server and the level by level search of the designer agree
\* about every route that could be added to a definition in good order at rest.
DesignerRuleExact == Idle /\ InOrder(Read(Existing)) =>
    \A d, e \in Existing :
        LET taskDefs == Read(Existing)
            With(n) == {IF t.id = d THEN [t EXCEPT !.from = @ \cup {n}] ELSE t : t \in taskDefs}
            illegal == def[e].name \in Downstream(taskDefs, def[d].name)
        IN  d # e =>
                /\ illegal <=> ~Accepted(With(def[e].name))
                /\ illegal <=> def[d].name \in Upstream(taskDefs, def[e].name)
=============================================================================
