---------------------------- MODULE ScriptEditing ----------------------------
(***************************************************************************)
(* Editing scripts in the browser.  A user never edits a script itself but *)
(* a shadow of it, one document per user and script, which the editor      *)
(* saves every twenty seconds, when another script is picked and before a  *)
(* publish writes it to the script.                                        *)
(*                                                                         *)
(* A tab is one thread, but its requests are not: while one is under way   *)
(* the user types, picks another script or publishes.  Answers come in any *)
(* order, and besides them the server pushes every change to every tab.    *)
(*                                                                         *)
(* The store of shadows (`models') is a sequence of objects.  An object is *)
(* its position: a document may be there several times, and every search   *)
(* finds the first.  Texts are what someone typed, numbered, with the      *)
(* script it was typed for.                                                *)
(***************************************************************************)
EXTENDS Integers, Sequences, FiniteSets

CONSTANTS
    Tab, User, Script,
    UserOf,         \* [Tab -> User]: who uses the tab
    MaxActs,        \* how many times users do something
    MaxCalls,       \* how many requests of a tab are under way at a time
    Events          \* what may happen besides typing, picking and publishing

ASSUME ScriptAssumption == Script \subseteq Nat \ {0} /\ Script # {}
ASSUME UserOfAssumption == UserOf \in [Tab -> User]
ASSUME MaxAssumption == MaxActs \in Nat /\ MaxCalls \in Nat
ASSUME EventsAssumption == Events \subseteq {"revert", "type", "fail"}

VARIABLES
    script,     \* the scripts' code, in the database
    shadow,     \* the shadow documents, in the database
    acts,       \* how many times users did something; it numbers the texts
    tab,        \* what a tab holds
    calls,      \* the requests of a tab that are under way
    pushes,     \* the messages on their way to a tab
    saved       \* every text that ever was in a shadow document

vars == <<script, shadow, acts, tab, calls, pushes, saved>>

NoScript == 0
Text == [of : Script, n : 0..MaxActs]
Original(s) == [of |-> s, n |-> 0]
Blank == Original(CHOOSE s \in Script : TRUE)

\* getOrCreate's promise for a script: one of these or the object it resolved to.
Unasked == 0
Pending == -1
Rejected == -2
Resolved(p) == p > 0

Call(op, s, id, code, again, then) ==
    [op |-> op, script |-> s, id |-> id, code |-> code, again |-> again, then |-> then,
     stage |-> "sent"]

-----------------------------------------------------------------------------
(***************************************************************************)
(* The store of a tab                                                      *)
(***************************************************************************)
First(w, id) ==
    LET at == {i \in DOMAIN w.models : w.models[i].id = id}
    IN  IF at = {} THEN 0 ELSE CHOOSE i \in at : \A j \in at : i <= j

\* The mutation addModels: its filter drops nothing.
AddModel(w, id, code) ==
    IF w.broken THEN w ELSE [w EXCEPT !.models = Append(@, [id |-> id, code |-> code])]

Update(w, id, code) ==
    IF First(w, id) = 0 THEN w ELSE [w EXCEPT !.models[First(w, id)].code = code]

\* Selecting clones the object into the copy that is edited, and the editor is built
\* again unless it was told to ignore that.
SelectShadow(w, p) ==
    LET code == w.models[p].code
    IN  [w EXCEPT !.selected = p, !.copy = code, !.ignore = FALSE,
                  !.editor = IF w.ignore THEN @ ELSE code]

\* hasSelectedCopyChanged
Changed(w) == w.selected # 0 /\ w.copy # w.models[w.selected].code

\* Mutant: the shadow of any user.
ShadowOfAnyone(w, u, s) ==
    {i \in DOMAIN w.models : shadow[w.models[i].id].script = s}

Cached(w, u, s) ==
    {i \in DOMAIN w.models :
        shadow[w.models[i].id].script = s /\ shadow[w.models[i].id].user = u}

\* Mutant: the promise of an earlier call is not used while it is pending.
AskedAgain(w, s) == w.promise[s] \in {Unasked, Pending}

MustAsk(w, s) == w.promise[s] = Unasked

\* script/select: the script is selected at once, its shadow when getOrCreate has it.
\* The result is the tab and the requests this sends.
SelectScript(w, u, s) ==
    LET v == [w EXCEPT !.script = s]
        c == Cached(v, u, s)
        p == CHOOSE i \in c : \A j \in c : i <= j
    IN  IF Resolved(v.promise[s]) THEN <<SelectShadow(v, v.promise[s]), {}>>
        ELSE IF ~ MustAsk(v, s)
             THEN <<IF v.promise[s] = Pending THEN [v EXCEPT !.waiting = @ \cup {s}] ELSE v, {}>>
        ELSE IF v.broken THEN <<[v EXCEPT !.promise[s] = Pending], {}>>
        ELSE IF c # {} THEN <<SelectShadow([v EXCEPT !.promise[s] = p], p), {}>>
        ELSE <<[v EXCEPT !.promise[s] = Pending, !.waiting = @ \cup {s}],
               {Call("get", s, 0, v.known[s], FALSE, "none")}>>

\* getOrCreate has its shadow, and so have the selects that wait for it.
Resolve(w, s, p) ==
    LET v == [w EXCEPT !.promise[s] = p, !.waiting = @ \ {s}]
    IN  IF s \in w.waiting THEN SelectShadow(v, p) ELSE v

\* Mutant: a failure is logged and the promise left alone.
FailureLogged(w, s) == w

\* Mutant: the catch does not reject, so that the promise resolves to no model.
ResolvedToNothing(w, s) ==
    [w EXCEPT !.promise[s] = Len(w.models) + 1, !.waiting = @ \ {s}]

\* getOrCreate's catch: afterwards it adds an undefined model, which a store that was
\* empty keeps, and which makes every later search in it throw.
Reject(w, s) ==
    [w EXCEPT !.promise[s] = Rejected, !.waiting = @ \ {s}, !.broken = @ \/ w.models = <<>>]

-----------------------------------------------------------------------------
(***************************************************************************)
(* The user and the editor                                                 *)
(***************************************************************************)
Act == acts < MaxActs /\ acts' = acts + 1

Send(t, cs) ==
    /\ Cardinality(calls[t] \cup cs) <= MaxCalls
    /\ calls' = [calls EXCEPT ![t] = @ \cup cs]

\* shadow/save of the selected copy.
SaveCopy(w, then) == Call("put", NoScript, w.models[w.selected].id, w.copy, TRUE, then)

\* onScriptEditorContentChange
Type(t) ==
    /\ Act
    /\ tab[t].selected # 0
    /\ tab' = [tab EXCEPT ![t].editor.n = acts + 1,
                          ![t].copy = [of |-> tab[t].editor.of, n |-> acts + 1]]
    /\ UNCHANGED <<script, shadow, calls, pushes, saved>>

\* Picking a script changes the route, and leaving the old one saves the copy: that of
\* the shadow which is still selected then.
Pick(t, s) ==
    /\ Act
    /\ s # tab[t].script
    /\ LET r == SelectScript(tab[t], UserOf[t], s)
       IN  /\ tab' = [tab EXCEPT ![t] = r[1]]
           /\ Send(t, r[2] \cup IF Changed(tab[t]) THEN {SaveCopy(tab[t], "none")} ELSE {})
    /\ UNCHANGED <<script, shadow, pushes, saved>>

\* tryToSaveScriptShadowCopy, every twenty seconds.
Autosave(t) ==
    /\ Changed(tab[t])
    /\ tab' = [tab EXCEPT ![t].ignore = TRUE]
    /\ Send(t, {SaveCopy(tab[t], "none")})
    /\ UNCHANGED <<script, shadow, acts, pushes, saved>>

Publishing(t) == \E c \in calls[t] : c.then = "publish" \/ c.op = "script"
Different(t) == tab[t].selected # 0 /\ tab[t].known[tab[t].script] # tab[t].copy

Publish(t) ==
    /\ Act
    /\ Different(t)
    /\ ~ Publishing(t)
    /\ Send(t, {SaveCopy(tab[t], "publish")})
    /\ UNCHANGED <<script, shadow, tab, pushes, saved>>

Revert(t) ==
    /\ Act
    /\ "revert" \in Events
    /\ Different(t)
    /\ Send(t, {[SaveCopy(tab[t], "none") EXCEPT !.code = tab[t].known[tab[t].script]]})
    /\ UNCHANGED <<script, shadow, tab, pushes, saved>>

\* Changing the language of a script saves and so selects the script.
ChangeType(t) ==
    /\ Act
    /\ "type" \in Events
    /\ tab[t].script # NoScript
    /\ Send(t, {Call("type", tab[t].script, 0, Blank, TRUE, "rebuild")})
    /\ UNCHANGED <<script, shadow, tab, pushes, saved>>

-----------------------------------------------------------------------------
(***************************************************************************)
(* The server.  It writes a document and then publishes the change; pushes *)
(* of several requests come in any order.                                  *)
(***************************************************************************)
Push(kind, s, id, code) ==
    pushes' = [t \in Tab |-> pushes[t] \cup {[kind |-> kind, script |-> s, id |-> id, code |-> code]}]

Answer(t, c, r) == calls' = [calls EXCEPT ![t] = (@ \ {c}) \cup {r}]

ServeGet(t, c) ==
    LET own == {i \in DOMAIN shadow : shadow[i].user = UserOf[t] /\ shadow[i].script = c.script}
        id  == CHOOSE i \in own : TRUE
    IN  /\ c.op = "get"
        /\ Answer(t, c, IF own = {} THEN [c EXCEPT !.stage = "none"]
                        ELSE [c EXCEPT !.stage = "ok", !.id = id, !.code = shadow[id].code])
        /\ UNCHANGED <<script, shadow, pushes, saved>>

\* createUserScriptShadowCopy
ServeCreate(t, c) ==
    LET id == Len(shadow) + 1
    IN  /\ c.op = "post"
        /\ shadow' = Append(shadow, [user |-> UserOf[t], script |-> c.script, code |-> c.code])
        /\ saved' = saved \cup {c.code}
        /\ Push("create", c.script, id, c.code)
        /\ Answer(t, c, [c EXCEPT !.stage = "ok", !.id = id])
        /\ UNCHANGED script

\* updateUserScriptShadowCopy
ServeUpdate(t, c) ==
    /\ c.op = "put"
    /\ shadow' = [shadow EXCEPT ![c.id].code = c.code]
    /\ saved' = saved \cup {c.code}
    /\ Push("update", NoScript, c.id, c.code)
    /\ Answer(t, c, [c EXCEPT !.stage = "ok"])
    /\ UNCHANGED script

\* updateScript
ServeScript(t, c) ==
    /\ c.op = "script"
    /\ script' = [script EXCEPT ![c.script] = c.code]
    /\ Push("script", c.script, 0, c.code)
    /\ Answer(t, c, [c EXCEPT !.stage = "ok"])
    /\ UNCHANGED <<shadow, saved>>

\* ... of its type: the answer holds the whole document.
ServeType(t, c) ==
    /\ c.op = "type"
    /\ Answer(t, c, [c EXCEPT !.stage = "ok", !.code = script[c.script]])
    /\ UNCHANGED <<script, shadow, pushes, saved>>

Fail(t, c) ==
    /\ "fail" \in Events
    /\ Answer(t, c, [c EXCEPT !.stage = "failed"])
    /\ UNCHANGED <<script, shadow, pushes, saved>>

Serve(t, c) ==
    /\ c.stage = "sent"
    /\ \/ ServeGet(t, c) \/ ServeCreate(t, c) \/ ServeUpdate(t, c)
       \/ ServeScript(t, c) \/ ServeType(t, c) \/ Fail(t, c)
    /\ UNCHANGED <<acts, tab>>

-----------------------------------------------------------------------------
(***************************************************************************)
(* Answers and pushes reach the tab                                        *)
(***************************************************************************)
Receive(t, c, w, cs) ==
    /\ tab' = [tab EXCEPT ![t] = w]
    /\ calls' = [calls EXCEPT ![t] = (@ \ {c}) \cup cs]

\* getOrCreate's query: its shadow is added to the store (outside the try, so that a
\* broken store leaves the promise pending), or has to be created from the script's code
\* as it was when getOrCreate was called.
ReceiveGet(t, c) ==
    LET w == AddModel(tab[t], c.id, c.code)
    IN  /\ c.op = "get"
        /\ \/ /\ c.stage = "ok"
              /\ Receive(t, c, IF w.broken THEN w ELSE Resolve(w, c.script, Len(w.models)), {})
           \/ /\ c.stage = "none"
              /\ Receive(t, c, tab[t], {[c EXCEPT !.op = "post", !.stage = "sent"]})
           \/ /\ c.stage = "failed"
              /\ Receive(t, c, Reject(tab[t], c.script), {})

\* ... and is created: the push may have put it into the store before.
ReceiveCreate(t, c) ==
    LET w == AddModel(tab[t], c.id, c.code)
    IN  /\ c.op = "post"
        /\ \/ /\ c.stage = "ok" /\ ~ w.broken
              /\ Receive(t, c, Resolve(w, c.script, First(w, c.id)), {})
           \/ /\ c.stage = "failed" \/ (c.stage = "ok" /\ w.broken)
              /\ Receive(t, c, Reject(tab[t], c.script), {})

\* Mutant: the script is written although its shadow was not.
AlwaysPublished(w, c) ==
    IF c.then = "publish" THEN {Call("script", w.script, 0, w.copy, TRUE, "none")} ELSE {}

\* What onPublishScriptClicked does when the shadow is saved: the selected script gets
\* the selected shadow's code, whatever is selected by now.
AfterSave(w, c) ==
    IF c.then = "publish" /\ c.stage = "ok" THEN {Call("script", w.script, 0, w.copy, TRUE, "none")} ELSE {}

\* save: the store is updated and, if the saved shadow was selected when the request was
\* sent, it is selected again.
ReceiveSaved(t, c) ==
    LET v == Update(tab[t], c.id, c.code)
        w == IF c.stage = "ok" THEN SelectShadow(v, First(v, c.id)) ELSE tab[t]
    IN  /\ c.op = "put"
        /\ Receive(t, c, w, AfterSave(w, c))

\* script/save: the saved script is selected again, and with it its shadow.
ReceiveScript(t, c) ==
    LET v == [tab[t] EXCEPT !.known[c.script] = c.code]
        r == SelectScript(v, UserOf[t], c.script)
        w == IF c.then = "rebuild" THEN [r[1] EXCEPT !.editor = r[1].copy, !.ignore = FALSE] ELSE r[1]
    IN  /\ c.op \in {"script", "type"}
        /\ IF c.stage = "ok" THEN Receive(t, c, w, r[2]) ELSE Receive(t, c, tab[t], {})

ReceiveAnswer(t, c) ==
    /\ c.stage # "sent"
    /\ ReceiveGet(t, c) \/ ReceiveCreate(t, c) \/ ReceiveSaved(t, c) \/ ReceiveScript(t, c)
    /\ UNCHANGED <<script, shadow, acts, pushes, saved>>

\* defaultMessageHandler
ReceivePush(t) ==
    \E p \in pushes[t] :
        /\ pushes' = [pushes EXCEPT ![t] = @ \ {p}]
        /\ tab' = [tab EXCEPT ![t] =
                CASE p.kind = "create" -> AddModel(@, p.id, p.code)
                  [] p.kind = "update" -> Update(@, p.id, p.code)
                  [] p.kind = "script" -> [@ EXCEPT !.known[p.script] = p.code]]
        /\ UNCHANGED <<script, shadow, acts, calls, saved>>

-----------------------------------------------------------------------------
Init ==
    /\ script = [s \in Script |-> Original(s)]
    /\ shadow = <<>>
    /\ acts = 0
    /\ tab = [t \in Tab |->
                [script |-> NoScript, known |-> script, models |-> <<>>, selected |-> 0,
                 copy |-> Blank, editor |-> Blank, ignore |-> FALSE,
                 promise |-> [s \in Script |-> Unasked], waiting |-> {}, broken |-> FALSE]]
    /\ calls = [t \in Tab |-> {}]
    /\ pushes = [t \in Tab |-> {}]
    /\ saved = {}

UserStep(t) ==
    \/ Type(t) \/ Autosave(t) \/ Publish(t) \/ Revert(t) \/ ChangeType(t)
    \/ \E s \in Script : Pick(t, s)

Next == \E t \in Tab :
    \/ UserStep(t) \/ ReceivePush(t)
    \/ \E c \in calls[t] : Serve(t, c) \/ ReceiveAnswer(t, c)

Spec == Init /\ [][Next]_vars

-----------------------------------------------------------------------------
(***************************************************************************)
(* Properties                                                              *)
(***************************************************************************)
Stages == {"sent", "ok", "none", "failed"}

\* The documents, the tabs and the requests have the values the code gives them, and
\* what is selected is in the store.
TypeOK ==
    /\ script \in [Script -> Text]
    /\ shadow \in Seq([user : User, script : Script, code : Text])
    /\ acts \in 0..MaxActs
    /\ saved \subseteq Text
    /\ \A t \in Tab :
        /\ tab[t].script \in Script \cup {NoScript}
        /\ tab[t].known \in [Script -> Text]
        /\ tab[t].models \in Seq([id : DOMAIN shadow, code : Text])
        /\ tab[t].selected \in {0} \cup DOMAIN tab[t].models
        /\ {tab[t].copy, tab[t].editor} \subseteq Text
        /\ {tab[t].ignore, tab[t].broken} \subseteq BOOLEAN
        /\ \A s \in Script : Resolved(tab[t].promise[s]) => tab[t].promise[s] \in DOMAIN tab[t].models
        /\ tab[t].waiting \subseteq {s \in Script : tab[t].promise[s] = Pending}
        /\ \A c \in calls[t] : c.stage \in Stages /\ c.code \in Text

\* A user with one tab never gets a second shadow of a script, although several selects
\* of the script wait for its first shadow at once (store/scriptShadow/actions.ts:11).
OneShadowEach ==
    \A i, j \in DOMAIN shadow :
        shadow[i].user = shadow[j].user /\ shadow[i].script = shadow[j].script => i = j

\* A tab edits and saves only shadows of its own user, although the server pushes
\* everybody's into its store.
OwnShadow ==
    \A t \in Tab :
        /\ tab[t].selected # 0 => shadow[tab[t].models[tab[t].selected].id].user = UserOf[t]
        /\ \A c \in calls[t] : c.op = "put" => shadow[c.id].user = UserOf[t]

\* No text gets into a script that was not in a shadow before: a publish goes on to the
\* script only after the shadow was saved, whatever else is saved, picked and typed
\* meanwhile, so that an overwritten script can be found again.
PublishedIsBackedUp ==
    \A s \in Script : script[s] \in saved \cup {Original(r) : r \in Script}

\* A select that waits for a shadow has a request under way that will answer it, when
\* earlier ones failed too; only a store that holds an undefined model leaves it waiting.
SelectAnswerable ==
    \A t \in Tab : \A s \in tab[t].waiting :
        tab[t].broken \/ \E c \in calls[t] : c.op \in {"get", "post"} /\ c.script = s

\* store/script/actions.ts:44 "just select the script shadow by default each time": a
\* script never gets the text of another one.
KeepsItsText == \A s \in Script : script[s].of = s
=============================================================================
