------------------------ MODULE ScriptEditing_proofs -------------------------
(***************************************************************************)
(* Editing scripts: the invariants, for any tabs, users and scripts.       *)
(*                                                                         *)
(* EditInv says what a tab and its requests may refer to.  Its heart is    *)
(* Mine: what is selected, and what a promise resolved to, is an object    *)
(* that shows a shadow of the tab's own user; and RequestOK: a request     *)
(* that was saved has its text in the history `saved', which is why the    *)
(* one that publishes it backs up what it writes.  AskInv ties a pending   *)
(* promise to exactly one request, and FirstInv says that a request which  *)
(* found no shadow is still right: the only one who could have created it  *)
(* is that same request.                                                   *)
(*                                                                         *)
(* A lemma per operation of the store says that it keeps WindowOK and that *)
(* the window only Extends; a lemma per action follows from TabStep,       *)
(* ReceiveStep or ServeStep.                                               *)
(***************************************************************************)
EXTENDS ScriptEditing, WellFoundedInduction, SequenceTheorems, TLAPS

USE ScriptAssumption, UserOfAssumption, MaxAssumption

Object == [id : Nat, code : Text]

Window ==
    [script : Script \cup {NoScript}, known : [Script -> Text], models : Seq(Object),
     selected : Nat, copy : Text, editor : Text, ignore : BOOLEAN, promise : [Script -> Int],
     waiting : SUBSET Script, broken : BOOLEAN]

Request ==
    [op : {"get", "post", "put", "script", "type"}, script : Script \cup {NoScript}, id : Nat,
     code : Text, again : BOOLEAN, then : {"none", "publish", "rebuild"}, stage : Stages]

Document == [user : User, script : Script, code : Text]

Message == [kind : {"create", "update", "script"}, script : Script \cup {NoScript}, id : Nat, code : Text]

Owned(docs, id, u) == id \in DOMAIN docs /\ docs[id].user = u
Holds(w, id) == \E i \in DOMAIN w.models : w.models[i].id = id

\* An object of the store of u's window w that shows a shadow of u.  (The documents are
\* parameters, docs for `shadow' and texts for `saved', so that lemmas can be about the
\* documents of the next state.)
Mine(docs, w, u, p) == p \in DOMAIN w.models /\ Owned(docs, w.models[p].id, u)

\* What a window w of user u holds.
WindowOK(docs, w, u) ==
    /\ w \in Window
    /\ \A i \in DOMAIN w.models : w.models[i].id \in DOMAIN docs
    /\ w.selected # 0 => Mine(docs, w, u, w.selected) /\ w.script # NoScript
    /\ \A s \in Script : w.promise[s] \in {Unasked, Pending, Rejected} \/ Mine(docs, w, u, w.promise[s])
    /\ \A s \in w.waiting : w.promise[s] = Pending

\* What a request c of user u, whose window is w, carries.
RequestOK(docs, texts, c, w, u) ==
    /\ c \in Request
    /\ w.script # NoScript
    /\ c.op = "put" => Owned(docs, c.id, u) /\ Holds(w, c.id) /\ c.stage # "none"
    /\ c.op = "put" /\ c.stage = "ok" => c.code \in texts
    /\ c.op = "script" => c.code \in texts
    /\ c.op # "put" => c.script # NoScript
    /\ c.op \in {"get", "post"} /\ c.stage = "ok" => Owned(docs, c.id, u)

DocumentsOK ==
    /\ script \in [Script -> Text]
    /\ shadow \in Seq(Document)
    /\ acts \in 0..MaxActs
    /\ saved \subseteq Text
    /\ \A s \in Script : script[s] \in saved \cup {Original(r) : r \in Script}

TabsOK ==
    /\ tab \in [Tab -> Window]
    /\ \A t \in Tab : WindowOK(shadow, tab[t], UserOf[t])

CallsOK ==
    /\ calls \in [Tab -> SUBSET Request]
    /\ \A t \in Tab : \A c \in calls[t] : RequestOK(shadow, saved, c, tab[t], UserOf[t])

PushesOK ==
    /\ pushes \in [Tab -> SUBSET Message]
    /\ \A t \in Tab : \A p \in pushes[t] :
        /\ p.kind \in {"create", "update"} => p.id \in DOMAIN shadow
        /\ p.kind = "script" => p.script # NoScript

EditInv == DocumentsOK /\ TabsOK /\ CallsOK /\ PushesOK

-----------------------------------------------------------------------------
Asks(c, s) == c.op \in {"get", "post"} /\ c.script = s

\* A promise of the window w is pending while its one request, of cs, is under way.
AskOK(w, cs) ==
    /\ \A s \in Script : w.promise[s] = Pending => w.broken \/ \E c \in cs : Asks(c, s)
    /\ \A c \in cs : \A s \in Script : Asks(c, s) => w.promise[s] = Pending
    /\ \A c, d \in cs : \A s \in Script : Asks(c, s) /\ Asks(d, s) => c = d

AskInv == \A t \in Tab : AskOK(tab[t], calls[t])

NoShadow(u, s) == \A i \in DOMAIN shadow : ~ (shadow[i].user = u /\ shadow[i].script = s)

\* A request that has found no shadow, or creates one.
Open(c) == (c.op = "get" /\ c.stage = "none") \/ (c.op = "post" /\ c.stage = "sent")

\* Who has found no shadow, and will create one, is right.
FirstInv ==
    /\ OneShadowEach
    /\ \A t \in Tab : \A c \in calls[t] :
        Open(c) => NoShadow(UserOf[t], c.script)

-----------------------------------------------------------------------------
(***************************************************************************)
(* The store of a tab                                                      *)
(***************************************************************************)
LEMMA TextFacts ==
    /\ Blank \in Text
    /\ \A s \in Script : Original(s) \in Text
    /\ NoScript \notin Script
BY DEF Blank, Original, Text, NoScript

\* A set of positions has a least one.
LEMMA LeastExists == ASSUME NEW S \in SUBSET Nat, S # {} PROVE \E i \in S : \A j \in S : i <= j
<1>. DEFINE R == {p \in Nat \X Nat : p[1] < p[2]}
<1>1. IsWellFoundedOn(R, Nat)
  BY NatLessThanWellFounded DEF OpToRel
<1>. HIDE DEF R
<1>2. PICK x \in S : \A y \in S : <<y, x>> \notin R
  BY <1>1, WFMin
<1>3. ASSUME NEW y \in S PROVE x <= y
  <2>1. x \in Nat /\ y \in Nat /\ <<y, x>> \in Nat \X Nat /\ <<y, x>> \notin R
    BY <1>2
  <2>2. ~(y < x)
    BY <2>1 DEF R
  <2>. QED BY <2>1, <2>2
<1>. QED BY <1>3

LEMMA Models ==
    ASSUME NEW w \in Window
    PROVE  /\ w.models \in Seq(Object) /\ Len(w.models) \in Nat
           /\ DOMAIN w.models = 1..Len(w.models)
           /\ \A i \in DOMAIN w.models : w.models[i] \in Object
<1>1. w.models \in Seq(Object)
  BY DEF Window
<1>2. Len(w.models) \in Nat /\ DOMAIN w.models = 1..Len(w.models)
  BY <1>1, LenProperties
<1>3. ASSUME NEW i \in DOMAIN w.models PROVE w.models[i] \in Object
  BY <1>1, <1>2, ElementOfSeq
<1>. QED BY <1>1, <1>2, <1>3

LEMMA FirstFound ==
    ASSUME NEW w \in Window, NEW id
    PROVE  \/ First(w, id) = 0 /\ ~ Holds(w, id)
           \/ First(w, id) \in DOMAIN w.models /\ First(w, id) # 0 /\ w.models[First(w, id)].id = id
<1>. DEFINE at == {i \in DOMAIN w.models : w.models[i].id = id}
<1>1. CASE at = {}
  BY <1>1 DEF First, Holds
<1>2. CASE at # {}
  <2>1. at \subseteq Nat \ {0}
    BY Models
  <2>2. PICK i \in at : \A j \in at : i <= j
    BY <1>2, <2>1, LeastExists
  <2>3. First(w, id) = CHOOSE k \in at : \A j \in at : k <= j
    BY <1>2 DEF First
  <2>4. First(w, id) \in at
    BY <2>2, <2>3
  <2>. QED BY <2>1, <2>4
<1>. QED BY <1>1, <1>2

\* What a tab has in its store it keeps.
Extends(w, v) ==
    /\ \A id : Holds(w, id) => Holds(v, id)
    /\ w.script # NoScript => v.script # NoScript

SamePromises(w, v) == v.promise = w.promise /\ v.waiting = w.waiting /\ v.broken = w.broken

LEMMA AddModelOK ==
    ASSUME NEW docs, NEW u, NEW w, WindowOK(docs, w, u),
           NEW id \in DOMAIN docs \cap Nat, NEW code \in Text
    PROVE  LET v == AddModel(w, id, code)
           IN  /\ WindowOK(docs, v, u) /\ Extends(w, v) /\ SamePromises(w, v) /\ v.script = w.script
               /\ ~ w.broken => Len(v.models) \in DOMAIN v.models /\ v.models[Len(v.models)].id = id
<1>. DEFINE v == AddModel(w, id, code)
<1>1. w \in Window
  BY DEF WindowOK
<1>2. CASE w.broken
  BY <1>2 DEF AddModel, Extends, SamePromises
<1>3. CASE ~ w.broken
  <2>. DEFINE m == Append(w.models, [id |-> id, code |-> code])
  <2>1. /\ m \in Seq(Object) /\ Len(m) = Len(w.models) + 1
        /\ \A i \in 1..Len(w.models) : m[i] = w.models[i]
        /\ m[Len(w.models) + 1] = [id |-> id, code |-> code]
    <3>1. [id |-> id, code |-> code] \in Object
      BY DEF Object
    <3>. QED BY <1>1, <3>1, Models, AppendProperties
  <2>2. m[Len(m)].id = id
    BY <2>1
  <2>11. DOMAIN m = 1..(Len(w.models) + 1)
    BY <2>1, LenProperties
  <2>. HIDE DEF m
  <2>3. v = [w EXCEPT !.models = m]
    BY <1>3 DEF AddModel, m
  <2>4. v \in Window /\ v.models = m /\ v.script = w.script /\ SamePromises(w, v) /\ v.selected = w.selected
    BY <1>1, <2>1, <2>3 DEF Window, SamePromises
  <2>. HIDE DEF v
  <2>5. \A i \in DOMAIN w.models : i \in DOMAIN v.models /\ v.models[i] = w.models[i]
    <3>1. Len(w.models) \in Nat /\ DOMAIN w.models = 1..Len(w.models)
      BY <1>1, Models
    <3>. QED BY <2>1, <2>11, <2>4, <3>1
  <2>6. \A i \in DOMAIN v.models : v.models[i].id \in DOMAIN docs
    <3>1. \A i \in DOMAIN v.models : i = Len(m) \/ i \in DOMAIN w.models
      BY <1>1, <2>1, <2>11, <2>4, Models
    <3>. QED BY <2>1, <2>2, <2>4, <2>5, <3>1 DEF WindowOK
  <2>7. \A p : Mine(docs, w, u, p) => Mine(docs, v, u, p)
    BY <2>5 DEF Mine
  <2>8. WindowOK(docs, v, u)
    BY <2>4, <2>6, <2>7 DEF WindowOK, SamePromises
  <2>9. Extends(w, v)
    BY <2>4, <2>5 DEF Extends, Holds
  <2>10. Len(v.models) \in DOMAIN v.models
    BY <1>1, <2>1, <2>11, <2>4, Models
  <2>. QED BY <2>2, <2>4, <2>8, <2>9, <2>10 DEF v
<1>. QED BY <1>2, <1>3

LEMMA UpdateOK ==
    ASSUME NEW docs, NEW u, NEW w, WindowOK(docs, w, u), NEW id, NEW code \in Text
    PROVE  LET v == Update(w, id, code)
           IN  /\ WindowOK(docs, v, u) /\ Extends(w, v) /\ SamePromises(w, v) /\ v.script = w.script
               /\ Holds(w, id) => /\ First(v, id) \in DOMAIN v.models
                                  /\ v.models[First(v, id)].id = id /\ v.models[First(v, id)].code = code
<1>. DEFINE v == Update(w, id, code)
            i == First(w, id)
<1>1. w \in Window
  BY DEF WindowOK
<1>2. CASE i = 0
  BY <1>1, <1>2, FirstFound DEF Update, Extends, SamePromises
<1>3. CASE i # 0
  <2>1. i \in DOMAIN w.models /\ w.models[i].id = id
    BY <1>1, <1>3, FirstFound
  <2>. DEFINE e == [id |-> id, code |-> code]
              m == [w.models EXCEPT ![i] = e]
  <2>2. e \in Object /\ [w.models[i] EXCEPT !.code = code] = e
    BY <1>1, <2>1, Models DEF Object
  <2>3. m \in Seq(Object) /\ DOMAIN m = DOMAIN w.models
        /\ \A j \in DOMAIN w.models : m[j] = IF j = i THEN e ELSE w.models[j]
    <3>1. w.models \in Seq(Object) /\ i \in 1..Len(w.models) /\ DOMAIN w.models = 1..Len(w.models)
      BY <1>1, <2>1, Models
    <3>2. m \in Seq(Object) /\ Len(m) = Len(w.models)
      BY <2>2, <3>1, ExceptSeq
    <3>. QED BY <3>1, <3>2, LenProperties
  <2>4. v = [w EXCEPT !.models = m]
    BY <1>1, <1>3, <2>1, <2>2 DEF Update, Window
  <2>5. \A j \in DOMAIN m : m[j].id = w.models[j].id
    BY <2>1, <2>3
  <2>. HIDE DEF m, i, v
  <2>6. v \in Window /\ v.models = m /\ v.script = w.script /\ SamePromises(w, v) /\ v.selected = w.selected
    BY <1>1, <2>3, <2>4 DEF Window, SamePromises
  <2>7. \A p : Mine(docs, w, u, p) => Mine(docs, v, u, p)
    BY <2>3, <2>5, <2>6 DEF Mine
  <2>8. WindowOK(docs, v, u)
    BY <2>3, <2>5, <2>6, <2>7 DEF WindowOK, SamePromises
  <2>9. Extends(w, v)
    BY <2>3, <2>5, <2>6 DEF Extends, Holds
  <2>10. First(v, id) = First(w, id)
    <3>1. {j \in DOMAIN v.models : v.models[j].id = id} = {j \in DOMAIN w.models : w.models[j].id = id}
      BY <2>3, <2>5, <2>6
    <3>. DEFINE Least(S) == IF S = {} THEN 0 ELSE CHOOSE j \in S : \A k \in S : j <= k
    <3>2. /\ First(v, id) = Least({j \in DOMAIN v.models : v.models[j].id = id})
          /\ First(w, id) = Least({j \in DOMAIN w.models : w.models[j].id = id})
      BY DEF First
    <3>. HIDE DEF Least
    <3>. QED BY <3>1, <3>2
  <2>. QED BY <2>1, <2>3, <2>5, <2>6, <2>8, <2>9, <2>10 DEF v, i
<1>. QED BY <1>2, <1>3

LEMMA SelectShadowOK ==
    ASSUME NEW docs, NEW u, NEW w, WindowOK(docs, w, u), w.script # NoScript,
           NEW p, Mine(docs, w, u, p)
    PROVE  LET v == SelectShadow(w, p)
           IN  /\ WindowOK(docs, v, u) /\ Extends(w, v) /\ SamePromises(w, v) /\ v.script = w.script
               /\ v.copy = w.models[p].code
<1>. DEFINE v == SelectShadow(w, p)
<1>1. w \in Window /\ p \in DOMAIN w.models /\ p \in Nat /\ w.models[p].code \in Text
  BY Models DEF WindowOK, Mine, Object
<1>2. /\ v \in Window /\ v.models = w.models /\ v.script = w.script /\ SamePromises(w, v)
      /\ v.selected = p /\ v.copy = w.models[p].code
  BY <1>1 DEF Window, SelectShadow, SamePromises
<1>. HIDE DEF v
<1>3. WindowOK(docs, v, u)
  BY <1>2 DEF WindowOK, SamePromises, Mine
<1>4. Extends(w, v)
  BY <1>2 DEF Extends, Holds
<1>. QED BY <1>2, <1>3, <1>4 DEF v

LEMMA PromiseSet ==
    ASSUME NEW w \in Window, NEW s \in Script, NEW p \in Int
    PROVE  LET m == [w.promise EXCEPT ![s] = p]
           IN  m \in [Script -> Int] /\ m[s] = p /\ \A q \in Script \ {s} : m[q] = w.promise[q]
BY DEF Window

\* The promise for one script changes, and who waits for it.
LEMMA PromiseChanged ==
    ASSUME NEW docs, NEW u, NEW w, WindowOK(docs, w, u), NEW x \in Window, NEW s \in Script,
           x.models = w.models, x.selected = w.selected, x.script = w.script,
           \A q \in Script \ {s} : x.promise[q] = w.promise[q],
           x.promise[s] \in {Unasked, Pending, Rejected} \/ Mine(docs, w, u, x.promise[s]),
           x.waiting \subseteq w.waiting \cup {s}, s \in x.waiting => x.promise[s] = Pending
    PROVE  WindowOK(docs, x, u) /\ Extends(w, x) /\ \A p : Mine(docs, w, u, p) => Mine(docs, x, u, p)
<1>1. \A p : Mine(docs, w, u, p) => Mine(docs, x, u, p)
  BY DEF Mine
<1>2. x.waiting \subseteq Script
  BY DEF Window
<1>3. \A q \in x.waiting : x.promise[q] = Pending
  BY <1>2 DEF WindowOK
<1>4. \A q \in Script : x.promise[q] \in {Unasked, Pending, Rejected} \/ Mine(docs, x, u, x.promise[q])
  BY <1>1 DEF WindowOK
<1>. QED BY <1>1, <1>3, <1>4 DEF WindowOK, Extends, Holds

Query(s, code) == Call("get", s, 0, code, FALSE, "none")

\* Selecting s makes z of the window w of u and sends the requests new.
Selected(w, u, s, z, new) ==
    z = SelectScript(w, u, s)[1] /\ new = SelectScript(w, u, s)[2]

LEMMA SelectScriptOK ==
    ASSUME NEW u, NEW w, WindowOK(shadow, w, u), NEW s \in Script,
           NEW z, NEW new, Selected(w, u, s, z, new)
    PROVE  /\ WindowOK(shadow, z, u) /\ Extends(w, z)
           /\ z.script = s /\ z.broken = w.broken
           /\ \A q \in Script \ {s} : z.promise[q] = w.promise[q]
           /\ (w.promise[s] = Pending => z.promise[s] = Pending)
           /\ \/ new = {} /\ (z.promise[s] = Pending => w.promise[s] = Pending \/ w.broken)
              \/ /\ new = {Query(s, w.known[s])}
                 /\ w.promise[s] = Unasked /\ z.promise[s] = Pending
<1>. DEFINE v == [w EXCEPT !.script = s]
            c == Cached(v, u, s)
            p == CHOOSE i \in c : \A j \in c : i <= j
            r == SelectScript(w, u, s)
<1>1. /\ w \in Window /\ s # NoScript
      /\ v \in Window /\ v.script = s /\ v.models = w.models /\ SamePromises(w, v) /\ v.selected = w.selected
      /\ v.known = w.known
  BY TextFacts DEF WindowOK, Window, SamePromises
<1>2. WindowOK(shadow, v, u) /\ Extends(w, v)
  BY <1>1 DEF WindowOK, Extends, Holds, Mine, SamePromises
<1>3. r = IF Resolved(v.promise[s]) THEN <<SelectShadow(v, v.promise[s]), {}>>
          ELSE IF ~ MustAsk(v, s)
               THEN <<IF v.promise[s] = Pending THEN [v EXCEPT !.waiting = @ \cup {s}] ELSE v, {}>>
          ELSE IF v.broken THEN <<[v EXCEPT !.promise[s] = Pending], {}>>
          ELSE IF c # {} THEN <<SelectShadow([v EXCEPT !.promise[s] = p], p), {}>>
          ELSE <<[v EXCEPT !.promise[s] = Pending, !.waiting = @ \cup {s}],
                 {Query(s, v.known[s])}>>
  BY DEF SelectScript, Query
<1>4. c # {} => Mine(shadow, v, u, p)
  <2>. SUFFICES ASSUME c # {} PROVE Mine(shadow, v, u, p)
    OBVIOUS
  <2>1. c \in SUBSET Nat
    BY <1>1, Models DEF Cached
  <2>2. p \in c
    <3>1. PICK i \in c : \A j \in c : i <= j
      BY <2>1, LeastExists
    <3>. QED BY <3>1
  <2>. QED BY <1>2, <2>2 DEF Mine, Owned, Cached, WindowOK
<1>. HIDE DEF v, c, p, r
<1>5. v.promise[s] \in {Unasked, Pending, Rejected} \/ Mine(shadow, v, u, v.promise[s])
  BY <1>2 DEF WindowOK
<1>6. CASE Resolved(v.promise[s])
  <2>. DEFINE x == SelectShadow(v, v.promise[s])
  <2>1. Mine(shadow, v, u, v.promise[s]) /\ v.promise[s] # Pending
    BY <1>5, <1>6 DEF Resolved, Unasked, Pending, Rejected
  <2>2. WindowOK(shadow, x, u) /\ Extends(v, x) /\ SamePromises(v, x) /\ x.script = v.script
    BY <1>1, <1>2, <2>1, SelectShadowOK
  <2>3. r = <<x, {}>>
    BY <1>3, <1>6
  <2>. HIDE DEF x
  <2>4. z = x /\ new = {}
    BY <2>3 DEF r, Selected
  <2>. QED BY <1>1, <1>2, <2>1, <2>2, <2>4 DEF SamePromises, Extends
<1>7. CASE ~ Resolved(v.promise[s]) /\ ~ MustAsk(v, s)
  <2>. DEFINE x == IF v.promise[s] = Pending THEN [v EXCEPT !.waiting = @ \cup {s}] ELSE v
  <2>1. /\ x \in Window /\ x.models = v.models /\ x.script = s /\ x.promise = v.promise
        /\ x.broken = v.broken /\ x.selected = v.selected
        /\ x.waiting \subseteq v.waiting \cup {q \in Script : v.promise[q] = Pending}
    BY <1>1 DEF Window
  <2>2. r = <<x, {}>>
    BY <1>3, <1>7
  <2>. HIDE DEF x
  <2>3. WindowOK(shadow, x, u) /\ Extends(v, x)
    BY <1>1, <1>2, <2>1 DEF WindowOK, Extends, Holds, Mine
  <2>4. z = x /\ new = {}
    BY <2>2 DEF r, Selected
  <2>. QED BY <1>1, <1>2, <2>1, <2>3, <2>4 DEF SamePromises, Extends
<1>8. CASE ~ Resolved(v.promise[s]) /\ MustAsk(v, s) /\ v.broken
  <2>. DEFINE x == [v EXCEPT !.promise[s] = Pending]
  <2>1. /\ x \in Window /\ x.models = v.models /\ x.script = s /\ x.waiting = v.waiting
        /\ x.broken = v.broken /\ x.selected = v.selected
        /\ x.promise[s] = Pending /\ \A q \in Script \ {s} : x.promise[q] = v.promise[q]
    <3>. DEFINE m == [v.promise EXCEPT ![s] = Pending]
    <3>1. m \in [Script -> Int] /\ m[s] = Pending /\ \A q \in Script \ {s} : m[q] = v.promise[q]
      BY <1>1, PromiseSet DEF Pending
    <3>2. x = [v EXCEPT !.promise = m]
      BY <1>1 DEF Window
    <3>. HIDE DEF m, x
    <3>. QED BY <1>1, <3>1, <3>2 DEF Window
  <2>2. r = <<x, {}>>
    BY <1>3, <1>8
  <2>. HIDE DEF x
  <2>3. WindowOK(shadow, x, u) /\ Extends(v, x)
    BY <1>1, <1>2, <2>1, PromiseChanged
  <2>4. z = x /\ new = {}
    BY <2>2 DEF r, Selected
  <2>. QED BY <1>1, <1>2, <1>8, <2>1, <2>3, <2>4 DEF SamePromises, Extends
<1>9. CASE ~ Resolved(v.promise[s]) /\ MustAsk(v, s) /\ ~ v.broken /\ c # {}
  <2>. DEFINE y == [v EXCEPT !.promise[s] = p]
              x == SelectShadow(y, p)
  <2>1. p \in DOMAIN v.models /\ p \in Nat \ {0}
    BY <1>1, <1>4, <1>9, Models DEF Mine
  <2>2. /\ y \in Window /\ y.models = v.models /\ y.script = s /\ y.waiting = v.waiting
        /\ y.broken = v.broken /\ y.selected = v.selected
        /\ y.promise[s] = p /\ \A q \in Script \ {s} : y.promise[q] = v.promise[q]
    <3>. DEFINE m == [v.promise EXCEPT ![s] = p]
    <3>1. m \in [Script -> Int] /\ m[s] = p /\ \A q \in Script \ {s} : m[q] = v.promise[q]
      BY <1>1, <2>1, PromiseSet
    <3>2. y = [v EXCEPT !.promise = m]
      BY <1>1 DEF Window
    <3>. HIDE DEF m, y
    <3>. QED BY <1>1, <3>1, <3>2 DEF Window
  <2>3. r = <<x, {}>>
    BY <1>3, <1>9
  <2>4. v.promise[s] = Unasked
    BY <1>9 DEF MustAsk
  <2>. HIDE DEF y
  <2>5. WindowOK(shadow, y, u) /\ Extends(v, y) /\ Mine(shadow, y, u, p)
    <3>1. s \notin y.waiting
      BY <1>1, <1>2, <2>2, <2>4 DEF WindowOK, Unasked, Pending
    <3>. QED BY <1>1, <1>2, <1>4, <1>9, <2>2, <3>1, PromiseChanged
  <2>6. WindowOK(shadow, x, u) /\ Extends(y, x) /\ SamePromises(y, x) /\ x.script = y.script
    BY <1>1, <2>2, <2>5, SelectShadowOK
  <2>. HIDE DEF x
  <2>7. z = x /\ new = {}
    BY <2>3 DEF r, Selected
  <2>8. p # Pending /\ v.promise[s] # Pending
    BY <2>1, <2>4 DEF Pending, Unasked
  <2>. QED BY <1>1, <1>2, <2>2, <2>5, <2>6, <2>7, <2>8 DEF SamePromises, Extends
<1>10. CASE ~ Resolved(v.promise[s]) /\ MustAsk(v, s) /\ ~ v.broken /\ c = {}
  <2>. DEFINE x == [v EXCEPT !.promise[s] = Pending, !.waiting = @ \cup {s}]
  <2>1. /\ x \in Window /\ x.models = v.models /\ x.script = s /\ x.waiting = v.waiting \cup {s}
        /\ x.broken = v.broken /\ x.selected = v.selected
        /\ x.promise[s] = Pending /\ \A q \in Script \ {s} : x.promise[q] = v.promise[q]
    <3>. DEFINE m == [v.promise EXCEPT ![s] = Pending]
    <3>1. m \in [Script -> Int] /\ m[s] = Pending /\ \A q \in Script \ {s} : m[q] = v.promise[q]
      BY <1>1, PromiseSet DEF Pending
    <3>2. x = [v EXCEPT !.promise = m, !.waiting = v.waiting \cup {s}]
      BY <1>1 DEF Window
    <3>. HIDE DEF m, x
    <3>. QED BY <1>1, <3>1, <3>2 DEF Window
  <2>2. r = <<x, {Query(s, v.known[s])}>>
    BY <1>3, <1>10
  <2>3. v.promise[s] = Unasked
    BY <1>10 DEF MustAsk
  <2>. HIDE DEF x
  <2>4. WindowOK(shadow, x, u) /\ Extends(v, x)
    BY <1>1, <1>2, <2>1, PromiseChanged
  <2>5. z = x /\ new = {Query(s, w.known[s])}
    BY <1>1, <2>2 DEF r, Selected
  <2>. QED BY <1>1, <1>2, <2>1, <2>3, <2>4, <2>5 DEF SamePromises, Extends
<1>. QED BY <1>6, <1>7, <1>8, <1>9, <1>10

\* x is w when the promise for s is resolved to p, or rejected.
Resolves(w, s, p, x) == x = Resolve(w, s, p)
Rejects(w, s, x) == x = Reject(w, s)

\* Only the promise for s may have changed.
Others(w, x, s) == \A q \in Script \ {s} : x.promise[q] = w.promise[q]

LEMMA ResolveOK ==
    ASSUME NEW docs, NEW u, NEW w, WindowOK(docs, w, u), w.script # NoScript,
           NEW s \in Script, NEW p, Mine(docs, w, u, p), NEW x, Resolves(w, s, p, x)
    PROVE  /\ WindowOK(docs, x, u) /\ Extends(w, x) /\ x.broken = w.broken
           /\ x.promise[s] # Pending /\ Others(w, x, s)
<1>. DEFINE v == [w EXCEPT !.promise[s] = p, !.waiting = @ \ {s}]
<1>1. w \in Window /\ p \in DOMAIN w.models /\ p \in Nat \ {0}
  BY Models DEF WindowOK, Mine
<1>2. /\ v \in Window /\ v.models = w.models /\ v.script = w.script /\ v.selected = w.selected
      /\ v.broken = w.broken /\ v.waiting = w.waiting \ {s}
      /\ v.promise[s] = p /\ \A q \in Script \ {s} : v.promise[q] = w.promise[q]
  <2>. DEFINE m == [w.promise EXCEPT ![s] = p]
  <2>1. m \in [Script -> Int] /\ m[s] = p /\ \A q \in Script \ {s} : m[q] = w.promise[q]
    BY <1>1, PromiseSet
  <2>2. v = [w EXCEPT !.promise = m, !.waiting = @ \ {s}]
    BY <1>1 DEF Window
  <2>. HIDE DEF m
  <2>. QED BY <1>1, <2>1, <2>2 DEF Window
<1>3. x = IF s \in w.waiting THEN SelectShadow(v, p) ELSE v
  BY DEF Resolve, Resolves
<1>. HIDE DEF v
<1>4. WindowOK(docs, v, u) /\ Extends(w, v) /\ Mine(docs, v, u, p)
  BY <1>1, <1>2, PromiseChanged
<1>5. p # Pending
  BY <1>1 DEF Pending
<1>6. CASE s \in w.waiting
  <2>1. /\ WindowOK(docs, x, u) /\ Extends(v, x) /\ SamePromises(v, x)
    BY <1>2, <1>3, <1>4, <1>6, SelectShadowOK
  <2>2. Extends(w, x)
    BY <1>4, <2>1 DEF Extends
  <2>3. x.broken = w.broken /\ x.promise = v.promise
    BY <1>2, <2>1 DEF SamePromises
  <2>. QED BY <1>2, <1>5, <2>1, <2>2, <2>3 DEF Others
<1>7. CASE s \notin w.waiting
  BY <1>2, <1>3, <1>4, <1>5, <1>7 DEF Others
<1>. QED BY <1>6, <1>7

LEMMA RejectOK ==
    ASSUME NEW docs, NEW u, NEW w, WindowOK(docs, w, u), NEW s \in Script, NEW x, Rejects(w, s, x)
    PROVE  /\ WindowOK(docs, x, u) /\ Extends(w, x) /\ (w.broken => x.broken)
           /\ x.promise[s] # Pending /\ Others(w, x, s)
<1>. x = Reject(w, s)
  BY DEF Rejects
<1>1. w \in Window
  BY DEF WindowOK
<1>2. /\ x \in Window /\ x.models = w.models /\ x.script = w.script /\ x.selected = w.selected
      /\ (w.broken => x.broken) /\ x.waiting = w.waiting \ {s}
      /\ x.promise[s] = Rejected /\ \A q \in Script \ {s} : x.promise[q] = w.promise[q]
  <2>. DEFINE m == [w.promise EXCEPT ![s] = Rejected]
              b == w.broken \/ w.models = <<>>
  <2>1. m \in [Script -> Int] /\ m[s] = Rejected /\ \A q \in Script \ {s} : m[q] = w.promise[q]
    <3>1. Rejected \in Int
      BY DEF Rejected
    <3>. QED BY <1>1, <3>1, PromiseSet
  <2>2. x = [w EXCEPT !.promise = m, !.waiting = @ \ {s}, !.broken = b]
    BY <1>1 DEF Window, Reject
  <2>3. b \in BOOLEAN /\ (w.broken => b)
    OBVIOUS
  <2>. HIDE DEF m, b
  <2>. QED BY <1>1, <2>1, <2>2, <2>3 DEF Window
<1>3. x.promise[s] \in {Unasked, Pending, Rejected} /\ (s \in x.waiting => x.promise[s] = Pending)
  BY <1>2
<1>4. WindowOK(docs, x, u) /\ Extends(w, x)
  BY <1>2, <1>3, PromiseChanged
<1>5. x.promise[s] # Pending
  BY <1>2 DEF Pending, Rejected
<1>. QED BY <1>2, <1>4, <1>5 DEF Others
-----------------------------------------------------------------------------
(***************************************************************************)
(* Steps of a tab                                                          *)
(***************************************************************************)
LEMMA RequestKept ==
    ASSUME NEW docs, NEW texts, NEW u, NEW w, NEW v, Extends(w, v),
           NEW c, RequestOK(docs, texts, c, w, u)
    PROVE  RequestOK(docs, texts, c, v, u)
BY DEF RequestOK, Extends

\* The window of t becomes w, and its requests cs.
Becomes(t, w, cs) == tab' = [tab EXCEPT ![t] = w] /\ calls' = [calls EXCEPT ![t] = cs]

LEMMA TabStep ==
    ASSUME EditInv, NEW t \in Tab, NEW w, NEW cs,
           WindowOK(shadow, w, UserOf[t]), Extends(tab[t], w),
           \A c \in cs : c \in calls[t] \/ RequestOK(shadow, saved, c, w, UserOf[t]),
           Becomes(t, w, cs), script' = script, shadow' = shadow, saved' = saved, acts' \in 0..MaxActs,
           pushes' \in [Tab -> SUBSET Message], \A q \in Tab : pushes'[q] \subseteq pushes[q]
    PROVE  EditInv'
<1>1. DocumentsOK'
  BY DEF EditInv, DocumentsOK
<1>2. TabsOK'
  BY DEF Becomes, EditInv, TabsOK, WindowOK
<1>3. tab'[t] = w /\ calls'[t] = cs /\ \A q \in Tab \ {t} : tab'[q] = tab[q] /\ calls'[q] = calls[q]
  BY DEF Becomes, EditInv, TabsOK, CallsOK
<1>4. \A c \in cs : RequestOK(shadow, saved, c, w, UserOf[t])
  BY RequestKept DEF EditInv, CallsOK
<1>5. calls' \in [Tab -> SUBSET Request]
  BY <1>4 DEF Becomes, EditInv, CallsOK, RequestOK
<1>6. CallsOK'
  BY <1>3, <1>4, <1>5 DEF EditInv, CallsOK
<1>7. PushesOK'
  BY DEF EditInv, PushesOK
<1>. QED BY <1>1, <1>2, <1>6, <1>7 DEF EditInv

LEMMA AskStep ==
    ASSUME EditInv, AskInv, NEW t \in Tab, NEW w, NEW cs, AskOK(w, cs), Becomes(t, w, cs)
    PROVE  AskInv'
BY DEF Becomes, EditInv, TabsOK, CallsOK, AskInv

\* The requests that ask for a shadow stay the same, and what they answer.
LEMMA AskSame ==
    ASSUME NEW w, NEW cs, AskOK(w, cs), NEW v, NEW ds,
           v.promise = w.promise, v.broken = w.broken,
           \A c : \A s \in Script : Asks(c, s) => (c \in ds <=> c \in cs)
    PROVE  AskOK(v, ds)
BY DEF AskOK

\* One of them ends, with its promise.
LEMMA AskEnds ==
    ASSUME NEW w, NEW cs, AskOK(w, cs), NEW s \in Script, NEW c \in cs, Asks(c, s), NEW v,
           \/ v.promise[s] # Pending
           \/ w.broken,
           w.broken => v.broken,
           \A q \in Script \ {s} : v.promise[q] = w.promise[q]
    PROVE  AskOK(v, cs \ {c})
<1>1. \A d \in cs \ {c} : ~ Asks(d, s)
  BY DEF AskOK
<1>2. \A q \in Script : v.promise[q] = Pending => v.broken \/ \E d \in cs \ {c} : Asks(d, q)
  BY DEF AskOK, Asks
<1>. QED BY <1>1, <1>2 DEF AskOK

LEMMA AskSelects ==
    ASSUME NEW u, NEW w, WindowOK(shadow, w, u), NEW cs, AskOK(w, cs), NEW s \in Script,
           NEW z, NEW new, Selected(w, u, s, z, new)
    PROVE  AskOK(z, cs \cup new)
<1>. DEFINE c == Query(s, w.known[s])
<1>1. /\ z.broken = w.broken
      /\ \A q \in Script \ {s} : z.promise[q] = w.promise[q]
      /\ (w.promise[s] = Pending => z.promise[s] = Pending)
  BY SelectScriptOK
<1>5. \/ new = {} /\ (z.promise[s] = Pending => w.promise[s] = Pending \/ w.broken)
      \/ new = {c} /\ w.promise[s] = Unasked /\ z.promise[s] = Pending
  BY SelectScriptOK
<1>2. Asks(c, s) /\ \A q : Asks(c, q) => q = s
  BY DEF Asks, Call, Query
<1>. HIDE DEF c
<1>3. CASE new = {} /\ (z.promise[s] = Pending => w.promise[s] = Pending \/ w.broken)
  BY <1>1, <1>3 DEF AskOK
<1>4. CASE new = {c} /\ w.promise[s] = Unasked /\ z.promise[s] = Pending
  <2>1. \A d \in cs : ~ Asks(d, s)
    BY <1>4 DEF AskOK, Unasked, Pending
  <2>. QED BY <1>1, <1>2, <1>4, <2>1 DEF AskOK
<1>. QED BY <1>3, <1>4, <1>5

LEMMA AskNone == \A c, s : c.op \notin {"get", "post"} => ~ Asks(c, s)
BY DEF Asks

\* The request that saves the copy, or another text in its place.
Saves(c, w) ==
    \E then \in {"none", "publish"} :
        \/ c = SaveCopy(w, then)
        \/ \E code \in Text : c = [SaveCopy(w, then) EXCEPT !.code = code]

LEMMA SaveOK ==
    ASSUME NEW docs, NEW texts, NEW u, NEW w, WindowOK(docs, w, u), w.selected # 0, NEW c, Saves(c, w)
    PROVE  RequestOK(docs, texts, c, w, u) /\ c.op = "put" /\ c.stage = "sent"
<1>1. w \in Window /\ Mine(docs, w, u, w.selected) /\ w.script # NoScript
  BY DEF WindowOK
<1>2. w.models[w.selected].id \in Nat /\ w.copy \in Text
  BY <1>1, Models DEF Mine, Object, Window
<1>3. PICK then \in {"none", "publish"}, code \in Text :
        c = [op |-> "put", script |-> NoScript, id |-> w.models[w.selected].id, code |-> code,
             again |-> TRUE, then |-> then, stage |-> "sent"]
  BY <1>2 DEF Saves, SaveCopy, Call
<1>4. c \in Request
  BY <1>2, <1>3 DEF Request, Stages
<1>5. Owned(docs, c.id, u) /\ Holds(w, c.id)
  BY <1>1, <1>3 DEF Mine, Holds
<1>. QED BY <1>1, <1>3, <1>4, <1>5 DEF RequestOK

\* The request for a shadow.
LEMMA QueryOK ==
    ASSUME NEW docs, NEW texts, NEW u, NEW w \in Window, NEW v, v.script # NoScript,
           NEW s \in Script
    PROVE  RequestOK(docs, texts, Query(s, w.known[s]), v, u)
<1>. DEFINE c == Query(s, w.known[s])
<1>1. c = [op |-> "get", script |-> s, id |-> 0, code |-> w.known[s], again |-> FALSE,
           then |-> "none", stage |-> "sent"]
  BY DEF Query, Call
<1>2. w.known[s] \in Text /\ s # NoScript
  BY TextFacts DEF Window
<1>3. c \in Request
  BY <1>1, <1>2 DEF Request, Stages
<1>. HIDE DEF c
<1>4. RequestOK(docs, texts, c, v, u)
  BY <1>1, <1>2, <1>3 DEF RequestOK
<1>. QED BY <1>4 DEF c

LEMMA InTab ==
    ASSUME EditInv, NEW t \in Tab
    PROVE  /\ tab \in [Tab -> Window] /\ tab[t] \in Window /\ WindowOK(shadow, tab[t], UserOf[t])
           /\ calls \in [Tab -> SUBSET Request]
           /\ \A c \in calls[t] : c \in Request /\ RequestOK(shadow, saved, c, tab[t], UserOf[t])
           /\ pushes \in [Tab -> SUBSET Message]
           /\ acts \in 0..MaxActs
BY DEF EditInv, TabsOK, CallsOK, PushesOK, DocumentsOK

LEMMA TextsChanged ==
    ASSUME NEW docs, NEW u, NEW w, WindowOK(docs, w, u), NEW v \in Window,
           v.models = w.models, v.selected = w.selected, v.script = w.script, SamePromises(w, v)
    PROVE  WindowOK(docs, v, u) /\ Extends(w, v)
BY DEF WindowOK, Extends, Holds, Mine, SamePromises

\* The tab only sends a request to save the copy, or something in its place.
LEMMA SendsSave ==
    ASSUME EditInv, AskInv, NEW t \in Tab, NEW w, WindowOK(shadow, w, UserOf[t]), Extends(tab[t], w),
           SamePromises(tab[t], w), NEW cs, Becomes(t, w, cs), calls[t] \subseteq cs,
           \A c \in cs \ calls[t] : RequestOK(shadow, saved, c, w, UserOf[t]) /\ c.op \notin {"get", "post"},
           script' = script, shadow' = shadow, saved' = saved, pushes' = pushes, acts' \in 0..MaxActs
    PROVE  EditInv' /\ AskInv'
<1>1. EditInv'
  BY InTab, TabStep
<1>2. AskOK(tab[t], calls[t])
  BY DEF AskInv
<1>3. \A c : \A s \in Script : Asks(c, s) => (c \in cs <=> c \in calls[t])
  BY DEF Asks
<1>4. AskOK(w, cs)
  BY <1>2, <1>3, AskSame DEF SamePromises
<1>. QED BY <1>1, <1>4, AskStep

LEMMA TypeEdit == ASSUME EditInv, AskInv, NEW t \in Tab, Type(t) PROVE EditInv' /\ AskInv'
<1>. DEFINE x == [of |-> tab[t].editor.of, n |-> acts + 1]
            w == [tab[t] EXCEPT !.editor = x, !.copy = x]
<1>1. tab[t] \in Window /\ tab[t].editor \in Text /\ acts + 1 \in 0..MaxActs /\ acts' = acts + 1
  BY InTab DEF Type, Act, Window
<1>2. x \in Text /\ [tab[t].editor EXCEPT !.n = acts + 1] = x
  BY <1>1 DEF Text
<1>3. tab' = [tab EXCEPT ![t] = w]
  BY <1>1, <1>2, InTab DEF Type, Window
<1>. HIDE DEF x
<1>4. w \in Window /\ SamePromises(tab[t], w) /\ w.models = tab[t].models
      /\ w.selected = tab[t].selected /\ w.script = tab[t].script
  BY <1>1, <1>2 DEF Window, SamePromises
<1>. HIDE DEF w
<1>5. WindowOK(shadow, w, UserOf[t]) /\ Extends(tab[t], w)
  BY <1>4, InTab, TextsChanged
<1>6. Becomes(t, w, calls[t])
  BY <1>3, InTab DEF Becomes, Type
<1>. QED BY <1>1, <1>3, <1>4, <1>5, <1>6, SendsSave DEF Type

LEMMA AutosaveEdit == ASSUME EditInv, AskInv, NEW t \in Tab, Autosave(t) PROVE EditInv' /\ AskInv'
<1>. DEFINE w == [tab[t] EXCEPT !.ignore = TRUE]
            c == SaveCopy(tab[t], "none")
<1>1. tab' = [tab EXCEPT ![t] = w] /\ acts' \in 0..MaxActs
  BY InTab DEF Autosave
<1>2. w \in Window /\ SamePromises(tab[t], w) /\ w.models = tab[t].models
      /\ w.selected = tab[t].selected /\ w.script = tab[t].script
  BY InTab DEF Window, SamePromises
<1>. HIDE DEF w
<1>3. WindowOK(shadow, w, UserOf[t]) /\ Extends(tab[t], w)
  BY <1>2, InTab, TextsChanged
<1>4. RequestOK(shadow, saved, c, tab[t], UserOf[t]) /\ c.op = "put"
  <2>1. tab[t].selected # 0
    BY DEF Autosave, Changed
  <2>. QED BY <2>1, InTab, SaveOK DEF Saves
<1>. HIDE DEF c
<1>5. RequestOK(shadow, saved, c, w, UserOf[t])
  BY <1>3, <1>4, RequestKept
<1>6. Becomes(t, w, calls[t] \cup {c})
  BY <1>1 DEF Becomes, Autosave, Send, c
<1>. QED BY <1>1, <1>2, <1>3, <1>4, <1>5, <1>6, SendsSave DEF Autosave

\* The tab sends a request and stays as it is.
LEMMA OnlySends ==
    ASSUME EditInv, AskInv, NEW t \in Tab, NEW c, Send(t, {c}), Act, UNCHANGED <<script, shadow, tab, pushes, saved>>,
           RequestOK(shadow, saved, c, tab[t], UserOf[t]), c.op \notin {"get", "post"}
    PROVE  EditInv' /\ AskInv'
<1>1. Becomes(t, tab[t], calls[t] \cup {c}) /\ acts' \in 0..MaxActs
  BY InTab DEF Becomes, Send, Act
<1>2. SamePromises(tab[t], tab[t]) /\ Extends(tab[t], tab[t])
  BY DEF SamePromises, Extends
<1>. QED BY <1>1, <1>2, InTab, SendsSave

LEMMA PublishEdit == ASSUME EditInv, AskInv, NEW t \in Tab, Publish(t) PROVE EditInv' /\ AskInv'
<1>. DEFINE c == SaveCopy(tab[t], "publish")
<1>1. RequestOK(shadow, saved, c, tab[t], UserOf[t]) /\ c.op = "put"
  BY InTab, SaveOK DEF Publish, Different, Saves
<1>. HIDE DEF c
<1>2. Send(t, {c})
  BY DEF Publish, c
<1>. QED BY <1>1, <1>2, OnlySends DEF Publish

LEMMA RevertEdit == ASSUME EditInv, AskInv, NEW t \in Tab, Revert(t) PROVE EditInv' /\ AskInv'
<1>. DEFINE c == [SaveCopy(tab[t], "none") EXCEPT !.code = tab[t].known[tab[t].script]]
<1>1. RequestOK(shadow, saved, c, tab[t], UserOf[t]) /\ c.op = "put"
  <2>1. tab[t].selected # 0 /\ tab[t].script # NoScript
    BY InTab DEF Revert, Different, WindowOK
  <2>2. tab[t].known[tab[t].script] \in Text
    BY <2>1, InTab DEF Window
  <2>3. Saves(c, tab[t])
    BY <2>2 DEF Saves
  <2>. HIDE DEF c
  <2>. QED BY <2>1, <2>3, InTab, SaveOK
<1>. HIDE DEF c
<1>2. Send(t, {c})
  BY DEF Revert, c
<1>. QED BY <1>1, <1>2, OnlySends DEF Revert

LEMMA ChangeTypeEdit == ASSUME EditInv, AskInv, NEW t \in Tab, ChangeType(t) PROVE EditInv' /\ AskInv'
<1>. DEFINE c == Call("type", tab[t].script, 0, Blank, TRUE, "rebuild")
<1>1. c = [op |-> "type", script |-> tab[t].script, id |-> 0, code |-> Blank, again |-> TRUE,
           then |-> "rebuild", stage |-> "sent"]
  BY DEF Call
<1>2. tab[t].script \in Script /\ tab[t].script # NoScript
  BY InTab DEF ChangeType, Window
<1>. HIDE DEF c
<1>3. RequestOK(shadow, saved, c, tab[t], UserOf[t]) /\ c.op = "type"
  <2>1. c \in Request
    BY <1>1, <1>2, TextFacts DEF Request, Stages
  <2>. QED BY <1>1, <1>2, <2>1 DEF RequestOK
<1>4. Send(t, {c})
  BY DEF ChangeType, c
<1>. QED BY <1>3, <1>4, OnlySends DEF ChangeType

LEMMA PickEdit == ASSUME EditInv, AskInv, NEW t \in Tab, NEW s \in Script, Pick(t, s) PROVE EditInv' /\ AskInv'
<1>. DEFINE z == SelectScript(tab[t], UserOf[t], s)[1]
            new == SelectScript(tab[t], UserOf[t], s)[2]
            save == IF Changed(tab[t]) THEN {SaveCopy(tab[t], "none")} ELSE {}
            cs == calls[t] \cup (new \cup save)
<1>1. /\ Selected(tab[t], UserOf[t], s, z, new)
      /\ Becomes(t, z, cs) /\ acts' \in 0..MaxActs
      /\ script' = script /\ shadow' = shadow /\ saved' = saved /\ pushes' = pushes
  BY InTab DEF Becomes, Selected, Pick, Act, Send
<1>. HIDE DEF z, new
<1>2. /\ WindowOK(shadow, z, UserOf[t]) /\ Extends(tab[t], z) /\ z.script = s
      /\ new = {} \/ new = {Query(s, tab[t].known[s])}
  BY <1>1, InTab, SelectScriptOK
<1>3. \A c \in save : RequestOK(shadow, saved, c, z, UserOf[t]) /\ c.op = "put"
  <2>. SUFFICES ASSUME NEW c \in save PROVE RequestOK(shadow, saved, c, z, UserOf[t]) /\ c.op = "put"
    OBVIOUS
  <2>1. c = SaveCopy(tab[t], "none") /\ tab[t].selected # 0
    BY DEF Changed
  <2>2. RequestOK(shadow, saved, c, tab[t], UserOf[t]) /\ c.op = "put"
    BY <2>1, InTab, SaveOK DEF Saves
  <2>. QED BY <1>2, <2>2, RequestKept
<1>4. \A c \in new : RequestOK(shadow, saved, c, z, UserOf[t])
  <2>1. z.script # NoScript
    BY <1>2, TextFacts
  <2>2. RequestOK(shadow, saved, Query(s, tab[t].known[s]), z, UserOf[t])
    BY <2>1, InTab, QueryOK
  <2>. QED BY <1>2, <2>2
<1>. HIDE DEF save
<1>5. EditInv'
  BY <1>1, <1>2, <1>3, <1>4, InTab, TabStep
<1>6. AskOK(tab[t], calls[t])
  BY DEF AskInv
<1>7. AskOK(z, calls[t] \cup new)
  BY <1>1, <1>6, InTab, AskSelects
<1>8. \A c : \A q \in Script : Asks(c, q) => (c \in cs <=> c \in calls[t] \cup new)
  BY <1>3 DEF Asks
<1>9. AskOK(z, cs)
  BY <1>7, <1>8, AskSame
<1>. QED BY <1>1, <1>5, <1>9, AskStep

-----------------------------------------------------------------------------
(***************************************************************************)
(* Answers                                                                 *)
(***************************************************************************)
\* A request goes on as another one.
LEMMA AskReplaced ==
    ASSUME NEW w, NEW cs, AskOK(w, cs), NEW c \in cs, NEW d, d.script = c.script,
           c.op \in {"get", "post"}, d.op \in {"get", "post"}
    PROVE  AskOK(w, (cs \ {c}) \cup {d})
<1>. DEFINE ds == (cs \ {c}) \cup {d}
<1>1. \A s : Asks(d, s) <=> Asks(c, s)
  BY DEF Asks
<1>2. \A s \in Script : w.promise[s] = Pending => w.broken \/ \E e \in ds : Asks(e, s)
  BY <1>1 DEF AskOK
<1>3. \A e \in ds : \A s \in Script : Asks(e, s) => w.promise[s] = Pending
  BY <1>1 DEF AskOK
<1>4. ASSUME NEW e \in ds, NEW g \in ds, NEW s \in Script, Asks(e, s), Asks(g, s) PROVE e = g
  BY <1>1, <1>4 DEF AskOK
<1>. QED BY <1>2, <1>3, <1>4 DEF AskOK

Receiving(t, c) ==
    /\ c \in calls[t] /\ c.stage # "sent"
    /\ script' = script /\ shadow' = shadow /\ saved' = saved /\ acts' = acts /\ pushes' = pushes

LEMMA ReceiveStep ==
    ASSUME EditInv, AskInv, NEW t \in Tab, NEW c, Receiving(t, c),
           NEW w, NEW cs, Becomes(t, w, cs), WindowOK(shadow, w, UserOf[t]), Extends(tab[t], w),
           \A d \in cs : d \in calls[t] \/ RequestOK(shadow, saved, d, w, UserOf[t]),
           AskOK(w, cs)
    PROVE  EditInv' /\ AskInv'
<1>1. acts' \in 0..MaxActs /\ pushes' \in [Tab -> SUBSET Message] /\ \A q \in Tab : pushes'[q] \subseteq pushes[q]
  BY InTab DEF Receiving
<1>2. EditInv'
  BY <1>1, TabStep DEF Receiving
<1>. QED BY <1>2, AskStep

\* The answer to a request for a shadow ends it.
LEMMA AskAnswered ==
    ASSUME EditInv, AskInv, NEW t \in Tab, NEW c, Receiving(t, c), c.op \in {"get", "post"},
           NEW w, Receive(t, c, w, {}), WindowOK(shadow, w, UserOf[t]), Extends(tab[t], w),
           w.promise[c.script] # Pending \/ tab[t].broken, tab[t].broken => w.broken,
           Others(tab[t], w, c.script)
    PROVE  EditInv' /\ AskInv'
<1>1. Becomes(t, w, calls[t] \ {c})
  BY DEF Receive, Becomes
<1>2. c \in calls[t] /\ c.script \in Script /\ Asks(c, c.script)
  BY InTab, TextFacts DEF Receiving, RequestOK, Request, Asks
<1>3. AskOK(tab[t], calls[t])
  BY DEF AskInv
<1>4. AskOK(w, calls[t] \ {c})
  BY <1>2, <1>3, AskEnds DEF Others
<1>. QED BY <1>1, <1>4, ReceiveStep

\* The shadow of the answer c is added to the store of w, which becomes v.
Adds(w, c, v) == v = AddModel(w, c.id, c.code)

LEMMA Added ==
    ASSUME EditInv, NEW t \in Tab, NEW c, c \in calls[t], c.op \in {"get", "post"}, c.stage = "ok",
           NEW w, Adds(tab[t], c, w)
    PROVE  /\ WindowOK(shadow, w, UserOf[t]) /\ Extends(tab[t], w) /\ SamePromises(tab[t], w)
           /\ w.script # NoScript /\ c.script \in Script
           /\ ~ w.broken => /\ Mine(shadow, w, UserOf[t], Len(w.models))
                            /\ Mine(shadow, w, UserOf[t], First(w, c.id))
<1>1. /\ c.id \in DOMAIN shadow \cap Nat /\ c.code \in Text /\ c.script \in Script
      /\ Owned(shadow, c.id, UserOf[t]) /\ tab[t].script # NoScript
  BY InTab, TextFacts DEF RequestOK, Request, Owned
<1>2. /\ WindowOK(shadow, w, UserOf[t]) /\ Extends(tab[t], w) /\ SamePromises(tab[t], w)
      /\ w.script = tab[t].script
      /\ ~ tab[t].broken => Len(w.models) \in DOMAIN w.models /\ w.models[Len(w.models)].id = c.id
  BY <1>1, InTab, AddModelOK DEF Adds
<1>3. ASSUME ~ w.broken
      PROVE  Mine(shadow, w, UserOf[t], Len(w.models)) /\ Mine(shadow, w, UserOf[t], First(w, c.id))
  <2>1. Len(w.models) \in DOMAIN w.models /\ w.models[Len(w.models)].id = c.id
    BY <1>2, <1>3 DEF SamePromises
  <2>2. First(w, c.id) \in DOMAIN w.models /\ w.models[First(w, c.id)].id = c.id
    <3>1. Holds(w, c.id) /\ w \in Window
      BY <1>2, <2>1 DEF Holds, WindowOK
    <3>. QED BY <3>1, FirstFound
  <2>. QED BY <1>1, <2>1, <2>2 DEF Mine
<1>. QED BY <1>1, <1>2, <1>3

\* It is added and selected where it is found.
LEMMA AnswerFound ==
    ASSUME EditInv, AskInv, NEW t \in Tab, NEW c, Receiving(t, c), c.op \in {"get", "post"}, c.stage = "ok",
           NEW w, Adds(tab[t], c, w), ~ w.broken, NEW p, Mine(shadow, w, UserOf[t], p),
           NEW x, Resolves(w, c.script, p, x), Receive(t, c, x, {})
    PROVE  EditInv' /\ AskInv'
<1>. c \in calls[t]
  BY DEF Receiving
<1>1. /\ WindowOK(shadow, w, UserOf[t]) /\ Extends(tab[t], w) /\ SamePromises(tab[t], w)
      /\ w.script # NoScript /\ c.script \in Script
  BY Added
<1>2. /\ WindowOK(shadow, x, UserOf[t]) /\ Extends(w, x) /\ x.broken = w.broken
      /\ x.promise[c.script] # Pending /\ Others(w, x, c.script)
  BY <1>1, ResolveOK
<1>3. Extends(tab[t], x)
  BY <1>1, <1>2 DEF Extends
<1>4. Others(tab[t], x, c.script) /\ (tab[t].broken => x.broken)
  BY <1>1, <1>2 DEF Others, SamePromises
<1>. QED BY <1>2, <1>3, <1>4, AskAnswered

LEMMA AnswerRejected ==
    ASSUME EditInv, AskInv, NEW t \in Tab, NEW c, Receiving(t, c), c.op \in {"get", "post"},
           Receive(t, c, Reject(tab[t], c.script), {})
    PROVE  EditInv' /\ AskInv'
<1>1. c.script \in Script
  BY InTab, TextFacts DEF Receiving, RequestOK, Request
<1>2. PICK x : Rejects(tab[t], c.script, x) /\ Receive(t, c, x, {})
  BY DEF Rejects
<1>3. WindowOK(shadow, tab[t], UserOf[t])
  BY InTab
<1>4. /\ WindowOK(shadow, x, UserOf[t]) /\ Extends(tab[t], x) /\ (tab[t].broken => x.broken)
      /\ x.promise[c.script] # Pending /\ Others(tab[t], x, c.script)
  BY <1>1, <1>2, <1>3, RejectOK
<1>. QED BY <1>2, <1>4, AskAnswered

LEMMA ReceiveGetEdit ==
    ASSUME EditInv, AskInv, NEW t \in Tab, NEW c, Receiving(t, c), ReceiveGet(t, c)
    PROVE  EditInv' /\ AskInv'
<1>1. c.op = "get" /\ c \in calls[t]
  BY DEF ReceiveGet, Receiving
<1>2. PICK w : Adds(tab[t], c, w) /\ w = AddModel(tab[t], c.id, c.code)
  BY DEF Adds
<1>3. CASE c.stage = "ok" /\ w.broken
  <2>1. Receive(t, c, w, {})
    BY <1>2, <1>3 DEF ReceiveGet
  <2>2. WindowOK(shadow, w, UserOf[t]) /\ Extends(tab[t], w) /\ SamePromises(tab[t], w)
    BY <1>1, <1>2, <1>3, Added
  <2>3. tab[t].broken /\ w.broken /\ Others(tab[t], w, c.script)
    BY <1>3, <2>2 DEF SamePromises, Others
  <2>. QED BY <1>1, <2>1, <2>2, <2>3, AskAnswered
<1>4. CASE c.stage = "ok" /\ ~ w.broken
  <2>1. Receive(t, c, Resolve(w, c.script, Len(w.models)), {})
    BY <1>2, <1>4 DEF ReceiveGet
  <2>2. PICK x : Resolves(w, c.script, Len(w.models), x) /\ Receive(t, c, x, {})
    BY <2>1 DEF Resolves
  <2>3. Mine(shadow, w, UserOf[t], Len(w.models))
    BY <1>1, <1>2, <1>4, Added
  <2>. QED BY <1>1, <1>2, <1>4, <2>2, <2>3, AnswerFound
<1>5. CASE c.stage = "none"
  <2>. DEFINE d == [c EXCEPT !.op = "post", !.stage = "sent"]
  <2>1. Becomes(t, tab[t], (calls[t] \ {c}) \cup {d})
    BY <1>5 DEF ReceiveGet, Receive, Becomes
  <2>2. c \in Request /\ RequestOK(shadow, saved, c, tab[t], UserOf[t])
    BY <1>1, InTab
  <2>3. d \in Request /\ d.op = "post" /\ d.stage = "sent" /\ d.script = c.script
    BY <2>2 DEF Request, Stages
  <2>. HIDE DEF d
  <2>4. RequestOK(shadow, saved, d, tab[t], UserOf[t])
    BY <1>1, <2>2, <2>3 DEF RequestOK
  <2>5. AskOK(tab[t], (calls[t] \ {c}) \cup {d})
    <3>1. AskOK(tab[t], calls[t])
      BY DEF AskInv
    <3>. QED BY <1>1, <2>3, <3>1, AskReplaced
  <2>6. Extends(tab[t], tab[t])
    BY DEF Extends
  <2>. QED BY <2>1, <2>4, <2>5, <2>6, InTab, ReceiveStep
<1>6. CASE c.stage = "failed"
  <2>1. Receive(t, c, Reject(tab[t], c.script), {})
    BY <1>6 DEF ReceiveGet
  <2>. QED BY <1>1, <2>1, AnswerRejected
<1>. QED BY <1>2, <1>3, <1>4, <1>5, <1>6 DEF ReceiveGet

LEMMA ReceiveCreateEdit ==
    ASSUME EditInv, AskInv, NEW t \in Tab, NEW c, Receiving(t, c), ReceiveCreate(t, c)
    PROVE  EditInv' /\ AskInv'
<1>1. c.op = "post" /\ c \in calls[t]
  BY DEF ReceiveCreate, Receiving
<1>2. PICK w : Adds(tab[t], c, w) /\ w = AddModel(tab[t], c.id, c.code)
  BY DEF Adds
<1>3. CASE c.stage = "ok" /\ ~ w.broken
  <2>1. Receive(t, c, Resolve(w, c.script, First(w, c.id)), {})
    BY <1>2, <1>3 DEF ReceiveCreate
  <2>2. PICK x : Resolves(w, c.script, First(w, c.id), x) /\ Receive(t, c, x, {})
    BY <2>1 DEF Resolves
  <2>3. Mine(shadow, w, UserOf[t], First(w, c.id))
    BY <1>1, <1>2, <1>3, Added
  <2>. QED BY <1>1, <1>2, <1>3, <2>2, <2>3, AnswerFound
<1>4. CASE ~ (c.stage = "ok" /\ ~ w.broken)
  <2>1. Receive(t, c, Reject(tab[t], c.script), {})
    BY <1>2, <1>4 DEF ReceiveCreate
  <2>. QED BY <1>1, <2>1, AnswerRejected
<1>. QED BY <1>3, <1>4

\* The answer to a request that asks for no shadow.
LEMMA OtherAnswered ==
    ASSUME EditInv, AskInv, NEW t \in Tab, NEW c, Receiving(t, c), c.op \notin {"get", "post"},
           NEW w, NEW new, Receive(t, c, w, new), WindowOK(shadow, w, UserOf[t]), Extends(tab[t], w),
           \A d \in new : RequestOK(shadow, saved, d, w, UserOf[t]),
           AskOK(w, calls[t] \cup new)
    PROVE  EditInv' /\ AskInv'
<1>. DEFINE cs == (calls[t] \ {c}) \cup new
<1>1. Becomes(t, w, cs)
  BY DEF Receive, Becomes
<1>2. \A e : \A s \in Script : Asks(e, s) => (e \in cs <=> e \in calls[t] \cup new)
  BY DEF Asks
<1>3. AskOK(w, cs)
  BY <1>2, AskSame
<1>. HIDE DEF cs
<1>4. \A d \in cs : d \in calls[t] \/ RequestOK(shadow, saved, d, w, UserOf[t])
  BY DEF cs
<1>. QED BY <1>1, <1>3, <1>4, ReceiveStep

ScriptCall(w) == Call("script", w.script, 0, w.copy, TRUE, "none")

\* The store of w, updated with what was saved, is v.
Updated(w, id, code, v) == v = Update(w, id, code)

\* Mine and Update: the saved shadow is found again.
LEMMA UpdatedFound ==
    ASSUME NEW docs, NEW u, NEW w, WindowOK(docs, w, u), NEW id, NEW code \in Text,
           Owned(docs, id, u), Holds(w, id), NEW v, Updated(w, id, code, v)
    PROVE  /\ WindowOK(docs, v, u) /\ Extends(w, v) /\ SamePromises(w, v) /\ v.script = w.script
           /\ Mine(docs, v, u, First(v, id)) /\ v.models[First(v, id)].code = code
<1>1. v = Update(w, id, code)
  BY DEF Updated
<1>2. /\ WindowOK(docs, v, u) /\ Extends(w, v) /\ SamePromises(w, v) /\ v.script = w.script
      /\ First(v, id) \in DOMAIN v.models
      /\ v.models[First(v, id)].id = id /\ v.models[First(v, id)].code = code
  BY <1>1, UpdateOK
<1>. QED BY <1>2 DEF Mine

\* The object p of v is selected, which makes x.
Shows(v, p, x) == x = SelectShadow(v, p)

LEMMA ReceiveSavedEdit ==
    ASSUME EditInv, AskInv, NEW t \in Tab, NEW c, Receiving(t, c), ReceiveSaved(t, c)
    PROVE  EditInv' /\ AskInv'
<1>1. c.op = "put" /\ c \in calls[t]
  BY DEF ReceiveSaved, Receiving
<1>2. /\ c \in Request /\ c.code \in Text /\ Owned(shadow, c.id, UserOf[t]) /\ Holds(tab[t], c.id)
      /\ (c.stage = "ok" => c.code \in saved) /\ tab[t].script # NoScript
  BY <1>1, InTab DEF RequestOK, Request
<1>3. AskOK(tab[t], calls[t])
  BY DEF AskInv
<1>4. CASE c.stage = "ok"
  <2>1. PICK v : Updated(tab[t], c.id, c.code, v) /\ v = Update(tab[t], c.id, c.code)
    BY DEF Updated
  <2>2. PICK w : Shows(v, First(v, c.id), w) /\ w = SelectShadow(v, First(v, c.id))
    BY DEF Shows
  <2>3. Receive(t, c, w, AfterSave(w, c))
    BY <1>4, <2>1, <2>2 DEF ReceiveSaved
  <2>4. /\ WindowOK(shadow, v, UserOf[t]) /\ Extends(tab[t], v) /\ SamePromises(tab[t], v)
        /\ v.script = tab[t].script
        /\ Mine(shadow, v, UserOf[t], First(v, c.id)) /\ v.models[First(v, c.id)].code = c.code
    BY <1>2, <2>1, InTab, UpdatedFound
  <2>5. /\ WindowOK(shadow, w, UserOf[t]) /\ Extends(v, w) /\ SamePromises(v, w) /\ w.script = v.script
        /\ w.copy = c.code
    BY <1>2, <2>2, <2>4, SelectShadowOK
  <2>6. Extends(tab[t], w)
    BY <2>4, <2>5 DEF Extends
  <2>7. AskOK(w, calls[t] \cup AfterSave(w, c))
    <3>1. \A d : \A s \in Script : Asks(d, s) => (d \in calls[t] \cup AfterSave(w, c) <=> d \in calls[t])
      BY DEF Asks, AfterSave, Call
    <3>2. w.promise = tab[t].promise /\ w.broken = tab[t].broken
      BY <2>4, <2>5 DEF SamePromises
    <3>. QED BY <1>3, <3>1, <3>2, AskSame
  <2>8. \A d \in AfterSave(w, c) : RequestOK(shadow, saved, d, w, UserOf[t])
    <3>. DEFINE d == ScriptCall(w)
    <3>1. w.script \in Script /\ w.script # NoScript /\ w.copy \in Text /\ w.copy \in saved
      BY <1>2, <1>4, <2>4, <2>5 DEF WindowOK, Window
    <3>2. d = [op |-> "script", script |-> w.script, id |-> 0, code |-> w.copy, again |-> TRUE,
               then |-> "none", stage |-> "sent"]
      BY DEF ScriptCall, Call
    <3>3. d \in Request
      BY <3>1, <3>2 DEF Request, Stages
    <3>. HIDE DEF d
    <3>4. RequestOK(shadow, saved, d, w, UserOf[t])
      BY <3>1, <3>2, <3>3 DEF RequestOK
    <3>. QED BY <3>4 DEF AfterSave, ScriptCall, d
  <2>. QED BY <1>1, <2>3, <2>5, <2>6, <2>7, <2>8, OtherAnswered
<1>5. CASE c.stage # "ok"
  <2>1. AfterSave(tab[t], c) = {} /\ Receive(t, c, tab[t], {})
    BY <1>5 DEF AfterSave, ReceiveSaved
  <2>2. Extends(tab[t], tab[t]) /\ calls[t] \cup {} = calls[t]
    BY DEF Extends
  <2>. QED BY <1>1, <1>3, <2>1, <2>2, InTab, OtherAnswered
<1>. QED BY <1>4, <1>5

LEMMA ReceiveScriptEdit ==
    ASSUME EditInv, AskInv, NEW t \in Tab, NEW c, Receiving(t, c), ReceiveScript(t, c)
    PROVE  EditInv' /\ AskInv'
<1>1. c.op \in {"script", "type"} /\ c \in calls[t]
  BY DEF ReceiveScript, Receiving
<1>2. c.script \in Script /\ c.code \in Text
  BY <1>1, InTab, TextFacts DEF RequestOK, Request
<1>3. AskOK(tab[t], calls[t])
  BY DEF AskInv
<1>4. CASE c.stage = "ok"
  <2>. DEFINE v == [tab[t] EXCEPT !.known[c.script] = c.code]
              z == SelectScript(v, UserOf[t], c.script)[1]
              new == SelectScript(v, UserOf[t], c.script)[2]
              w == IF c.then = "rebuild" THEN [z EXCEPT !.editor = z.copy, !.ignore = FALSE] ELSE z
  <2>1. Receive(t, c, w, new) /\ Selected(v, UserOf[t], c.script, z, new)
    BY <1>4 DEF ReceiveScript, Selected
  <2>2. /\ v \in Window /\ SamePromises(tab[t], v) /\ v.models = tab[t].models
        /\ v.selected = tab[t].selected /\ v.script = tab[t].script
    BY <1>2, InTab DEF Window, SamePromises
  <2>. HIDE DEF v, z, new
  <2>3. WindowOK(shadow, v, UserOf[t]) /\ Extends(tab[t], v)
    BY <2>2, InTab, TextsChanged
  <2>4. AskOK(v, calls[t])
    BY <1>3, <2>2, AskSame DEF SamePromises
  <2>5. AskOK(z, calls[t] \cup new)
    BY <1>2, <2>1, <2>3, <2>4, AskSelects
  <2>6. /\ WindowOK(shadow, z, UserOf[t]) /\ Extends(v, z) /\ z.script = c.script
        /\ new = {} \/ new = {Query(c.script, v.known[c.script])}
    BY <1>2, <2>1, <2>3, SelectScriptOK
  <2>7. z \in Window
    BY <2>6 DEF WindowOK
  <2>8. /\ w \in Window /\ SamePromises(z, w) /\ w.models = z.models
        /\ w.selected = z.selected /\ w.script = z.script
    BY <2>7 DEF Window, SamePromises
  <2>. HIDE DEF w
  <2>9. WindowOK(shadow, w, UserOf[t]) /\ Extends(z, w)
    BY <2>6, <2>8, TextsChanged
  <2>10. Extends(tab[t], w)
    BY <2>3, <2>6, <2>9 DEF Extends
  <2>11. AskOK(w, calls[t] \cup new)
    BY <2>5, <2>8, AskSame DEF SamePromises
  <2>12. \A d \in new : RequestOK(shadow, saved, d, w, UserOf[t])
    <3>1. w.script # NoScript
      BY <1>2, <2>6, <2>8, TextFacts
    <3>2. RequestOK(shadow, saved, Query(c.script, v.known[c.script]), w, UserOf[t])
      BY <1>2, <2>2, <3>1, QueryOK
    <3>. QED BY <2>6, <3>2
  <2>. QED BY <1>1, <2>1, <2>9, <2>10, <2>11, <2>12, OtherAnswered
<1>5. CASE c.stage # "ok"
  <2>1. Receive(t, c, tab[t], {})
    BY <1>5 DEF ReceiveScript
  <2>2. Extends(tab[t], tab[t]) /\ calls[t] \cup {} = calls[t]
    BY DEF Extends
  <2>. QED BY <1>1, <1>3, <2>1, <2>2, InTab, OtherAnswered
<1>. QED BY <1>4, <1>5

LEMMA ReceiveAnswerEdit ==
    ASSUME EditInv, AskInv, NEW t \in Tab, NEW c \in calls[t], ReceiveAnswer(t, c)
    PROVE  EditInv' /\ AskInv'
<1>1. Receiving(t, c)
  BY DEF Receiving, ReceiveAnswer
<1>. QED BY <1>1, ReceiveGetEdit, ReceiveCreateEdit, ReceiveSavedEdit, ReceiveScriptEdit DEF ReceiveAnswer

LEMMA ReceivePushEdit == ASSUME EditInv, AskInv, NEW t \in Tab, ReceivePush(t) PROVE EditInv' /\ AskInv'
<1>1. PICK p \in pushes[t] :
        /\ pushes' = [pushes EXCEPT ![t] = @ \ {p}]
        /\ tab' = [tab EXCEPT ![t] =
                CASE p.kind = "create" -> AddModel(@, p.id, p.code)
                  [] p.kind = "update" -> Update(@, p.id, p.code)
                  [] p.kind = "script" -> [@ EXCEPT !.known[p.script] = p.code]]
        /\ UNCHANGED <<script, shadow, acts, calls, saved>>
  BY DEF ReceivePush
<1>2. /\ p \in Message /\ (p.kind \in {"create", "update"} => p.id \in DOMAIN shadow)
      /\ (p.kind = "script" => p.script # NoScript)
  BY DEF EditInv, PushesOK
<1>3. p.kind \in {"create", "update", "script"} /\ p.id \in Nat /\ p.code \in Text
  BY <1>2 DEF Message
<1>4. PICK w : /\ tab' = [tab EXCEPT ![t] = w]
               /\ \/ p.kind = "create" /\ w = AddModel(tab[t], p.id, p.code)
                  \/ p.kind = "update" /\ w = Update(tab[t], p.id, p.code)
                  \/ p.kind = "script" /\ w = [tab[t] EXCEPT !.known[p.script] = p.code]
  BY <1>1, <1>3, InTab
<1>5. WindowOK(shadow, w, UserOf[t]) /\ Extends(tab[t], w) /\ SamePromises(tab[t], w)
  <2>1. CASE p.kind = "create" /\ w = AddModel(tab[t], p.id, p.code)
    <3>1. p.id \in DOMAIN shadow \cap Nat
      BY <1>2, <1>3, <2>1
    <3>. QED BY <1>3, <2>1, <3>1, InTab, AddModelOK
  <2>2. CASE p.kind = "update" /\ w = Update(tab[t], p.id, p.code)
    BY <1>3, <2>2, InTab, UpdateOK
  <2>3. CASE p.kind = "script" /\ w = [tab[t] EXCEPT !.known[p.script] = p.code]
    <3>1. p.script \in Script
      BY <1>2, <2>3 DEF Message
    <3>2. /\ w \in Window /\ SamePromises(tab[t], w) /\ w.models = tab[t].models
          /\ w.selected = tab[t].selected /\ w.script = tab[t].script
      BY <1>3, <2>3, <3>1, InTab DEF Window, SamePromises
    <3>. QED BY <3>2, InTab, TextsChanged
  <2>. QED BY <1>4, <2>1, <2>2, <2>3
<1>6. Becomes(t, w, calls[t])
  BY <1>1, <1>4, InTab DEF Becomes
<1>7. pushes' \in [Tab -> SUBSET Message] /\ \A q \in Tab : pushes'[q] \subseteq pushes[q]
  BY <1>1, InTab
<1>8. acts' \in 0..MaxActs
  BY <1>1, InTab
<1>9. EditInv'
  BY <1>1, <1>5, <1>6, <1>7, <1>8, TabStep
<1>10. AskOK(tab[t], calls[t])
  BY DEF AskInv
<1>11. AskOK(w, calls[t])
  BY <1>5, <1>10, AskSame DEF SamePromises
<1>. QED BY <1>6, <1>9, <1>11, AskStep

-----------------------------------------------------------------------------
(***************************************************************************)
(* The server                                                              *)
(***************************************************************************)
\* The documents e are d and new ones: nobody's becomes another's.
Grows(d, e) == DOMAIN d \subseteq DOMAIN e /\ \A i \in DOMAIN d : e[i].user = d[i].user

LEMMA WindowGrows ==
    ASSUME NEW d, NEW e, Grows(d, e), NEW w, NEW u, WindowOK(d, w, u)
    PROVE  WindowOK(e, w, u)
<1>1. \A id : Owned(d, id, u) => Owned(e, id, u)
  BY DEF Grows, Owned
<1>2. \A p : Mine(d, w, u, p) => Mine(e, w, u, p)
  BY <1>1 DEF Mine
<1>3. \A i \in DOMAIN w.models : w.models[i].id \in DOMAIN e
  BY DEF WindowOK, Grows
<1>. QED BY <1>2, <1>3 DEF WindowOK

LEMMA RequestGrows ==
    ASSUME NEW d, NEW e, Grows(d, e), NEW texts, NEW more, texts \subseteq more,
           NEW c, NEW w, NEW u, RequestOK(d, texts, c, w, u)
    PROVE  RequestOK(e, more, c, w, u)
<1>1. \A id : Owned(d, id, u) => Owned(e, id, u)
  BY DEF Grows, Owned
<1>. QED BY <1>1 DEF RequestOK

\* The server answers the request c of t, which becomes r.
Serving(t, c) ==
    c \in calls[t] /\ c.stage = "sent" /\ acts' = acts /\ tab' = tab

LEMMA ServeStep ==
    ASSUME EditInv, AskInv, NEW t \in Tab, NEW c, Serving(t, c), NEW r, Answer(t, c, r),
           DocumentsOK', PushesOK', Grows(shadow, shadow'), saved \subseteq saved',
           RequestOK(shadow', saved', r, tab[t], UserOf[t]), r.op = c.op, r.script = c.script
    PROVE  EditInv' /\ AskInv'
<1>. DEFINE cs == (calls[t] \ {c}) \cup {r}
<1>1. calls' = [calls EXCEPT ![t] = cs] /\ c \in calls[t] /\ tab' = tab
  BY DEF Answer, Serving
<1>2. TabsOK'
  BY <1>1, WindowGrows DEF EditInv, TabsOK
<1>3. calls' \in [Tab -> SUBSET Request] /\ calls'[t] = cs /\ \A q \in Tab \ {t} : calls'[q] = calls[q]
  <2>1. r \in Request
    BY DEF RequestOK
  <2>. QED BY <1>1, <2>1, InTab
<1>4. \A q \in Tab : \A d \in calls[q] : RequestOK(shadow', saved', d, tab[q], UserOf[q])
  BY InTab, RequestGrows
<1>5. \A q \in Tab : \A d \in calls'[q] : RequestOK(shadow', saved', d, tab[q], UserOf[q])
  BY <1>3, <1>4
<1>6. CallsOK'
  BY <1>1, <1>3, <1>5 DEF CallsOK
<1>7. AskOK(tab[t], calls[t])
  BY DEF AskInv
<1>8. AskOK(tab[t], cs)
  <2>1. CASE c.op \in {"get", "post"}
    BY <1>1, <1>7, <2>1, AskReplaced
  <2>2. CASE c.op \notin {"get", "post"}
    <3>1. \A d : \A s \in Script : Asks(d, s) => (d \in cs <=> d \in calls[t])
      BY <2>2 DEF Asks
    <3>. QED BY <1>7, <3>1, AskSame
  <2>. QED BY <2>1, <2>2
<1>9. AskInv'
  BY <1>1, <1>3, <1>8 DEF AskInv
<1>. QED BY <1>2, <1>6, <1>9 DEF EditInv

\* Only the request changes.
LEMMA OnlyAnswers ==
    ASSUME EditInv, AskInv, NEW t \in Tab, NEW c, Serving(t, c), NEW r, Answer(t, c, r),
           UNCHANGED <<script, shadow, pushes, saved>>,
           RequestOK(shadow, saved, r, tab[t], UserOf[t]), r.op = c.op, r.script = c.script
    PROVE  EditInv' /\ AskInv'
<1>1. DocumentsOK' /\ PushesOK'
  BY DEF EditInv, DocumentsOK, PushesOK, Serving
<1>2. Grows(shadow, shadow')
  BY DEF Grows
<1>. QED BY <1>1, <1>2, ServeStep

\* The request with its stage.
LEMMA Staged ==
    ASSUME EditInv, NEW t \in Tab, NEW c \in calls[t], NEW stage \in Stages
    PROVE  LET r == [c EXCEPT !.stage = stage]
           IN  /\ r \in Request /\ r.op = c.op /\ r.script = c.script /\ r.id = c.id /\ r.code = c.code
               /\ r.stage = stage
BY InTab DEF Request

LEMMA Pushed ==
    ASSUME EditInv, NEW kind, NEW s, NEW id, NEW code, Push(kind, s, id, code),
           [kind |-> kind, script |-> s, id |-> id, code |-> code] \in Message,
           kind \in {"create", "update"} => id \in DOMAIN shadow',
           kind = "script" => s # NoScript, DOMAIN shadow \subseteq DOMAIN shadow'
    PROVE  PushesOK'
<1>. DEFINE m == [kind |-> kind, script |-> s, id |-> id, code |-> code]
<1>1. m \in Message /\ m.kind = kind /\ m.script = s /\ m.id = id
  OBVIOUS
<1>2. pushes' = [t \in Tab |-> pushes[t] \cup {m}]
  BY DEF Push
<1>. HIDE DEF m
<1>3. pushes' \in [Tab -> SUBSET Message]
  BY <1>1, <1>2, InTab
<1>4. \A t \in Tab : \A p \in pushes[t] :
        (p.kind \in {"create", "update"} => p.id \in DOMAIN shadow') /\ (p.kind = "script" => p.script # NoScript)
  BY DEF EditInv, PushesOK
<1>. QED BY <1>1, <1>2, <1>3, <1>4 DEF PushesOK

LEMMA Documents ==
    ASSUME EditInv
    PROVE  /\ shadow \in Seq(Document) /\ Len(shadow) \in Nat /\ DOMAIN shadow = 1..Len(shadow)
           /\ \A i \in DOMAIN shadow : shadow[i] \in Document
<1>1. shadow \in Seq(Document)
  BY DEF EditInv, DocumentsOK
<1>2. Len(shadow) \in Nat /\ DOMAIN shadow = 1..Len(shadow)
  BY <1>1, LenProperties
<1>. QED BY <1>1, <1>2, ElementOfSeq

LEMMA ServeGetEdit ==
    ASSUME EditInv, AskInv, NEW t \in Tab, NEW c, Serving(t, c), ServeGet(t, c)
    PROVE  EditInv' /\ AskInv'
<1>. DEFINE own == {i \in DOMAIN shadow : shadow[i].user = UserOf[t] /\ shadow[i].script = c.script}
            id  == CHOOSE i \in own : TRUE
            none == [c EXCEPT !.stage = "none"]
            r == [c EXCEPT !.stage = "ok", !.id = id, !.code = shadow[id].code]
<1>1. c \in calls[t] /\ c.op = "get" /\ UNCHANGED <<script, shadow, pushes, saved>>
  BY DEF Serving, ServeGet
<1>2. RequestOK(shadow, saved, c, tab[t], UserOf[t]) /\ c \in Request
  BY <1>1, InTab
<1>3. CASE own = {}
  <2>1. Answer(t, c, none)
    BY <1>3 DEF ServeGet
  <2>2. none \in Request /\ none.op = c.op /\ none.script = c.script /\ none.stage = "none"
    BY <1>1, Staged DEF Stages
  <2>. HIDE DEF none
  <2>3. RequestOK(shadow, saved, none, tab[t], UserOf[t])
    BY <1>1, <1>2, <2>2 DEF RequestOK
  <2>. QED BY <1>1, <2>1, <2>2, <2>3, OnlyAnswers
<1>4. CASE own # {}
  <2>1. Answer(t, c, r)
    BY <1>4 DEF ServeGet
  <2>2. id \in DOMAIN shadow /\ shadow[id].user = UserOf[t]
    BY <1>4
  <2>. HIDE DEF id
  <2>3. id \in Nat /\ shadow[id].code \in Text
    BY <2>2, Documents DEF Document
  <2>4. r \in Request /\ r.op = c.op /\ r.script = c.script /\ r.stage = "ok" /\ r.id = id
    BY <1>2, <2>3 DEF Request, Stages
  <2>. HIDE DEF r
  <2>5. RequestOK(shadow, saved, r, tab[t], UserOf[t])
    BY <1>1, <1>2, <2>2, <2>4 DEF RequestOK, Owned
  <2>. QED BY <1>1, <2>1, <2>4, <2>5, OnlyAnswers
<1>. QED BY <1>3, <1>4

LEMMA ServeCreateEdit ==
    ASSUME EditInv, AskInv, NEW t \in Tab, NEW c, Serving(t, c), ServeCreate(t, c)
    PROVE  EditInv' /\ AskInv'
<1>. DEFINE id == Len(shadow) + 1
            new == [user |-> UserOf[t], script |-> c.script, code |-> c.code]
            r == [c EXCEPT !.stage = "ok", !.id = id]
<1>1. /\ c \in calls[t] /\ c.op = "post" /\ script' = script
      /\ shadow' = Append(shadow, new) /\ saved' = saved \cup {c.code}
      /\ Push("create", c.script, id, c.code) /\ Answer(t, c, r) /\ acts' = acts
  BY DEF Serving, ServeCreate
<1>2. RequestOK(shadow, saved, c, tab[t], UserOf[t]) /\ c \in Request
  BY <1>1, InTab
<1>3. c.script \in Script /\ c.code \in Text /\ UserOf[t] \in User
  BY <1>1, <1>2, TextFacts DEF RequestOK, Request
<1>4. new \in Document /\ new.user = UserOf[t]
  BY <1>3 DEF Document
<1>. HIDE DEF new
<1>5. /\ shadow' \in Seq(Document) /\ Len(shadow') = id /\ id \in Nat
      /\ shadow'[id] = new /\ \A i \in DOMAIN shadow : shadow'[i] = shadow[i]
  BY <1>1, <1>4, Documents, AppendProperties
<1>6. id \in DOMAIN shadow' /\ DOMAIN shadow \subseteq DOMAIN shadow'
  <2>1. DOMAIN shadow' = 1..id
    BY <1>5, LenProperties
  <2>. QED BY <1>5, <2>1, Documents
<1>. HIDE DEF id
<1>7. Grows(shadow, shadow')
  BY <1>5, <1>6 DEF Grows
<1>8. DocumentsOK'
  BY <1>1, <1>3, <1>5 DEF EditInv, DocumentsOK
<1>9. PushesOK'
  <2>1. [kind |-> "create", script |-> c.script, id |-> id, code |-> c.code] \in Message
    BY <1>3, <1>5 DEF Message
  <2>. QED BY <1>1, <1>6, <2>1, Pushed
<1>10. r \in Request /\ r.op = c.op /\ r.script = c.script /\ r.stage = "ok" /\ r.id = id
  BY <1>2, <1>5 DEF Request, Stages
<1>. HIDE DEF r
<1>11. RequestOK(shadow', saved', r, tab[t], UserOf[t])
  BY <1>1, <1>2, <1>4, <1>5, <1>6, <1>10 DEF RequestOK, Owned
<1>12. saved \subseteq saved'
  BY <1>1
<1>. QED BY <1>1, <1>7, <1>8, <1>9, <1>10, <1>11, <1>12, ServeStep

LEMMA ServeUpdateEdit ==
    ASSUME EditInv, AskInv, NEW t \in Tab, NEW c, Serving(t, c), ServeUpdate(t, c)
    PROVE  EditInv' /\ AskInv'
<1>. DEFINE r == [c EXCEPT !.stage = "ok"]
            e == [shadow[c.id] EXCEPT !.code = c.code]
<1>1. /\ c \in calls[t] /\ c.op = "put" /\ script' = script
      /\ shadow' = [shadow EXCEPT ![c.id] = e] /\ saved' = saved \cup {c.code}
      /\ Push("update", NoScript, c.id, c.code) /\ Answer(t, c, r) /\ acts' = acts
  BY DEF Serving, ServeUpdate
<1>2. RequestOK(shadow, saved, c, tab[t], UserOf[t]) /\ c \in Request
  BY <1>1, InTab
<1>3. c.id \in DOMAIN shadow /\ shadow[c.id].user = UserOf[t] /\ c.code \in Text /\ c.id \in Nat
  BY <1>1, <1>2 DEF RequestOK, Request, Owned
<1>4. e \in Document /\ e.user = shadow[c.id].user /\ e.script = shadow[c.id].script
  BY <1>3, Documents DEF Document
<1>. HIDE DEF e
<1>5. /\ shadow' \in Seq(Document) /\ DOMAIN shadow' = DOMAIN shadow
      /\ shadow'[c.id] = e /\ \A i \in DOMAIN shadow \ {c.id} : shadow'[i] = shadow[i]
  BY <1>1, <1>3, <1>4, Documents, ExceptSeq
<1>6. Grows(shadow, shadow')
  BY <1>4, <1>5 DEF Grows
<1>7. DocumentsOK'
  BY <1>1, <1>3, <1>5 DEF EditInv, DocumentsOK
<1>8. PushesOK'
  <2>1. [kind |-> "update", script |-> NoScript, id |-> c.id, code |-> c.code] \in Message
    BY <1>3 DEF Message
  <2>. QED BY <1>1, <1>3, <1>5, <2>1, Pushed
<1>9. r \in Request /\ r.op = c.op /\ r.script = c.script /\ r.stage = "ok" /\ r.id = c.id /\ r.code = c.code
  BY <1>1, Staged DEF Stages
<1>. HIDE DEF r
<1>10. Owned(shadow', c.id, UserOf[t])
  BY <1>3, <1>4, <1>5 DEF Owned
<1>11. RequestOK(shadow', saved', r, tab[t], UserOf[t])
  BY <1>1, <1>2, <1>9, <1>10 DEF RequestOK
<1>12. saved \subseteq saved'
  BY <1>1
<1>. QED BY <1>1, <1>6, <1>7, <1>8, <1>9, <1>11, <1>12, ServeStep

LEMMA ServeScriptEdit ==
    ASSUME EditInv, AskInv, NEW t \in Tab, NEW c, Serving(t, c), ServeScript(t, c)
    PROVE  EditInv' /\ AskInv'
<1>. DEFINE r == [c EXCEPT !.stage = "ok"]
<1>1. /\ c \in calls[t] /\ c.op = "script" /\ script' = [script EXCEPT ![c.script] = c.code]
      /\ Push("script", c.script, 0, c.code) /\ Answer(t, c, r)
      /\ shadow' = shadow /\ saved' = saved /\ acts' = acts
  BY DEF Serving, ServeScript
<1>2. RequestOK(shadow, saved, c, tab[t], UserOf[t]) /\ c \in Request
  BY <1>1, InTab
<1>3. c.script \in Script /\ c.script # NoScript /\ c.code \in Text /\ c.code \in saved
  BY <1>1, <1>2, TextFacts DEF RequestOK, Request
<1>4. DocumentsOK'
  BY <1>1, <1>3 DEF EditInv, DocumentsOK
<1>5. PushesOK'
  <2>1. [kind |-> "script", script |-> c.script, id |-> 0, code |-> c.code] \in Message
    BY <1>3 DEF Message
  <2>. QED BY <1>1, <1>3, <2>1, Pushed
<1>6. r \in Request /\ r.op = c.op /\ r.script = c.script /\ r.stage = "ok" /\ r.id = c.id /\ r.code = c.code
  BY <1>1, Staged DEF Stages
<1>. HIDE DEF r
<1>7. RequestOK(shadow', saved', r, tab[t], UserOf[t])
  BY <1>1, <1>2, <1>6 DEF RequestOK
<1>8. Grows(shadow, shadow') /\ saved \subseteq saved'
  BY <1>1 DEF Grows
<1>. QED BY <1>1, <1>4, <1>5, <1>6, <1>7, <1>8, ServeStep

LEMMA ServeTypeEdit ==
    ASSUME EditInv, AskInv, NEW t \in Tab, NEW c, Serving(t, c), ServeType(t, c)
    PROVE  EditInv' /\ AskInv'
<1>. DEFINE r == [c EXCEPT !.stage = "ok", !.code = script[c.script]]
<1>1. c \in calls[t] /\ c.op = "type" /\ Answer(t, c, r) /\ UNCHANGED <<script, shadow, pushes, saved>>
  BY DEF Serving, ServeType
<1>2. RequestOK(shadow, saved, c, tab[t], UserOf[t]) /\ c \in Request
  BY <1>1, InTab
<1>3. script[c.script] \in Text
  BY <1>1, <1>2, TextFacts DEF RequestOK, Request, EditInv, DocumentsOK
<1>4. r \in Request /\ r.op = c.op /\ r.script = c.script /\ r.stage = "ok"
  BY <1>2, <1>3 DEF Request, Stages
<1>. HIDE DEF r
<1>5. RequestOK(shadow, saved, r, tab[t], UserOf[t])
  BY <1>1, <1>2, <1>4 DEF RequestOK
<1>. QED BY <1>1, <1>4, <1>5, OnlyAnswers

LEMMA FailEdit ==
    ASSUME EditInv, AskInv, NEW t \in Tab, NEW c, Serving(t, c), Fail(t, c)
    PROVE  EditInv' /\ AskInv'
<1>. DEFINE r == [c EXCEPT !.stage = "failed"]
<1>1. c \in calls[t] /\ Answer(t, c, r) /\ UNCHANGED <<script, shadow, pushes, saved>>
  BY DEF Serving, Fail
<1>2. RequestOK(shadow, saved, c, tab[t], UserOf[t]) /\ c \in Request
  BY <1>1, InTab
<1>3. r \in Request /\ r.op = c.op /\ r.script = c.script /\ r.stage = "failed" /\ r.id = c.id /\ r.code = c.code
  BY <1>1, Staged DEF Stages
<1>. HIDE DEF r
<1>4. RequestOK(shadow, saved, r, tab[t], UserOf[t])
  BY <1>2, <1>3 DEF RequestOK
<1>. QED BY <1>1, <1>3, <1>4, OnlyAnswers

LEMMA ServeEdit == ASSUME EditInv, AskInv, NEW t \in Tab, NEW c \in calls[t], Serve(t, c) PROVE EditInv' /\ AskInv'
<1>1. Serving(t, c)
  BY DEF Serve, Serving
<1>. QED BY <1>1, ServeGetEdit, ServeCreateEdit, ServeUpdateEdit, ServeScriptEdit, ServeTypeEdit, FailEdit DEF Serve

-----------------------------------------------------------------------------
(***************************************************************************)
(* The first shadow of a script                                            *)
(***************************************************************************)
SameOwners(d, e) ==
    DOMAIN e = DOMAIN d /\ \A i \in DOMAIN d : e[i].user = d[i].user /\ e[i].script = d[i].script

\* The requests of t become cs, and no other one finds or creates a shadow.
Requests(t, cs) == calls' = [calls EXCEPT ![t] = cs]

LEMMA FirstStep ==
    ASSUME EditInv, FirstInv, SameOwners(shadow, shadow'), NEW t \in Tab, NEW cs, Requests(t, cs),
           \A c \in cs : c \in calls[t] \/ (Open(c) => NoShadow(UserOf[t], c.script))
    PROVE  FirstInv'
<1>1. OneShadowEach'
  BY DEF FirstInv, OneShadowEach, SameOwners
<1>2. \A u, s : NoShadow(u, s) => NoShadow(u, s)'
  BY DEF NoShadow, SameOwners
<1>3. calls'[t] = cs /\ \A q \in Tab \ {t} : calls'[q] = calls[q]
  BY InTab DEF Requests
<1>4. \A q \in Tab : \A c \in calls'[q] : Open(c) => NoShadow(UserOf[q], c.script)
  BY <1>3 DEF FirstInv
<1>5. \A q \in Tab : \A c \in calls'[q] : Open(c) => NoShadow(UserOf[q], c.script)'
  BY <1>2, <1>4
<1>. QED BY <1>1, <1>5 DEF FirstInv

LEMMA SameShadows ==
    ASSUME EditInv, FirstInv, shadow' = shadow, NEW t \in Tab, NEW cs, Requests(t, cs),
           \A c \in cs : c \in calls[t] \/ ~ Open(c)
    PROVE  FirstInv'
<1>1. SameOwners(shadow, shadow')
  BY DEF SameOwners
<1>. QED BY <1>1, FirstStep

\* What selecting a script sends is a question.
LEMMA Asked == \A w, u, s : \A c \in SelectScript(w, u, s)[2] : ~ Open(c)
<1>. SUFFICES ASSUME NEW w, NEW u, NEW s, NEW c \in SelectScript(w, u, s)[2] PROVE ~ Open(c)
  OBVIOUS
<1>1. c.op = "get" /\ c.stage = "sent"
  BY DEF SelectScript, Call
<1>. QED BY <1>1 DEF Open

LEMMA UserFirst == ASSUME EditInv, FirstInv, NEW t \in Tab, UserStep(t) PROVE FirstInv'
<1>1. \A w, then : ~ Open(SaveCopy(w, then))
  BY DEF Open, SaveCopy, Call
<1>2. CASE Type(t)
  <2>1. Requests(t, calls[t]) /\ shadow' = shadow
    BY <1>2, InTab DEF Type, Requests
  <2>. QED BY <2>1, SameShadows
<1>3. CASE Autosave(t)
  <2>1. Requests(t, calls[t] \cup {SaveCopy(tab[t], "none")}) /\ shadow' = shadow
    BY <1>3 DEF Autosave, Send, Requests
  <2>. QED BY <1>1, <2>1, SameShadows
<1>4. CASE Publish(t)
  <2>1. Requests(t, calls[t] \cup {SaveCopy(tab[t], "publish")}) /\ shadow' = shadow
    BY <1>4 DEF Publish, Send, Requests
  <2>. QED BY <1>1, <2>1, SameShadows
<1>5. CASE Revert(t)
  <2>. DEFINE c == [SaveCopy(tab[t], "none") EXCEPT !.code = tab[t].known[tab[t].script]]
  <2>1. ~ Open(c)
    BY DEF Open, SaveCopy, Call
  <2>. HIDE DEF c
  <2>2. Requests(t, calls[t] \cup {c}) /\ shadow' = shadow
    BY <1>5 DEF Revert, Send, Requests, c
  <2>. QED BY <2>1, <2>2, SameShadows
<1>6. CASE ChangeType(t)
  <2>. DEFINE c == Call("type", tab[t].script, 0, Blank, TRUE, "rebuild")
  <2>1. ~ Open(c)
    BY DEF Open, Call
  <2>2. Requests(t, calls[t] \cup {c}) /\ shadow' = shadow
    BY <1>6 DEF ChangeType, Send, Requests
  <2>. HIDE DEF c
  <2>. QED BY <2>1, <2>2, SameShadows
<1>7. ASSUME NEW s \in Script, Pick(t, s) PROVE FirstInv'
  <2>. DEFINE new == SelectScript(tab[t], UserOf[t], s)[2]
              save == IF Changed(tab[t]) THEN {SaveCopy(tab[t], "none")} ELSE {}
  <2>1. Requests(t, calls[t] \cup (new \cup save)) /\ shadow' = shadow
    BY <1>7 DEF Pick, Send, Requests
  <2>2. (\A c \in new : ~ Open(c)) /\ (\A c \in save : ~ Open(c))
    BY <1>1, Asked
  <2>. HIDE DEF new, save
  <2>. QED BY <2>1, <2>2, SameShadows
<1>. QED BY <1>2, <1>3, <1>4, <1>5, <1>6, <1>7 DEF UserStep

LEMMA AnswerFirst ==
    ASSUME EditInv, FirstInv, NEW t \in Tab, NEW c \in calls[t], ReceiveAnswer(t, c)
    PROVE  FirstInv'
<1>1. shadow' = shadow
  BY DEF ReceiveAnswer
<1>2. ASSUME NEW w, NEW new, Receive(t, c, w, new), \A d \in new : Open(d) => NoShadow(UserOf[t], d.script)
      PROVE  FirstInv'
  <2>1. Requests(t, (calls[t] \ {c}) \cup new)
    BY <1>2 DEF Receive, Requests
  <2>2. SameOwners(shadow, shadow')
    BY <1>1 DEF SameOwners
  <2>. QED BY <1>2, <2>1, <2>2, FirstStep
<1>3. ASSUME NEW w, Receive(t, c, w, {}) PROVE FirstInv'
  BY <1>2, <1>3
<1>4. CASE ReceiveGet(t, c)
  <2>1. CASE c.stage = "ok"
    BY <1>3, <1>4, <2>1 DEF ReceiveGet
  <2>2. CASE c.stage = "none"
    <3>. DEFINE d == [c EXCEPT !.op = "post", !.stage = "sent"]
    <3>1. Receive(t, c, tab[t], {d}) /\ Open(c)
      BY <1>4, <2>2 DEF ReceiveGet, Open
    <3>2. d.script = c.script
      BY InTab DEF Request
    <3>. HIDE DEF d
    <3>3. NoShadow(UserOf[t], d.script)
      BY <3>1, <3>2 DEF FirstInv
    <3>. QED BY <1>2, <3>1, <3>3
  <2>3. CASE c.stage = "failed"
    BY <1>3, <1>4, <2>3 DEF ReceiveGet
  <2>. QED BY <1>4, <2>1, <2>2, <2>3 DEF ReceiveGet
<1>5. CASE ReceiveCreate(t, c)
  BY <1>3, <1>5 DEF ReceiveCreate
<1>6. CASE ReceiveSaved(t, c)
  <2>1. PICK w : Receive(t, c, w, AfterSave(w, c))
    BY <1>6 DEF ReceiveSaved
  <2>2. \A d \in AfterSave(w, c) : ~ Open(d)
    BY DEF AfterSave, Call, Open
  <2>. QED BY <1>2, <2>1, <2>2
<1>7. CASE ReceiveScript(t, c)
  <2>1. PICK w, v : \/ Receive(t, c, w, {})
                    \/ Receive(t, c, w, SelectScript(v, UserOf[t], c.script)[2])
    BY <1>7 DEF ReceiveScript
  <2>. QED BY <1>2, <1>3, <2>1, Asked
<1>. QED BY <1>4, <1>5, <1>6, <1>7 DEF ReceiveAnswer

\* When a user has one tab, the shadow that is created is the first.
LEMMA ServeFirst ==
    ASSUME EditInv, AskInv, FirstInv, \A t, q \in Tab : UserOf[t] = UserOf[q] => t = q,
           NEW t \in Tab, NEW c \in calls[t], Serve(t, c)
    PROVE  FirstInv'
<1>1. ASSUME NEW r, Answer(t, c, r), SameOwners(shadow, shadow'), Open(r) => NoShadow(UserOf[t], r.script)
      PROVE  FirstInv'
  <2>1. Requests(t, (calls[t] \ {c}) \cup {r})
    BY <1>1 DEF Answer, Requests
  <2>. QED BY <1>1, <2>1, FirstStep
<1>2. c \in Request /\ RequestOK(shadow, saved, c, tab[t], UserOf[t])
  BY InTab
<1>4. CASE ServeGet(t, c)
  <2>. DEFINE own == {i \in DOMAIN shadow : shadow[i].user = UserOf[t] /\ shadow[i].script = c.script}
              id  == CHOOSE i \in own : TRUE
              none == [c EXCEPT !.stage = "none"]
              r == [c EXCEPT !.stage = "ok", !.id = id, !.code = shadow[id].code]
  <2>1. SameOwners(shadow, shadow')
    BY <1>4 DEF ServeGet, SameOwners
  <2>2. CASE own = {}
    <3>1. Answer(t, c, none) /\ none.script = c.script
      BY <1>2, <1>4, <2>2 DEF ServeGet, Request
    <3>2. NoShadow(UserOf[t], c.script)
      BY <2>2 DEF NoShadow
    <3>. QED BY <1>1, <2>1, <3>1, <3>2
  <2>3. CASE own # {}
    <3>1. Answer(t, c, r)
      BY <1>4, <2>3 DEF ServeGet
    <3>2. ~ Open(r)
      BY <1>2, <1>4 DEF ServeGet, Open, Request
    <3>. QED BY <1>1, <2>1, <3>1, <3>2
  <2>. QED BY <2>2, <2>3
<1>5. CASE ServeCreate(t, c)
  <2>. DEFINE id == Len(shadow) + 1
              new == [user |-> UserOf[t], script |-> c.script, code |-> c.code]
              r == [c EXCEPT !.stage = "ok", !.id = id]
  <2>1. c.op = "post" /\ c.stage = "sent" /\ shadow' = Append(shadow, new) /\ Answer(t, c, r)
    BY <1>5 DEF Serve, ServeCreate
  <2>2. c.script \in Script /\ c.code \in Text /\ UserOf[t] \in User
    BY <1>2, <2>1, TextFacts DEF RequestOK, Request
  <2>3. new \in Document /\ new.user = UserOf[t] /\ new.script = c.script
    BY <2>2 DEF Document
  <2>. HIDE DEF new
  <2>4. /\ shadow' \in Seq(Document) /\ Len(shadow') = id
        /\ shadow'[id] = new /\ \A i \in DOMAIN shadow : shadow'[i] = shadow[i]
    BY <2>1, <2>3, Documents, AppendProperties
  <2>5. DOMAIN shadow' = DOMAIN shadow \cup {id} /\ id \notin DOMAIN shadow
    <3>1. DOMAIN shadow' = 1..id
      BY <2>4, LenProperties
    <3>. QED BY <3>1, Documents
  <2>. HIDE DEF id
  <2>6. Open(c) /\ NoShadow(UserOf[t], c.script)
    BY <2>1 DEF Open, FirstInv
  <2>7. OneShadowEach'
    <3>. SUFFICES ASSUME NEW i \in DOMAIN shadow', NEW j \in DOMAIN shadow',
                         shadow'[i].user = shadow'[j].user, shadow'[i].script = shadow'[j].script
                  PROVE  i = j
      BY DEF OneShadowEach
    <3>1. ASSUME NEW k \in DOMAIN shadow PROVE ~ (shadow'[k].user = new.user /\ shadow'[k].script = new.script)
      BY <2>3, <2>4, <2>6 DEF NoShadow
    <3>2. CASE i \in DOMAIN shadow /\ j \in DOMAIN shadow
      BY <2>4, <3>2 DEF FirstInv, OneShadowEach
    <3>3. CASE i = id \/ j = id
      BY <2>4, <2>5, <3>1, <3>3
    <3>. QED BY <2>5, <3>2, <3>3
  <2>8. ~ Open(r)
    BY <1>2, <2>1 DEF Open, Request
  <2>. HIDE DEF r
  <2>9. calls'[t] = (calls[t] \ {c}) \cup {r} /\ \A q \in Tab \ {t} : calls'[q] = calls[q]
    BY <2>1, InTab DEF Answer
  <2>10. ASSUME NEW q \in Tab, NEW d \in calls'[q], Open(d) PROVE NoShadow(UserOf[q], d.script)'
    <3>1. d \in calls[q] /\ (q = t => d # c)
      BY <2>8, <2>9, <2>10
    <3>2. NoShadow(UserOf[q], d.script)
      BY <2>10, <3>1 DEF FirstInv
    <3>3. ~ (UserOf[q] = new.user /\ d.script = new.script)
      <4>. SUFFICES ASSUME UserOf[q] = new.user, d.script = new.script PROVE FALSE
        OBVIOUS
      <4>1. q = t
        BY <2>3
      <4>2. Asks(c, c.script) /\ Asks(d, c.script)
        BY <2>1, <2>3, <2>10 DEF Asks, Open
      <4>3. c = d
        BY <2>2, <3>1, <4>1, <4>2 DEF AskInv, AskOK
      <4>. QED BY <3>1, <4>1, <4>3
    <3>. QED BY <2>4, <2>5, <3>2, <3>3 DEF NoShadow
  <2>. QED BY <2>7, <2>10 DEF FirstInv
<1>6. CASE ServeUpdate(t, c)
  <2>. DEFINE e == [shadow[c.id] EXCEPT !.code = c.code]
              r == [c EXCEPT !.stage = "ok"]
  <2>1. shadow' = [shadow EXCEPT ![c.id] = e] /\ Answer(t, c, r)
    BY <1>6 DEF ServeUpdate
  <2>2. e.user = shadow[c.id].user /\ e.script = shadow[c.id].script
    <3>1. c.id \in DOMAIN shadow
      BY <1>2, <1>6 DEF ServeUpdate, RequestOK, Owned
    <3>. QED BY <3>1, Documents DEF Document
  <2>. HIDE DEF e
  <2>3. SameOwners(shadow, shadow')
    BY <2>1, <2>2, Documents DEF SameOwners
  <2>4. ~ Open(r)
    BY <1>2, <1>6 DEF ServeUpdate, Open, Request
  <2>. QED BY <1>1, <2>1, <2>3, <2>4
<1>7. CASE ServeScript(t, c) \/ ServeType(t, c) \/ Fail(t, c)
  <2>1. SameOwners(shadow, shadow')
    BY <1>7 DEF ServeScript, ServeType, Fail, SameOwners
  <2>. DEFINE written == [c EXCEPT !.stage = "ok"]
              read == [c EXCEPT !.stage = "ok", !.code = script[c.script]]
              failed == [c EXCEPT !.stage = "failed"]
  <2>2. \/ Answer(t, c, written) /\ c.op = "script"
        \/ Answer(t, c, read) /\ c.op = "type"
        \/ Answer(t, c, failed)
    BY <1>7 DEF ServeScript, ServeType, Fail
  <2>3. (c.op = "script" => ~ Open(written)) /\ (c.op = "type" => ~ Open(read)) /\ ~ Open(failed)
    BY <1>2 DEF Open, Request
  <2>. HIDE DEF written, read, failed
  <2>. QED BY <1>1, <2>1, <2>2, <2>3
<1>. QED BY <1>4, <1>5, <1>6, <1>7 DEF Serve

-----------------------------------------------------------------------------
(***************************************************************************)
(* The theorems                                                            *)
(***************************************************************************)
\* What the elements of a sequence are.
LEMMA SeqOf ==
    ASSUME NEW S, NEW T, NEW m \in Seq(S), \A i \in DOMAIN m : m[i] \in T
    PROVE  m \in Seq(T)
<1>1. Len(m) \in Nat /\ m \in [1..Len(m) -> T]
  <2>1. Len(m) \in Nat /\ m \in [1..Len(m) -> S] /\ DOMAIN m = 1..Len(m)
    BY LenProperties
  <2>. QED BY <2>1
<1>. QED BY <1>1

LEMMA InitEdit == Init => EditInv /\ AskInv
<1>. SUFFICES ASSUME Init PROVE EditInv /\ AskInv
  OBVIOUS
<1>1. DocumentsOK
  <2>1. 0 \in 0..MaxActs
    OBVIOUS
  <2>2. shadow \in Seq(Document)
    BY DEF Init
  <2>. QED BY <2>1, <2>2, TextFacts DEF Init, DocumentsOK
<1>2. TabsOK
  <2>. SUFFICES ASSUME NEW t \in Tab PROVE WindowOK(shadow, tab[t], UserOf[t])
    BY DEF Init, TabsOK, WindowOK
  <2>. DEFINE w == tab[t]
  <2>1. /\ w.script = NoScript /\ w.known = script /\ w.models = <<>> /\ w.selected = 0
        /\ w.copy = Blank /\ w.editor = Blank /\ w.ignore = FALSE
        /\ w.promise = [s \in Script |-> Unasked] /\ w.waiting = {} /\ w.broken = FALSE
    BY DEF Init
  <2>2. w \in Window
    <3>1. script \in [Script -> Text] /\ Blank \in Text
      BY TextFacts DEF Init
    <3>2. [s \in Script |-> Unasked] \in [Script -> Int] /\ {} \in SUBSET Script /\ <<>> \in Seq(Object)
      BY DEF Unasked
    <3>3. w = [script |-> NoScript, known |-> script, models |-> <<>>, selected |-> 0,
               copy |-> Blank, editor |-> Blank, ignore |-> FALSE,
               promise |-> [s \in Script |-> Unasked], waiting |-> {}, broken |-> FALSE]
      BY DEF Init
    <3>. QED BY <3>1, <3>2, <3>3 DEF Window
  <2>3. DOMAIN w.models = {}
    BY <2>1
  <2>. HIDE DEF w
  <2>4. WindowOK(shadow, w, UserOf[t])
    BY <2>1, <2>2, <2>3 DEF WindowOK
  <2>. QED BY <2>4 DEF w
<1>3. CallsOK /\ PushesOK
  BY DEF Init, CallsOK, PushesOK
<1>4. AskInv
  BY DEF Init, AskInv, AskOK, Unasked, Pending
<1>. QED BY <1>1, <1>2, <1>3, <1>4 DEF EditInv

LEMMA StepEdit == EditInv /\ AskInv /\ [Next]_vars => EditInv' /\ AskInv'
<1>. SUFFICES ASSUME EditInv, AskInv, [Next]_vars PROVE EditInv' /\ AskInv'
  OBVIOUS
<1>1. CASE Next
  <2>1. PICK t \in Tab : UserStep(t) \/ ReceivePush(t) \/ \E c \in calls[t] : Serve(t, c) \/ ReceiveAnswer(t, c)
    BY <1>1 DEF Next
  <2>2. CASE UserStep(t)
    BY <2>2, TypeEdit, AutosaveEdit, PublishEdit, RevertEdit, ChangeTypeEdit, PickEdit DEF UserStep
  <2>3. CASE ReceivePush(t)
    BY <2>3, ReceivePushEdit
  <2>4. ASSUME NEW c \in calls[t], Serve(t, c) \/ ReceiveAnswer(t, c) PROVE EditInv' /\ AskInv'
    BY <2>4, ServeEdit, ReceiveAnswerEdit
  <2>. QED BY <2>1, <2>2, <2>3, <2>4
<1>2. CASE UNCHANGED vars
  <2>1. DocumentsOK' /\ TabsOK' /\ CallsOK' /\ PushesOK'
    BY <1>2 DEF vars, EditInv, DocumentsOK, TabsOK, CallsOK, PushesOK
  <2>2. AskInv'
    BY <1>2 DEF vars, AskInv
  <2>. QED BY <2>1, <2>2 DEF EditInv
<1>. QED BY <1>1, <1>2

LEMMA EditInvariant == Spec => [](EditInv /\ AskInv)
BY InitEdit, StepEdit, PTL DEF Spec

\* The documents, the tabs and the requests keep the values the code gives them: what a
\* tab has selected, and what every promise of getOrCreate resolved to, stays an object of
\* its store, and every object shows a document that exists, however answers and pushes
\* are ordered and whichever requests fail.
THEOREM TypeCorrect == Spec => []TypeOK
<1>1. EditInv => TypeOK
  <2>. SUFFICES ASSUME EditInv PROVE TypeOK
    OBVIOUS
  <2>1. DocumentsOK
    BY DEF EditInv
  <2>2. ASSUME NEW t \in Tab
        PROVE  /\ tab[t].script \in Script \cup {NoScript}
               /\ tab[t].known \in [Script -> Text]
               /\ tab[t].selected \in {0} \cup DOMAIN tab[t].models
               /\ {tab[t].copy, tab[t].editor} \subseteq Text
               /\ {tab[t].ignore, tab[t].broken} \subseteq BOOLEAN
               /\ tab[t].waiting \subseteq {s \in Script : tab[t].promise[s] = Pending}
    BY InTab DEF WindowOK, Window, Mine
  <2>3. ASSUME NEW t \in Tab, NEW s \in Script, Resolved(tab[t].promise[s])
        PROVE  tab[t].promise[s] \in DOMAIN tab[t].models
    BY <2>3, InTab DEF WindowOK, Mine, Resolved, Unasked, Pending, Rejected
  <2>4. ASSUME NEW t \in Tab PROVE tab[t].models \in Seq([id : DOMAIN shadow, code : Text])
    <3>. DEFINE m == tab[t].models
                shown == [id : DOMAIN shadow, code : Text]
    <3>1. m \in Seq(Object) /\ \A i \in DOMAIN m : m[i] \in Object /\ m[i].id \in DOMAIN shadow
      BY InTab, Models DEF WindowOK
    <3>2. \A i \in DOMAIN m : m[i] \in shown
      BY <3>1 DEF Object
    <3>. HIDE DEF m, shown
    <3>3. m \in Seq(shown)
      BY <3>1, <3>2, SeqOf
    <3>. QED BY <3>3 DEF m, shown
  <2>5. ASSUME NEW t \in Tab, NEW c \in calls[t] PROVE c.stage \in Stages /\ c.code \in Text
    BY InTab DEF Request
  <2>. QED BY <2>1, <2>2, <2>3, <2>4, <2>5 DEF TypeOK, DocumentsOK, Document
<1>. QED BY <1>1, EditInvariant, PTL

\* A tab edits and saves only shadows of its own user, although the server pushes
\* everybody's into its store and a search there goes by the script.
THEOREM OnlyOwnShadow == Spec => []OwnShadow
<1>1. EditInv => OwnShadow
  BY InTab DEF OwnShadow, WindowOK, Mine, RequestOK, Owned
<1>. QED BY <1>1, EditInvariant, PTL

\* No text gets into a script that was not in a shadow before, whatever is saved, picked,
\* typed, refused or pushed between the two requests of a publish.
THEOREM BackedUp == Spec => []PublishedIsBackedUp
<1>1. EditInv => PublishedIsBackedUp
  BY DEF EditInv, DocumentsOK, PublishedIsBackedUp
<1>. QED BY <1>1, EditInvariant, PTL

\* A select that waits for a shadow has a request under way that will answer it, unless
\* the store holds an undefined model.
THEOREM SelectIsAnswered == Spec => []SelectAnswerable
<1>1. EditInv /\ AskInv => SelectAnswerable
  <2>. SUFFICES ASSUME EditInv, AskInv, NEW t \in Tab, NEW s \in tab[t].waiting
                PROVE  tab[t].broken \/ \E c \in calls[t] : c.op \in {"get", "post"} /\ c.script = s
    BY DEF SelectAnswerable
  <2>1. s \in Script /\ tab[t].promise[s] = Pending
    BY InTab DEF WindowOK, Window
  <2>. QED BY <2>1 DEF AskInv, AskOK, Asks
<1>. QED BY <1>1, EditInvariant, PTL

\* Users with one tab each never get a second shadow of a script: getOrCreate's promise
\* is the only lock there is (nothing makes a shadow unique in the database), and it
\* outlives failures, other selects and the pushes of others.
THEOREM OneShadow ==
    ASSUME \A t, q \in Tab : UserOf[t] = UserOf[q] => t = q
    PROVE  Spec => []OneShadowEach
<1>1. Init => FirstInv
  <2>. SUFFICES ASSUME Init PROVE FirstInv
    OBVIOUS
  <2>1. DOMAIN shadow = {} /\ \A t \in Tab : calls[t] = {}
    BY DEF Init
  <2>. QED BY <2>1 DEF FirstInv, OneShadowEach
<1>2. EditInv /\ AskInv /\ FirstInv /\ [Next]_vars => FirstInv'
  <2>. SUFFICES ASSUME EditInv, AskInv, FirstInv, [Next]_vars PROVE FirstInv'
    OBVIOUS
  <2>1. CASE Next
    <3>1. PICK t \in Tab : UserStep(t) \/ ReceivePush(t) \/ \E c \in calls[t] : Serve(t, c) \/ ReceiveAnswer(t, c)
      BY <2>1 DEF Next
    <3>2. CASE ReceivePush(t)
      <4>1. Requests(t, calls[t]) /\ shadow' = shadow
        BY <3>2, InTab DEF ReceivePush, Requests
      <4>. QED BY <4>1, SameShadows
    <3>3. ASSUME NEW c \in calls[t], Serve(t, c) \/ ReceiveAnswer(t, c) PROVE FirstInv'
      BY <3>3, ServeFirst, AnswerFirst
    <3>. QED BY <3>1, <3>2, <3>3, UserFirst
  <2>2. CASE UNCHANGED vars
    BY <2>2 DEF vars, FirstInv, OneShadowEach, NoShadow
  <2>. QED BY <2>1, <2>2
<1>3. FirstInv => OneShadowEach
  BY DEF FirstInv
<1>. QED BY <1>1, <1>2, <1>3, EditInvariant, PTL DEF Spec

=============================================================================
