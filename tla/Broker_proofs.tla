---------------------------- MODULE Broker_proofs ----------------------------
(***************************************************************************)
(* Theorems about Broker, for any messages, queues and connections and any *)
(* number of faults.                                                       *)
(*                                                                         *)
(* The parts of a call (Close, Failed, Ready, ...) take a state to a       *)
(* state.  `Sound' says what a state must satisfy, and each part has a     *)
(* lemma that it keeps it; an action then needs the lemmas of its parts.   *)
(***************************************************************************)
EXTENDS Broker, TLAPS

Calls == [at : Steps, kind : Kind \cup {"none"}, on : Conn \cup {None}]
Connector == [conn : Conn \cup {None}, channel : [Kind -> Conn \cup {None}],
              wanted : SUBSET Kind, stopped : BOOLEAN, routes : SUBSET Queue]
Nets == [Conn -> {"closed", "open", "broken", "closing"}]
States == [amqp : Connector, net : Nets, proc : [Proc -> Calls]]

Awaits(c) == c.at \in {"creating", "asserting", "subscribing"}

\* A call that waits does so over a connection that is not closed.
Answerable(net_, c) == Awaits(c) => c.on # None /\ net_[c.on] # "closed"

\* Messages go over the publisher's channel and subscriptions over the consumers'.
KindFits(p, c) ==
    /\ p \in Msg /\ c.at \in {"connecting", "creating"} => c.kind = "pub"
    /\ p \in Queue /\ c.at \in {"connecting", "creating"} => c.kind = "cons"
    /\ c.at = "creating" => c.kind \in Kind
    /\ c.at = "connecting" /\ p \notin Conn => c.kind \in Kind
    /\ c.at = "connecting" /\ c.kind # "none" => c.kind \in Kind

ChannelsOpen(s) == \A c \in Kind : s.amqp.channel[c] # None => s.net[s.amqp.channel[c]] # "closed"

\* Sound but for the calls in P, which may wait over a connection that is closed; the
\* messages D are done with.
SoundBut(s, P, D) ==
    /\ s \in States
    /\ \A m \in D : m \in Msg /\ s.proc[m].at = "done"
    /\ ChannelsOpen(s)
    /\ \A p \in Proc : KindFits(p, s.proc[p])
    /\ \A p \in Proc \ P : Answerable(s.net, s.proc[p])

Sent == {m \in Msg : received[m] # 0}

Inv ==
    /\ SoundBut(State, {}, Sent)
    /\ received \in [Msg -> {0, 1}]
    /\ consuming \in [Conn -> SUBSET Queue]

-----------------------------------------------------------------------------
(***************************************************************************)
(* Lemmas about the parts of a call                                        *)
(***************************************************************************)
LEMMA NoChannelType == NoChannel \in [Kind -> Conn \cup {None}] /\ \A c \in Kind : NoChannel[c] = None
BY DEF NoChannel

\* Two states with the same networks and channels differ in one call only.
LEMMA WaitSound ==
    ASSUME NEW s, NEW P, NEW D, SoundBut(s, P, D), NEW p \in Proc, p \notin D, NEW at \in Steps,
           NEW kind \in Kind \cup {"none"}, NEW k \in Conn \cup {None},
           KindFits(p, Waiting(at, kind, k)), Answerable(s.net, Waiting(at, kind, k))
    PROVE  SoundBut(Wait(s, p, at, kind, k), P, D)
<1>. DEFINE c == Waiting(at, kind, k)
            t == Wait(s, p, at, kind, k)
<1>1. c \in Calls
  BY DEF Waiting, Calls
<1>2. /\ t.amqp = s.amqp /\ t.net = s.net
      /\ t.proc = [s.proc EXCEPT ![p] = c]
      /\ t \in States
  BY <1>1 DEF Wait, SoundBut, States
<1>3. \A q \in Proc : t.proc[q] = IF q = p THEN c ELSE s.proc[q]
  BY <1>2 DEF SoundBut, States
<1>. QED BY <1>2, <1>3 DEF SoundBut, ChannelsOpen

\* Closing the connection, whichever it is, drops the channels and closes nothing yet.
LEMMA CloseSound ==
    ASSUME NEW s, NEW P, NEW D, SoundBut(s, P, D)
    PROVE  SoundBut(Close(s), P, D) /\ Close(s).proc = s.proc
<1>. DEFINE k == s.amqp.conn
            d == [s EXCEPT !.amqp.channel = NoChannel]
            e == [d EXCEPT !.net[k] = "closing"]
<1>1. s \in States /\ s.amqp \in Connector /\ s.net \in Nets
  BY DEF SoundBut, States
<1>2. /\ d \in States /\ d.net = s.net /\ d.proc = s.proc /\ d.amqp.channel = NoChannel
  BY <1>1, NoChannelType DEF States, Connector
<1>3. SoundBut(d, P, D)
  BY <1>2, NoChannelType DEF SoundBut, ChannelsOpen
<1>4. CASE k # None /\ s.net[k] \in {"open", "broken"}
  <2>1. k \in Conn
    BY <1>1, <1>4 DEF Connector
  <2>2. e \in States /\ e.amqp = d.amqp /\ e.proc = d.proc /\ e.net = [s.net EXCEPT ![k] = "closing"]
    BY <1>1, <1>2, <2>1 DEF States, Nets
  <2>3. \A j \in Conn : e.net[j] # "closed" <=> s.net[j] # "closed"
    BY <1>1, <1>4, <2>1, <2>2 DEF Nets
  <2>4. ChannelsOpen(e)
    BY <1>2, <2>2, NoChannelType DEF ChannelsOpen
  <2>5. \A p \in Proc : s.proc[p].on \in Conn \cup {None}
    BY <1>1 DEF States, Calls
  <2>6. \A p \in Proc \ P : Answerable(e.net, e.proc[p])
    BY <1>2, <2>2, <2>3, <2>5 DEF Answerable, SoundBut
  <2>7. SoundBut(e, P, D)
    BY <1>2, <2>2, <2>4, <2>6 DEF SoundBut
  <2>. QED BY <1>2, <1>4, <2>2, <2>7 DEF Close
<1>5. CASE ~(k # None /\ s.net[k] \in {"open", "broken"})
  BY <1>2, <1>3, <1>5 DEF Close
<1>. QED BY <1>4, <1>5

LEMMA DisconnectSound ==
    ASSUME NEW s, NEW P, NEW D, SoundBut(s, P, D)
    PROVE  SoundBut(OnDisconnect(s), P, D) /\ OnDisconnect(s).proc = s.proc
BY CloseSound DEF OnDisconnect

\* What a call without a channel becomes waits for nothing.
LEMMA FailedSound ==
    ASSUME NEW s, NEW P, NEW D, SoundBut(s, P, D), NEW p \in Proc, p \notin D
    PROVE  /\ SoundBut(Failed(s, p), P, D)
           /\ Failed(s, p).proc[p] \in Calls
           /\ Failed(s, p).proc[p].at \in {"offline", "failed", "resuming", "idle"}
<1>. DEFINE At_ == IF p \in Msg THEN "offline" ELSE IF p \in Queue THEN "failed"
                   ELSE IF s.proc[p].kind = "pub" THEN "resuming" ELSE "idle"
            K_ == IF p \in Msg THEN "pub" ELSE "cons"
<1>1. Failed(s, p) = Wait(s, p, At_, K_, None)
  BY DEF Failed
<1>2. At_ \in Steps /\ At_ \in {"offline", "failed", "resuming", "idle"} /\ K_ \in Kind
  BY DEF Steps, Kind
<1>3. KindFits(p, Waiting(At_, K_, None)) /\ Answerable(s.net, Waiting(At_, K_, None))
  BY DEF KindFits, Answerable, Awaits, Waiting
<1>4. SoundBut(Failed(s, p), P, D)
  BY <1>1, <1>2, <1>3, WaitSound
<1>5. Failed(s, p).proc[p] = Waiting(At_, K_, None)
  BY <1>1 DEF Wait, SoundBut, States
<1>6. Failed(s, p).proc[p] \in Calls
  BY <1>4 DEF SoundBut, States
<1>. QED BY <1>2, <1>4, <1>5, <1>6 DEF Waiting

\* A call that got its channel waits over it, or has no more to wait for.
LEMMA ReadySound ==
    ASSUME NEW s, NEW P, NEW D, SoundBut(s, P, D), NEW p \in Proc, p \notin D,
           p \in Msg => s.amqp.channel["pub"] # None,
           p \in Queue => s.amqp.channel["cons"] # None
    PROVE  SoundBut(Ready(s, p), P, D)
<1>1. \A c \in Kind : s.amqp.channel[c] \in Conn \cup {None}
  BY DEF SoundBut, States, Connector
<1>2. "pub" \in Kind /\ "cons" \in Kind
  BY DEF Kind
<1>3. CASE p \in Msg
  <2>. DEFINE w == Waiting("asserting", "pub", s.amqp.channel["pub"])
  <2>1. Answerable(s.net, w)
    BY <1>2, <1>3 DEF Answerable, Waiting, SoundBut, ChannelsOpen
  <2>2. KindFits(p, w)
    BY DEF KindFits, Waiting
  <2>. QED BY <1>1, <1>2, <1>3, <2>1, <2>2, WaitSound DEF Ready, Steps
<1>4. CASE p \notin Msg /\ p \in Queue
  <2>. DEFINE w == Waiting("subscribing", "cons", s.amqp.channel["cons"])
  <2>1. Answerable(s.net, w)
    BY <1>2, <1>4 DEF Answerable, Waiting, SoundBut, ChannelsOpen
  <2>2. KindFits(p, w)
    BY DEF KindFits, Waiting
  <2>. QED BY <1>1, <1>2, <1>4, <2>1, <2>2, WaitSound DEF Ready, Steps
<1>5. CASE p \notin Msg /\ p \notin Queue
  <2>. DEFINE a == IF s.proc[p].kind = "pub" THEN "resuming" ELSE "idle"
              w == Waiting(a, "cons", None)
  <2>1. a \in Steps /\ KindFits(p, w) /\ Answerable(s.net, w)
    BY DEF Steps, KindFits, Answerable, Awaits, Waiting
  <2>. QED BY <1>2, <1>5, <2>1, WaitSound DEF Ready
<1>. QED BY <1>3, <1>4, <1>5

\* The first part of asking for a channel.
LEMMA CreateChannelSound ==
    ASSUME NEW s, NEW P, NEW D, SoundBut(s, P, D), NEW p \in Proc, p \notin D, NEW kind \in Kind,
           p \in Msg => kind = "pub", p \in Queue => kind = "cons"
    PROVE  SoundBut(CreateChannel(s, p, kind), P, D)
<1>. DEFINE k == s.amqp.conn
            w == [s EXCEPT !.amqp.wanted = @ \cup {kind}]
            v == [w EXCEPT !.amqp.stopped = FALSE]
<1>1. s \in States /\ s.amqp \in Connector /\ s.net \in Nets
  BY DEF SoundBut, States
<1>2. /\ w \in States /\ w.net = s.net /\ w.proc = s.proc
      /\ w.amqp.channel = s.amqp.channel
      /\ v \in States /\ v.net = s.net /\ v.proc = s.proc
      /\ v.amqp.channel = s.amqp.channel
  BY <1>1 DEF States, Connector
<1>3. SoundBut(w, P, D) /\ SoundBut(v, P, D)
  BY <1>2 DEF SoundBut, ChannelsOpen
<1>4. CASE s.amqp.channel[kind] # None
  BY <1>4, ReadySound DEF CreateChannel
<1>5. CASE s.amqp.channel[kind] = None /\ k = None
  <2>1. KindFits(p, Waiting("connecting", kind, None)) /\ Answerable(v.net, Waiting("connecting", kind, None))
    BY DEF KindFits, Answerable, Awaits, Waiting, Kind, Proc
  <2>2. SoundBut(Wait(v, p, "connecting", kind, None), P, D)
    BY <1>3, <2>1, WaitSound DEF Steps
  <2>. QED BY <1>5, <2>2 DEF CreateChannel
<1>6. CASE s.amqp.channel[kind] = None /\ k # None /\ s.net[k] \in {"open", "broken"}
  <2>1. KindFits(p, Waiting("creating", kind, k)) /\ Answerable(w.net, Waiting("creating", kind, k))
    BY <1>2, <1>6 DEF KindFits, Answerable, Waiting
  <2>2. k \in Conn \cup {None}
    BY <1>1 DEF Connector
  <2>3. SoundBut(Wait(w, p, "creating", kind, k), P, D)
    BY <1>3, <2>1, <2>2, WaitSound DEF Steps
  <2>. QED BY <1>6, <2>3 DEF CreateChannel
<1>7. CASE s.amqp.channel[kind] = None /\ k # None /\ s.net[k] \notin {"open", "broken"}
  <2>1. SoundBut(OnDisconnect(w), P, D)
    BY <1>3, DisconnectSound
  <2>2. SoundBut(Failed(OnDisconnect(w), p), P, D)
    BY <2>1, FailedSound
  <2>. QED BY <1>7, <2>2 DEF CreateChannel
<1>. QED BY <1>4, <1>5, <1>6, <1>7

\* Publishing the offline queue and making the subscriptions again: the calls wait over a
\* channel that is there.
LEMMA DrainSound ==
    ASSUME NEW s, NEW P, NEW D, SoundBut(s, P, D), s.amqp.channel["pub"] # None
    PROVE  SoundBut(Drain(s), P, D) /\ Drain(s).amqp = s.amqp
<1>. DEFINE t == Drain(s)
            c == Waiting("asserting", "pub", s.amqp.channel["pub"])
<1>1. s \in States /\ s.amqp \in Connector /\ "pub" \in Kind
  BY DEF SoundBut, States, Kind
<1>2. c \in Calls /\ Answerable(s.net, c) /\ \A p \in Proc : KindFits(p, c)
  BY <1>1 DEF Calls, Connector, Waiting, Steps, Answerable, SoundBut, ChannelsOpen, KindFits
<1>3. /\ t.amqp = s.amqp /\ t.net = s.net
      /\ t.proc = [p \in Proc |-> IF p \in Msg /\ s.proc[p].at = "offline" THEN c ELSE s.proc[p]]
  BY <1>1 DEF Drain, States
<1>4. t \in States
  BY <1>1, <1>2, <1>3 DEF Drain, States
<1>5. \A m \in D : t.proc[m] = s.proc[m]
  BY <1>3 DEF SoundBut, Proc
<1>. QED BY <1>2, <1>3, <1>4, <1>5 DEF SoundBut, ChannelsOpen

LEMMA ResubscribeSound ==
    ASSUME NEW s, NEW P, NEW D, SoundBut(s, P, D), s.amqp.channel["cons"] # None
    PROVE  SoundBut(Resubscribe(s), P, D) /\ Resubscribe(s).amqp.channel = s.amqp.channel
<1>. DEFINE d == [s EXCEPT !.amqp.routes = {}]
            t == Resubscribe(s)
            c == Waiting("subscribing", "cons", s.amqp.channel["cons"])
<1>1. s \in States /\ s.amqp \in Connector /\ "cons" \in Kind
  BY DEF SoundBut, States, Kind
<1>2. c \in Calls /\ Answerable(s.net, c) /\ \A p \in Proc : KindFits(p, c)
  BY <1>1 DEF Calls, Connector, Waiting, Steps, Answerable, SoundBut, ChannelsOpen, KindFits
<1>3. /\ t.amqp = [s.amqp EXCEPT !.routes = {}] /\ t.net = s.net
      /\ t.proc = [p \in Proc |-> IF p \in s.amqp.routes THEN c ELSE s.proc[p]]
  BY <1>1 DEF Resubscribe, States
<1>4. t.amqp \in Connector /\ t.amqp.channel = s.amqp.channel
  BY <1>1, <1>3 DEF Connector
<1>5. t \in States
  BY <1>1, <1>2, <1>3, <1>4 DEF Resubscribe, States
<1>6. \A m \in D : t.proc[m] = s.proc[m]
  BY <1>1, <1>3, CallsAssumption DEF SoundBut, Proc, Connector
<1>. QED BY <1>2, <1>3, <1>4, <1>5, <1>6 DEF SoundBut, ChannelsOpen

\* What the calls P become when their requests are rejected waits for nothing.
LEMMA RejectAllSound ==
    ASSUME NEW s, NEW P, NEW Q, NEW D, SoundBut(s, P \cup Q, D), P \subseteq Proc, P \cap D = {}
    PROVE  SoundBut(RejectAll(s, P), Q, D) /\ RejectAll(s, P).amqp = s.amqp
<1>. DEFINE t == RejectAll(s, P)
<1>1. s \in States
  BY DEF SoundBut
<1>2. \A p \in P : /\ Rejected(s, p) \in Calls
                   /\ Rejected(s, p).at \in {"offline", "failed", "resuming", "idle", "done"}
  <2>. SUFFICES ASSUME NEW p \in P
                PROVE  /\ Rejected(s, p) \in Calls
                       /\ Rejected(s, p).at \in {"offline", "failed", "resuming", "idle", "done"}
    OBVIOUS
  <2>1. p \in Proc /\ p \notin D
    OBVIOUS
  <2>2. Wait(s, p, "done", "pub", None).proc[p] = Waiting("done", "pub", None)
    BY <1>1, <2>1 DEF Wait, States
  <2>3. Waiting("done", "pub", None) \in Calls
    BY DEF Waiting, Calls, Steps, Kind
  <2>4. /\ Failed(s, p).proc[p] \in Calls
        /\ Failed(s, p).proc[p].at \in {"offline", "failed", "resuming", "idle"}
    BY <2>1, FailedSound
  <2>. QED BY <2>2, <2>3, <2>4 DEF Rejected, Waiting
<1>3. /\ t.amqp = s.amqp /\ t.net = s.net
      /\ t.proc = [p \in Proc |-> IF p \in P THEN Rejected(s, p) ELSE s.proc[p]]
  BY <1>1 DEF RejectAll, States
<1>4. t \in States
  BY <1>1, <1>2, <1>3 DEF RejectAll, States
<1>5. \A p \in P : KindFits(p, t.proc[p]) /\ Answerable(t.net, t.proc[p])
  BY <1>2, <1>3 DEF KindFits, Answerable, Awaits
<1>6. \A p \in Proc \ P : t.proc[p] = s.proc[p]
  BY <1>3
<1>7. \A m \in D : m \in Msg /\ t.proc[m].at = "done"
  BY <1>6 DEF SoundBut, Proc
<1>. QED BY <1>3, <1>4, <1>5, <1>6, <1>7 DEF SoundBut, ChannelsOpen

-----------------------------------------------------------------------------
(***************************************************************************)
(* The invariant                                                           *)
(***************************************************************************)
LEMMA InitInv == ASSUME Init PROVE Inv
<1>1. State \in States
  BY NoChannelType DEF Init, State, States, Connector, Nets, Calls, Waiting, Steps, Kind
<1>2. Sent = {}
  BY DEF Init, Sent
<1>3. ChannelsOpen(State)
  BY NoChannelType DEF Init, State, ChannelsOpen
<1>4. \A p \in Proc : KindFits(p, State.proc[p]) /\ Answerable(State.net, State.proc[p])
  BY DEF Init, State, KindFits, Answerable, Awaits, Waiting
<1>. QED BY <1>1, <1>2, <1>3, <1>4 DEF Inv, SoundBut, Init

\* A step that takes the connector to a sound state, receiving nothing.
LEMMA BecomeInv ==
    ASSUME Inv, NEW t, SoundBut(t, {}, Sent), Become(t), received' = received,
           consuming' \in [Conn -> SUBSET Queue]
    PROVE  Inv'
<1>1. t \in States
  BY DEF SoundBut
<1>2. State' = t
  BY <1>1 DEF State, Become, States
<1>3. Sent' = Sent
  BY DEF Sent
<1>4. SoundBut(State, {}, Sent)'
  BY <1>1, <1>2, <1>3 DEF SoundBut, ChannelsOpen
<1>. QED BY <1>4 DEF Inv

\* The types of the connector's parts, and what the calls' states say.
LEMMA StateFacts ==
    ASSUME Inv
    PROVE  /\ State \in States /\ amqp \in Connector /\ net \in Nets /\ proc \in [Proc -> Calls]
           /\ State.amqp = amqp /\ State.net = net /\ State.proc = proc
           /\ \A p \in Proc : KindFits(p, proc[p]) /\ Answerable(net, proc[p])
           /\ \A p \in Proc : proc[p].at # "done" => p \notin Sent
           /\ \A p \in Proc : p \notin Msg => p \notin Sent
           /\ SoundBut(State, {}, Sent)
           /\ consuming \in [Conn -> SUBSET Queue]
BY DEF Inv, SoundBut, States, State, Sent

LEMMA PublishInv == ASSUME Inv, NEW m \in Msg, Publish(m) PROVE Inv'
<1>1. m \in Proc /\ m \notin Sent /\ "pub" \in Kind /\ m \notin Queue
  BY StateFacts, CallsAssumption DEF Publish, At, Proc, Kind
<1>2. SoundBut(CreateChannel(State, m, "pub"), {}, Sent)
  BY <1>1, StateFacts, CreateChannelSound
<1>. QED BY <1>2, BecomeInv, StateFacts DEF Publish

LEMMA ConsumeInv == ASSUME Inv, NEW q \in Queue, Consume(q) PROVE Inv'
<1>1. q \in Proc /\ q \notin Sent /\ "cons" \in Kind /\ q \notin Msg
  BY StateFacts, CallsAssumption DEF Consume, At, Proc, Kind
<1>2. SoundBut(CreateChannel(State, q, "cons"), {}, Sent)
  BY <1>1, StateFacts, CreateChannelSound
<1>. QED BY <1>2, BecomeInv, StateFacts DEF Consume

LEMMA StopInv == ASSUME Inv, Stop PROVE Inv'
<1>. DEFINE c == Close(State)
            t == [c EXCEPT !.amqp.stopped = TRUE]
<1>1. SoundBut(c, {}, Sent)
  BY StateFacts, CloseSound
<1>2. t \in States /\ t.amqp.channel = c.amqp.channel /\ t.net = c.net /\ t.proc = c.proc
  BY <1>1 DEF SoundBut, States, Connector
<1>3. SoundBut(t, {}, Sent)
  BY <1>1, <1>2 DEF SoundBut, ChannelsOpen
<1>. QED BY <1>3, BecomeInv, StateFacts DEF Stop

LEMMA ConnectedInv == ASSUME Inv, NEW p \in Proc, Connected(p) PROVE Inv'
<1>1. PICK k \in Conn :
        LET s == [State EXCEPT !.amqp.conn = k, !.net[k] = "open"]
        IN  Become(Wait(s, p, IF p \in Conn /\ proc[p].kind = "none" THEN "started" ELSE "creating",
                        proc[p].kind, k))
  BY DEF Connected
<1>. DEFINE s == [State EXCEPT !.amqp.conn = k, !.net[k] = "open"]
            a == IF p \in Conn /\ proc[p].kind = "none" THEN "started" ELSE "creating"
            kind == proc[p].kind
<1>2. p \notin Sent
  BY StateFacts DEF Connected, At
<1>3. /\ s \in States /\ s.amqp.channel = amqp.channel /\ s.proc = proc
      /\ s.net = [net EXCEPT ![k] = "open"]
  BY StateFacts DEF States, Connector, Nets
<1>4. \A j \in Conn : net[j] # "closed" => s.net[j] # "closed"
  BY <1>3, StateFacts DEF Nets
<1>5. ChannelsOpen(s)
  BY <1>3, <1>4, StateFacts DEF SoundBut, ChannelsOpen, Connector
<1>6. \A q \in Proc : Answerable(s.net, proc[q])
  BY <1>3, <1>4, StateFacts DEF Answerable, Calls
<1>7. SoundBut(s, {}, Sent)
  BY <1>3, <1>5, <1>6, StateFacts DEF SoundBut
<1>8. a \in Steps /\ kind \in Kind \cup {"none"} /\ k \in Conn \cup {None}
  BY StateFacts DEF Steps, Calls
<1>9. Answerable(s.net, Waiting(a, kind, k))
  BY <1>3, StateFacts, ConnAssumption DEF Answerable, Waiting, Nets, None
<1>10. KindFits(p, Waiting(a, kind, k))
  BY StateFacts DEF Connected, At, KindFits, Waiting
<1>11. SoundBut(Wait(s, p, a, kind, k), {}, Sent)
  BY <1>2, <1>7, <1>8, <1>9, <1>10, WaitSound
<1>. QED BY <1>1, <1>11, BecomeInv, StateFacts DEF Connected

LEMMA CreatedInv == ASSUME Inv, NEW p \in Proc, Created(p) PROVE Inv'
<1>. DEFINE k == proc[p].on
            kind == proc[p].kind
            s == [State EXCEPT !.amqp.channel[kind] = k]
            t == IF kind = "pub" THEN Drain(s) ELSE Resubscribe(s)
<1>1. p \notin Sent /\ kind \in Kind /\ k \in Conn /\ net[k] = "open"
  BY StateFacts DEF Created, At, KindFits, Answerable, Awaits, Calls
<1>2. /\ s \in States /\ s.net = net /\ s.proc = proc
      /\ s.amqp.channel = [amqp.channel EXCEPT ![kind] = k]
  BY <1>1, StateFacts DEF States, Connector
<1>3. k # None
  BY <1>1, ConnAssumption DEF None
<1>4. ChannelsOpen(s) /\ s.amqp.channel[kind] # None
  BY <1>1, <1>2, <1>3, StateFacts DEF SoundBut, ChannelsOpen, Connector
<1>5. SoundBut(s, {}, Sent)
  BY <1>2, <1>4, StateFacts DEF SoundBut
<1>6. SoundBut(t, {}, Sent) /\ t.amqp.channel = s.amqp.channel
  BY <1>1, <1>4, <1>5, DrainSound, ResubscribeSound DEF Kind
<1>7. (p \in Msg => kind = "pub") /\ (p \in Queue => kind = "cons")
  BY StateFacts DEF Created, At, KindFits
<1>8. SoundBut(Ready(t, p), {}, Sent)
  BY <1>1, <1>4, <1>6, <1>7, ReadySound
<1>. QED BY <1>8, BecomeInv, StateFacts DEF Created

\* The only step in which the broker receives a message: the message was not done before.
LEMMA AssertedInv == ASSUME Inv, NEW m \in Msg, Asserted(m) PROVE Inv'
<1>. DEFINE k == amqp.channel["pub"]
            c == Waiting(IF k = None THEN "stuck" ELSE "done", "pub", k)
            t == Wait(State, m, IF k = None THEN "stuck" ELSE "done", "pub", k)
<1>1. m \in Proc /\ m \notin Sent /\ received[m] = 0
  BY StateFacts DEF Asserted, At, Sent, Proc
<1>2. k \in Conn \cup {None} /\ KindFits(m, c) /\ Answerable(net, c)
  BY StateFacts DEF Connector, Kind, KindFits, Answerable, Awaits, Waiting
<1>3. SoundBut(t, {}, Sent)
  BY <1>1, <1>2, StateFacts, WaitSound DEF Steps, Kind
<1>4. Become(t)
  BY StateFacts DEF Asserted, Become, Wait, States
<1>5. t \in States /\ State' = t
  BY <1>3, <1>4 DEF SoundBut, State, Become, States
<1>6. received' \in [Msg -> {0, 1}]
  BY <1>1 DEF Inv, Asserted
<1>7. /\ \A n \in Msg : n # m => received'[n] = received[n]
      /\ received'[m] # 0 => k # None
  BY <1>1 DEF Inv, Asserted
<1>8. proc'[m] = c
  BY <1>1, StateFacts DEF Asserted
<1>9. \A n \in Sent' : n \in Msg /\ t.proc[n].at = "done"
  BY <1>1, <1>3, <1>5, <1>7, <1>8 DEF Sent, SoundBut, State, Waiting
<1>10. SoundBut(t, {}, Sent')
  BY <1>3, <1>9 DEF SoundBut
<1>11. SoundBut(State, {}, Sent)'
  BY <1>5, <1>10 DEF SoundBut, ChannelsOpen
<1>. QED BY <1>6, <1>11 DEF Inv, Asserted

LEMMA SubscribedInv == ASSUME Inv, NEW q \in Queue, Subscribed(q) PROVE Inv'
<1>. DEFINE k == amqp.channel["cons"]
            s == IF k = None THEN State ELSE [State EXCEPT !.amqp.routes = @ \cup {q}]
            a == IF k = None THEN "failed" ELSE "done"
            t == Wait(s, q, a, "cons", k)
<1>1. q \in Proc /\ q \notin Sent
  BY StateFacts DEF Subscribed, At, Proc
<1>2. /\ s \in States /\ s.net = net /\ s.proc = proc
      /\ s.amqp.channel = amqp.channel
      /\ s.amqp = IF k = None THEN amqp ELSE [amqp EXCEPT !.routes = @ \cup {q}]
  BY StateFacts DEF States, Connector
<1>3. SoundBut(s, {}, Sent)
  BY <1>2, StateFacts DEF SoundBut, ChannelsOpen
<1>4. a \in Steps /\ k \in Conn \cup {None} /\ "cons" \in Kind
  BY StateFacts DEF Steps, Connector, Kind
<1>5. KindFits(q, Waiting(a, "cons", k)) /\ Answerable(s.net, Waiting(a, "cons", k))
  BY DEF KindFits, Answerable, Awaits, Waiting
<1>6. SoundBut(t, {}, Sent)
  BY <1>1, <1>3, <1>4, <1>5, WaitSound
<1>7. Become(t)
  BY <1>2, StateFacts DEF Subscribed, Become, Wait, States
<1>8. consuming' \in [Conn -> SUBSET Queue]
  BY <1>4, StateFacts DEF Subscribed
<1>. QED BY <1>6, <1>7, <1>8, BecomeInv DEF Subscribed

LEMMA BreakInv == ASSUME Inv, NEW k \in Conn, Break(k) PROVE Inv'
<1>. DEFINE t == [State EXCEPT !.net[k] = "broken"]
<1>1. t \in States /\ t.amqp = amqp /\ t.proc = proc /\ t.net = [net EXCEPT ![k] = "broken"]
  BY StateFacts DEF States, Nets
<1>2. \A j \in Conn : net[j] # "closed" => t.net[j] # "closed"
  BY <1>1, StateFacts DEF Nets
<1>3. ChannelsOpen(t)
  BY <1>1, <1>2, StateFacts DEF SoundBut, ChannelsOpen, Connector
<1>4. \A p \in Proc : Answerable(t.net, proc[p])
  BY <1>1, <1>2, StateFacts DEF Answerable, Calls
<1>5. SoundBut(t, {}, Sent)
  BY <1>1, <1>3, <1>4, StateFacts DEF SoundBut
<1>6. Become(t)
  BY <1>1 DEF Break, Become
<1>. QED BY <1>5, <1>6, BecomeInv, StateFacts DEF Break

LEMMA ChannelErrorInv == ASSUME Inv, ChannelError PROVE Inv'
<1>. DEFINE P == {m \in Msg : At(m, "asserting") /\ proc[m].on = amqp.channel["pub"]}
            d == OnDisconnect(State)
<1>1. SoundBut(d, {}, Sent)
  BY StateFacts, DisconnectSound
<1>2. P \subseteq Proc /\ P \cap Sent = {}
  BY StateFacts DEF At, Proc
<1>3. SoundBut(d, P \cup {}, Sent)
  BY <1>1 DEF SoundBut
<1>4. SoundBut(RejectAll(d, P), {}, Sent)
  BY <1>2, <1>3, RejectAllSound
<1>. QED BY <1>4, BecomeInv, StateFacts DEF ChannelError

\* The calls that wait over the connection are those that are rejected, and no channel is
\* left that could be of it.
LEMMA ClosedInv == ASSUME Inv, NEW k \in Conn, Closed(k) PROVE Inv'
<1>. DEFINE e == IF net[k] = "broken" THEN OnDisconnect(State) ELSE State
            d == [e EXCEPT !.net[k] = "closed"]
            f == Forget(d, k)
            P == Pending(k)
            r == RejectAll(f, P)
<1>1. SoundBut(e, {}, Sent) /\ e.proc = proc
  BY StateFacts, DisconnectSound
<1>2. e \in States /\ e.amqp \in Connector /\ e.net \in Nets
  BY <1>1 DEF SoundBut, States
<1>3. /\ d \in States /\ d.amqp = e.amqp /\ d.proc = proc
      /\ d.net = [e.net EXCEPT ![k] = "closed"]
  BY <1>1, <1>2 DEF States, Nets
<1>4. /\ f \in States /\ f.proc = proc /\ f.net = d.net /\ f.amqp.channel = NoChannel
  BY <1>2, <1>3, NoChannelType DEF Forget, States, Connector
<1>5. \A p \in Proc \ P : Answerable(f.net, proc[p])
  <2>. SUFFICES ASSUME NEW p \in Proc, p \notin P, Awaits(proc[p])
                PROVE  proc[p].on # None /\ f.net[proc[p].on] # "closed"
    BY DEF Answerable
  <2>1. proc[p].on # k
    BY DEF Pending, Awaits
  <2>2. proc[p].on # None /\ e.net[proc[p].on] # "closed"
    BY <1>1 DEF SoundBut, Answerable
  <2>3. proc[p].on \in Conn
    BY <2>2, StateFacts DEF Calls
  <2>. QED BY <1>2, <1>3, <1>4, <2>1, <2>2, <2>3 DEF Nets
<1>6. SoundBut(f, P \cup {}, Sent)
  BY <1>1, <1>4, <1>5, NoChannelType DEF SoundBut, ChannelsOpen
<1>7. P \subseteq Proc /\ P \cap Sent = {}
  BY StateFacts DEF Pending
<1>8. SoundBut(r, {}, Sent)
  BY <1>6, <1>7, RejectAllSound
<1>9. k \in Proc /\ k \notin Sent
  BY StateFacts, CallsAssumption DEF Proc
<1>10. KindFits(k, Waiting("sleeping", "none", None)) /\ Answerable(r.net, Waiting("sleeping", "none", None))
  BY DEF KindFits, Answerable, Awaits, Waiting
<1>11. SoundBut(Wait(r, k, "sleeping", "none", None), {}, Sent)
  BY <1>8, <1>9, <1>10, WaitSound DEF Steps
<1>12. consuming' \in [Conn -> SUBSET Queue]
  BY StateFacts DEF Closed
<1>. QED BY <1>8, <1>11, <1>12, BecomeInv DEF Closed

LEMMA WakeInv == ASSUME Inv, NEW k \in Conn, Wake(k) PROVE Inv'
<1>. DEFINE s == [State EXCEPT !.amqp.stopped = FALSE]
            a == IF amqp.conn = None THEN "connecting" ELSE "started"
<1>1. /\ s \in States /\ s.net = net /\ s.proc = proc /\ s.amqp.channel = amqp.channel
  BY StateFacts DEF States, Connector
<1>2. SoundBut(s, {}, Sent)
  BY <1>1, StateFacts DEF SoundBut, ChannelsOpen
<1>3. k \in Proc /\ k \notin Sent /\ k \notin Msg /\ k \notin Queue /\ a \in Steps
  BY StateFacts, CallsAssumption DEF Proc, Steps
<1>4. KindFits(k, Waiting(a, "none", None)) /\ Answerable(s.net, Waiting(a, "none", None))
  BY <1>3 DEF KindFits, Answerable, Awaits, Waiting
<1>5. SoundBut(Wait(s, k, a, "none", None), {}, Sent)
  BY <1>2, <1>3, <1>4, WaitSound
<1>. QED BY <1>5, BecomeInv, StateFacts DEF Wake

\* The step that goes on without a channel, and the one that asks for it.
LEMMA StartedInv == ASSUME Inv, NEW k \in Conn, Started(k) PROVE Inv'
<1>1. k \in Proc /\ k \notin Sent /\ k \notin Msg /\ k \notin Queue
  BY StateFacts, CallsAssumption DEF Proc
<1>2. \A a \in {"started", "resuming"}, c \in Kind :
        a \in Steps /\ KindFits(k, Waiting(a, c, None)) /\ Answerable(net, Waiting(a, c, None))
  BY DEF Steps, KindFits, Answerable, Awaits, Waiting
<1>3. /\ SoundBut(Wait(State, k, "started", "pub", None), {}, Sent)
      /\ SoundBut(Wait(State, k, "resuming", "cons", None), {}, Sent)
  BY <1>1, <1>2, StateFacts, WaitSound DEF Kind
<1>4. SoundBut(CreateChannel(Wait(State, k, "started", "pub", None), k, "pub"), {}, Sent)
  BY <1>1, <1>3, CreateChannelSound DEF Kind
<1>. QED BY <1>3, <1>4, BecomeInv, StateFacts DEF Started

LEMMA ResumingInv == ASSUME Inv, NEW k \in Conn, Resuming(k) PROVE Inv'
<1>1. k \in Proc /\ k \notin Sent /\ k \notin Msg /\ k \notin Queue
  BY StateFacts, CallsAssumption DEF Proc
<1>2. KindFits(k, Waiting("idle", "none", None)) /\ Answerable(net, Waiting("idle", "none", None))
  BY DEF KindFits, Answerable, Awaits, Waiting
<1>3. SoundBut(Wait(State, k, "idle", "none", None), {}, Sent)
  BY <1>1, <1>2, StateFacts, WaitSound DEF Steps
<1>4. SoundBut(CreateChannel(State, k, "cons"), {}, Sent)
  BY <1>1, StateFacts, CreateChannelSound DEF Kind
<1>. QED BY <1>3, <1>4, BecomeInv, StateFacts DEF Resuming

LEMMA NextInv == ASSUME Inv, [Next]_vars PROVE Inv'
<1>1. ASSUME NEW p \in Proc, Step(p) PROVE Inv'
  <2>1. CASE Connected(p)
    BY <2>1, ConnectedInv
  <2>2. CASE Created(p)
    BY <2>2, CreatedInv
  <2>3. CASE p \in Msg /\ Asserted(p)
    BY <2>3, AssertedInv
  <2>4. CASE p \in Queue /\ Subscribed(p)
    BY <2>4, SubscribedInv
  <2>5. CASE p \in Conn /\ (Closed(p) \/ Wake(p) \/ Started(p) \/ Resuming(p))
    BY <2>5, ClosedInv, WakeInv, StartedInv, ResumingInv
  <2>. QED BY <1>1, <2>1, <2>2, <2>3, <2>4, <2>5 DEF Step
<1>2. ASSUME NEW m \in Msg, Publish(m) PROVE Inv'
  BY <1>2, PublishInv
<1>3. ASSUME NEW q \in Queue, Consume(q) PROVE Inv'
  BY <1>3, ConsumeInv
<1>4. ASSUME NEW k \in Conn, Break(k) PROVE Inv'
  BY <1>4, BreakInv
<1>5. CASE ChannelError \/ Stop
  BY <1>5, ChannelErrorInv, StopInv
<1>6. CASE UNCHANGED vars
  <2>1. State' = State /\ Sent' = Sent
    BY <1>6 DEF State, Sent, vars
  <2>2. SoundBut(State, {}, Sent)'
    BY <1>6, <2>1 DEF Inv, SoundBut, ChannelsOpen, vars
  <2>. QED BY <1>6, <2>2 DEF Inv, vars
<1>. QED BY <1>1, <1>2, <1>3, <1>4, <1>5, <1>6 DEF Next

LEMMA Invariance == Spec => []Inv
<1>1. Init => Inv
  BY InitInv
<1>2. Inv /\ [Next]_vars => Inv'
  BY NextInv
<1>. QED BY <1>1, <1>2, PTL DEF Spec

-----------------------------------------------------------------------------
(***************************************************************************)
(* Theorems                                                                *)
(***************************************************************************)
\* The connector and its calls keep their types, and a call that waits for an answer waits
\* for it over a connection that is not closed: closing one rejects all calls over it
\* (RabbitMQ's client, as AMQPConnector uses it).
THEOREM TypeCorrect == Spec => []TypeOK
<1>1. Inv => TypeOK
  <2>. SUFFICES ASSUME Inv PROVE TypeOK
    OBVIOUS
  <2>1. /\ net \in [Conn -> {"closed", "open", "broken", "closing"}]
        /\ amqp.conn \in Conn \cup {None}
        /\ amqp.channel \in [Kind -> Conn \cup {None}]
        /\ amqp.wanted \subseteq Kind
        /\ amqp.routes \subseteq Queue
        /\ proc \in [Proc -> [at : Steps, kind : Kind \cup {"none"}, on : Conn \cup {None}]]
    BY StateFacts DEF Nets, Connector, Calls
  <2>2. \A p \in Proc : proc[p].at \in {"creating", "asserting", "subscribing"}
                         => proc[p].on # None /\ net[proc[p].on] # "closed"
    BY StateFacts DEF Answerable, Awaits
  <2>3. received \in [Msg -> Nat] /\ consuming \in [Conn -> SUBSET Queue]
    BY DEF Inv
  <2>. QED BY <2>1, <2>2, <2>3 DEF TypeOK
<1>. QED BY <1>1, Invariance, PTL

\* The connector has no channel of a connection that is closed, whichever calls overlap and
\* however often the network breaks.
THEOREM ChannelsStayLive == Spec => []ChannelsLive
<1>1. Inv => ChannelsLive
  BY StateFacts DEF SoundBut, ChannelsOpen, ChannelsLive
<1>. QED BY <1>1, Invariance, PTL

\* No message reaches the broker twice: a call whose message was received is done, and
\* neither the offline queue nor a rejection publishes it again.
THEOREM NoDuplicate == Spec => []PublishedOnce
<1>1. Inv => PublishedOnce
  BY DEF Inv, PublishedOnce
<1>. QED BY <1>1, Invariance, PTL
=============================================================================
