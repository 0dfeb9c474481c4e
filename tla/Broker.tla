------------------------------- MODULE Broker -------------------------------
(***************************************************************************)
(* AMQPConnector, through which every server process publishes to and      *)
(* consumes from RabbitMQ.  It opens its connection and its two channels   *)
(* when somebody first needs them, keeps messages it could not publish in  *)
(* an offline queue, and opens everything again ten seconds after the      *)
(* connection was closed.                                                  *)
(*                                                                         *)
(* Calls overlap: each publish, each subscription and each reconnection is *)
(* a process that waits for an answer of the broker while others change    *)
(* `conn' and `channel'.  Two that find no connection open two; the one    *)
(* that is overwritten stays open, with its handlers.                      *)
(*                                                                         *)
(* A channel is the number of its connection.  A closed connection's       *)
(* number is used again when its reconnection has ended.                   *)
(***************************************************************************)
EXTENDS Naturals, FiniteSets

CONSTANTS
    Msg,            \* messages, each published by one call
    Queue,          \* queues, each consumed by one call
    Conn,           \* connections
    MaxFaults       \* how often the network or the broker breaks something

ASSUME ConnAssumption == Conn \subseteq Nat \ {0}
ASSUME CallsAssumption == Msg \cap Queue = {} /\ Msg \cap Conn = {} /\ Queue \cap Conn = {}
ASSUME FaultsAssumption == MaxFaults \in Nat

VARIABLES
    net,            \* the state of each connection
    amqp,           \* the connector
    proc,           \* what each call waits for
    received,       \* how often the broker has received a message
    consuming,      \* the queues consumed over each connection
    faults,         \* how many faults there were
    stops           \* whether Stop was called from outside

vars == <<net, amqp, proc, received, consuming, faults, stops>>

Proc == Msg \cup Queue \cup Conn
Kind == {"pub", "cons"}
None == 0
NoChannel == [c \in Kind |-> None]

Waiting(at, kind, k) == [at |-> at, kind |-> kind, on |-> k]
At(p, s) == proc[p].at = s

-----------------------------------------------------------------------------
(***************************************************************************)
(* The parts of a call.  `s' holds the connector and the calls' processes. *)
(***************************************************************************)
State == [amqp |-> amqp, net |-> net, proc |-> proc]

Become(s) == amqp' = s.amqp /\ net' = s.net /\ proc' = s.proc

Wait(s, p, at, kind, k) == [s EXCEPT !.proc[p] = Waiting(at, kind, k)]

\* Stop: the channels are dropped and the connection, whichever it is by now, is closed.
Close(s) ==
    LET c == s.amqp.conn
        d == [s EXCEPT !.amqp.channel = NoChannel]
    IN  IF c # None /\ s.net[c] \in {"open", "broken"} THEN [d EXCEPT !.net[c] = "closing"] ELSE d

OnDisconnect(s) == IF s.amqp.stopped THEN s ELSE Close(s)

\* The call p could not get its channel: the message waits in the offline queue, the
\* subscription is given up, the reconnection goes on.
Failed(s, p) ==
    IF p \in Msg THEN Wait(s, p, "offline", "pub", None)
    ELSE IF p \in Queue THEN Wait(s, p, "failed", "cons", None)
    ELSE Wait(s, p, IF s.proc[p].kind = "pub" THEN "resuming" ELSE "idle", "cons", None)

\* The call p has its channel.
Ready(s, p) ==
    IF p \in Msg THEN Wait(s, p, "asserting", "pub", s.amqp.channel["pub"])
    ELSE IF p \in Queue THEN Wait(s, p, "subscribing", "cons", s.amqp.channel["cons"])
    ELSE Wait(s, p, IF s.proc[p].kind = "pub" THEN "resuming" ELSE "idle", "cons", None)

\* Mutant: the connection is expected to be there.
NotStarted(s, p, kind) ==
    LET w == [s EXCEPT !.amqp.wanted = @ \cup {kind}]
    IN  IF s.amqp.channel[kind] # None THEN Ready(s, p) ELSE Wait(w, p, "creating", kind, s.amqp.conn)

\* CreatePublisherChannel and CreateConsumerChannel, up to their first answer.
CreateChannel(s, p, kind) ==
    LET c == s.amqp.conn
        w == [s EXCEPT !.amqp.wanted = @ \cup {kind}]
    IN  IF s.amqp.channel[kind] # None THEN Ready(s, p)
        ELSE IF c = None THEN Wait([w EXCEPT !.amqp.stopped = FALSE], p, "connecting", kind, None)
        ELSE IF s.net[c] \in {"open", "broken"} THEN Wait(w, p, "creating", kind, c)
        ELSE Failed(OnDisconnect(w), p)

\* Mutant: the offline queue is not looked at.
NotDrained(s) == s

\* The messages of the offline queue are published as by new calls.
Drain(s) ==
    [s EXCEPT !.proc = [p \in Proc |->
        IF p \in Msg /\ s.proc[p].at = "offline"
        THEN Waiting("asserting", "pub", s.amqp.channel["pub"]) ELSE s.proc[p]]]

\* The list of subscriptions is emptied, and each is made again.
Resubscribe(s) ==
    [s EXCEPT !.amqp.routes = {}, !.proc = [p \in Proc |->
        IF p \in s.amqp.routes THEN Waiting("subscribing", "cons", s.amqp.channel["cons"]) ELSE s.proc[p]]]

-----------------------------------------------------------------------------
(***************************************************************************)
(* Calls from outside                                                      *)
(***************************************************************************)
Publish(m) ==
    /\ At(m, "idle")
    /\ Become(CreateChannel(State, m, "pub"))
    /\ UNCHANGED <<received, consuming, faults, stops>>

Consume(q) ==
    /\ At(q, "idle")
    /\ Become(CreateChannel(State, q, "cons"))
    /\ UNCHANGED <<received, consuming, faults, stops>>

Stop ==
    /\ stops = 0
    /\ stops' = 1
    /\ Become([Close(State) EXCEPT !.amqp.stopped = TRUE])
    /\ UNCHANGED <<received, consuming, faults>>

-----------------------------------------------------------------------------
(***************************************************************************)
(* Answers of the broker                                                   *)
(***************************************************************************)
Free(k) == net[k] = "closed" /\ At(k, "idle")

\* Start: the new connection becomes the connector's, over any other there is by now.
Connected(p) ==
    /\ At(p, "connecting")
    /\ \E k \in Conn :
        /\ Free(k) /\ \A j \in Conn : Free(j) => k <= j
        /\ LET s == [State EXCEPT !.amqp.conn = k, !.net[k] = "open"]
           IN  Become(Wait(s, p, IF p \in Conn /\ proc[p].kind = "none" THEN "started" ELSE "creating",
                           proc[p].kind, k))
    /\ UNCHANGED <<received, consuming, faults, stops>>

\* A channel is there, and becomes the connector's.
Created(p) ==
    /\ At(p, "creating")
    /\ net[proc[p].on] = "open"
    /\ LET s == [State EXCEPT !.amqp.channel[proc[p].kind] = proc[p].on]
       IN  Become(Ready(IF proc[p].kind = "pub" THEN Drain(s) ELSE Resubscribe(s), p))
    /\ UNCHANGED <<received, consuming, faults, stops>>

\* PublishLocal: on the connector's channel of now.  Without one the exception is lost in
\* the executor of a promise that never settles; on a broken one nobody looks at the
\* confirmation that does not come.
Asserted(m) ==
    LET k == amqp.channel["pub"]
    IN  /\ At(m, "asserting")
        /\ net[proc[m].on] = "open"
        /\ proc' = [proc EXCEPT ![m] = Waiting(IF k = None THEN "stuck" ELSE "done", "pub", k)]
        /\ received' = [received EXCEPT ![m] = @ + IF k # None /\ net[k] = "open" THEN 1 ELSE 0]
        /\ UNCHANGED <<net, amqp, consuming, faults, stops>>

\* ConsumeQueue's consume, and its entry in the list of subscriptions.
Subscribed(q) ==
    LET k == amqp.channel["cons"]
    IN  /\ At(q, "subscribing")
        /\ net[proc[q].on] = "open"
        /\ IF k = None
           THEN /\ proc' = [proc EXCEPT ![q] = Waiting("failed", "cons", None)]
                /\ UNCHANGED <<amqp, consuming>>
           ELSE /\ proc' = [proc EXCEPT ![q] = Waiting("done", "cons", k)]
                /\ amqp' = [amqp EXCEPT !.routes = @ \cup {q}]
                /\ consuming' = [consuming EXCEPT ![k] = @ \cup {q}]
        /\ UNCHANGED <<net, received, faults, stops>>

-----------------------------------------------------------------------------
(***************************************************************************)
(* Faults, and what the connector does about them                          *)
(***************************************************************************)
Break(k) ==
    /\ faults < MaxFaults
    /\ net[k] = "open"
    /\ net' = [net EXCEPT ![k] = "broken"]
    /\ faults' = faults + 1
    /\ UNCHANGED <<amqp, proc, received, consuming, stops>>

\* Mutant: a message whose confirmation did not come is published again.
Unconfirmed(k) ==
    {p \in Proc : /\ proc[p].on = k
                  /\ \/ proc[p].at \in {"creating", "asserting", "subscribing"}
                     \/ p \in Msg /\ proc[p].at = "done"}

\* The calls that wait for an answer over k.
Pending(k) == {p \in Proc : proc[p].on = k /\ proc[p].at \in {"creating", "asserting", "subscribing"}}

\* What becomes of a call whose request is rejected: a message goes to the offline queue
\* unless the connector was stopped when it was being published already.
Rejected(s, p) ==
    IF p \in Msg /\ proc[p].at = "asserting" /\ s.amqp.stopped
    THEN Wait(s, p, "done", "pub", None).proc[p] ELSE Failed(s, p).proc[p]

RejectAll(s, P) == [s EXCEPT !.proc = [p \in Proc |-> IF p \in P THEN Rejected(s, p) ELSE s.proc[p]]]

\* The broker refuses a publish and closes the channel: the calls on it are rejected and
\* the connection is closed for it.
ChannelError ==
    LET k == amqp.channel["pub"]
    IN  /\ faults < MaxFaults
        /\ k # None
        /\ net[k] = "open"
        /\ faults' = faults + 1
        /\ Become(RejectAll(OnDisconnect(State), {m \in Msg : At(m, "asserting") /\ proc[m].on = k}))
        /\ UNCHANGED <<received, consuming, stops>>

\* Mutant: the connection that is closed is taken for the connector's own.
OnlyItsOwn(s, k) ==
    IF s.amqp.conn # k THEN s
    ELSE [s EXCEPT !.amqp.conn = None, !.amqp.channel = NoChannel]

\* The handler of `close' forgets the connector's connection and channels, whether or not
\* they are of the connection that is closed.
Forget(s, k) == [s EXCEPT !.amqp.conn = None, !.amqp.channel = NoChannel]

\* An error of the connection is reported first, and disconnects.
Closed(k) ==
    LET e == IF net[k] = "broken" THEN OnDisconnect(State) ELSE State
        f == Forget([e EXCEPT !.net[k] = "closed"], k)
        r == RejectAll(f, Pending(k))
    IN  /\ net[k] \in {"broken", "closing"}
        /\ Become(IF amqp.stopped THEN r ELSE Wait(r, k, "sleeping", "none", None))
        /\ consuming' = [consuming EXCEPT ![k] = {}]
        /\ UNCHANGED <<received, faults, stops>>

\* Ten seconds later: Start ...
Wake(k) ==
    /\ At(k, "sleeping")
    /\ Become(Wait([State EXCEPT !.amqp.stopped = FALSE], k,
                   IF amqp.conn = None THEN "connecting" ELSE "started", "none", None))
    /\ UNCHANGED <<received, consuming, faults, stops>>

\* ... then the publisher's channel, if one was ever wanted ...
Started(k) ==
    /\ At(k, "started")
    /\ Become(IF "pub" \in amqp.wanted THEN CreateChannel(Wait(State, k, "started", "pub", None), k, "pub")
              ELSE Wait(State, k, "resuming", "cons", None))
    /\ UNCHANGED <<received, consuming, faults, stops>>

\* ... and the consumers'.
Resuming(k) ==
    /\ At(k, "resuming")
    /\ Become(IF "cons" \in amqp.wanted THEN CreateChannel(State, k, "cons")
              ELSE Wait(State, k, "idle", "none", None))
    /\ UNCHANGED <<received, consuming, faults, stops>>

-----------------------------------------------------------------------------
Init ==
    /\ net = [k \in Conn |-> "closed"]
    /\ amqp = [conn |-> None, channel |-> NoChannel, wanted |-> {}, stopped |-> FALSE,
               routes |-> {}]
    /\ proc = [p \in Proc |-> Waiting("idle", "none", None)]
    /\ received = [m \in Msg |-> 0]
    /\ consuming = [k \in Conn |-> {}]
    /\ faults = 0
    /\ stops = 0

Step(p) ==
    \/ Connected(p) \/ Created(p)
    \/ p \in Msg /\ Asserted(p)
    \/ p \in Queue /\ Subscribed(p)
    \/ p \in Conn /\ (Closed(p) \/ Wake(p) \/ Started(p) \/ Resuming(p))

Next ==
    \/ \E p \in Proc : Step(p)
    \/ \E m \in Msg : Publish(m)
    \/ \E q \in Queue : Consume(q)
    \/ \E k \in Conn : Break(k)
    \/ ChannelError \/ Stop

\* The broker answers, and a connection attempt succeeds in the end: Start tries thirty
\* times, with up to a minute between two attempts.
Fairness == \A p \in Proc : WF_vars(Step(p))

Spec == Init /\ [][Next]_vars
FairSpec == Spec /\ Fairness

-----------------------------------------------------------------------------
(***************************************************************************)
(* Properties                                                              *)
(***************************************************************************)
Steps == {"idle", "connecting", "creating", "asserting", "subscribing", "offline", "failed", "stuck",
          "done", "sleeping", "started", "resuming"}

\* The connector and its calls have values the code gives them, and a call that waits for
\* an answer waits for it over a connection that is not closed.
TypeOK ==
    /\ net \in [Conn -> {"closed", "open", "broken", "closing"}]
    /\ amqp.conn \in Conn \cup {None}
    /\ amqp.channel \in [Kind -> Conn \cup {None}]
    /\ amqp.wanted \subseteq Kind
    /\ amqp.routes \subseteq Queue
    /\ proc \in [Proc -> [at : Steps, kind : Kind \cup {"none"}, on : Conn \cup {None}]]
    /\ \A p \in Proc : proc[p].at \in {"creating", "asserting", "subscribing"}
                        => proc[p].on # None /\ net[proc[p].on] # "closed"
    /\ received \in [Msg -> Nat]
    /\ consuming \in [Conn -> SUBSET Queue]

\* No channel of the connector is one of a connection that is closed, although closing,
\* reconnecting and other calls' connecting overlap, and although connections that were
\* overwritten go on.
ChannelsLive == \A c \in Kind : amqp.channel[c] # None => net[amqp.channel[c]] # "closed"

\* A message never reaches the broker twice, although it is kept, and published again, when
\* publishing it failed: what fails has not been sent.
PublishedOnce == \A m \in Msg : received[m] <= 1

\* A message does not stay in the offline queue: whatever put it there also brings a
\* reconnection that empties the queue, as long as nobody stops the connector.
OfflineDrains == \A m \in Msg : At(m, "offline") ~> ~ At(m, "offline") \/ stops > 0
=============================================================================
