------------------------------ MODULE Session ------------------------------
(***************************************************************************)
(* The sync session between a server and the clients that keep a copy of   *)
(* its workspace: start_websocket_client_sync and start_webrtc_client_sync *)
(* (jwst-rpc client/), which connect and connect again, handle_connector   *)
(* at both ends with apply_change and the broadcast channel of its node,   *)
(* the connectors, and the messages of Workspace::sync_messages (jwst-core *)
(* workspaces/sync.rs).  SaveUpdate models what the same handler does for  *)
(* the storage; here nothing is stored.                                    *)
(*                                                                         *)
(* A document is the set of operations its node has.  Those that follow a  *)
(* gap in their author's clock are pending; the state vector is the rest.  *)
(***************************************************************************)
EXTENDS Awareness, Sequences, FiniteSets

CONSTANTS
    Client,      \* clients of the server
    Server,      \* the server
    Home,        \* the node each peer is connected to
    Op,          \* operations <<author, k>>; the server's are those of its other users
    Cap,         \* bound: messages the broadcast channel holds (10240 in the code)
    MaxChanges,  \* bound: edits and announcements
    MaxDrops     \* bound: connections that break, offers and messages that fail

ASSUME SessionAssumption ==
    /\ Server \notin Client
    /\ Home \in [Peer -> Client \cup {Server}]
    /\ Op \subseteq (Client \cup {Server}) \X (Nat \ {0})
    /\ Cap \in Nat \ {0}
    /\ MaxChanges \in Nat /\ MaxDrops \in Nat

Node == Client \cup {Server}
End == Client \X {"client", "server"}
NodeOf(e) == IF e[2] = "server" THEN Server ELSE e[1]
EndsOf(n) == {e \in End : NodeOf(e) = n}
EndsOfConn(c) == {<<c, "client">>, <<c, "server">>}
Other(e) == <<e[1], IF e[2] = "server" THEN "client" ELSE "server">>

VARIABLES
    doc,        \* the operations a node has
    published,  \* what of them its publisher has announced
    states,     \* Workspace.awareness of each node
    observed,   \* somebody has subscribed to the node's document
    stage,      \* where handle_connector is at each end
    answered,   \* the end has answered the other's Step1
    net,        \* what travels to each end, received and not applied included
    replies,    \* what apply_change has to send back
    rx,         \* what waits for an end in its node's broadcast channel
    missed,     \* history: a message never reached a connection, or was lost on it
    clock,      \* the clock each peer has reached
    changes, drops

docs == <<doc, published, observed>>
handlers == <<stage, answered, replies, rx>>
bounds == <<clock, changes, drops>>
vars == <<docs, states, handlers, net, missed, bounds>>

-----------------------------------------------------------------------------
(* Documents and messages *)

Integrated(ops) == {o \in ops : \A k \in 1..o[2] : <<o[1], k>> \in ops}
Pending(ops) == ops \ Integrated(ops)

\* Doc::encode_state_as_update: what the other lacks, and what is pending here.
\* Mutant: only what is new here, as if the other had all the rest.
EncodeLastOnly(ops, sv) == {o \in Integrated(ops) : <<o[1], o[2] + 1>> \notin ops} \ sv
EncodeStateAsUpdate(ops, sv) == (Integrated(ops) \ sv) \cup Pending(ops)

Step1(sv) == [t |-> "step1", ops |-> sv, states |-> NoStates]
Step2(ops) == [t |-> "step2", ops |-> ops, states |-> NoStates]
Update(ops) == [t |-> "update", ops |-> ops, states |-> NoStates]
Presence(s) == [t |-> "awareness", ops |-> {}, states |-> s]

\* What apply_change, the handler and the connector's two tasks pass on goes in
\* order, from one end's channel to the other's.
Carry(e, msgs) == net' = [net EXCEPT ![Other(e)] = @ \o msgs]

Message ==
    [t : {"step1", "step2", "update", "awareness"}, ops : SUBSET Op, states : [Peer -> State]]

\* Workspace::sync_init_message
\* Mutant: the state vector is left out.
SyncInitPresence(n) == <<Presence(states[n])>>
SyncInit(n) == <<Step1(Integrated(doc[n])), Presence(states[n])>>

Init ==
    /\ doc = [n \in Node |-> {}]
    /\ published = [n \in Node |-> {}]
    /\ states = [n \in Node |-> NoStates]
    /\ observed = {}
    /\ stage = [e \in End |-> IF e[2] = "client" THEN "new" ELSE "off"]
    /\ answered = {}
    /\ net = [e \in End |-> <<>>]
    /\ replies = [e \in End |-> <<>>]
    /\ rx = [e \in End |-> <<>>]
    /\ missed = {}
    /\ clock = [p \in Peer |-> 0]
    /\ changes = 0
    /\ drops = 0

-----------------------------------------------------------------------------
(* The broadcast channel of a node: an end that is more than Cap messages  *)
(* behind loses the oldest, and the loop's select passes over the error.   *)
(* An end that has answered a Step1 and not subscribed yet hears nothing.  *)

Listening(e) == stage[e] = "open"

KeepLast(q) == IF Len(q) > Cap THEN SubSeq(q, Len(q) - Cap + 1, Len(q)) ELSE q

Broadcast(n, msg) ==
    /\ rx' = [e \in End |->
                IF e \in EndsOf(n) /\ Listening(e) THEN KeepLast(Append(rx[e], msg)) ELSE rx[e]]
    /\ missed' = missed \cup
            {e[1] : e \in {d \in EndsOf(n) : \/ Listening(d) /\ Len(rx[d]) >= Cap
                                             \/ ~Listening(d) /\ d \in answered}}

\* DocPublisher: one message for all that changed since the last.
Publish(n) ==
    /\ n \in observed
    /\ Integrated(doc[n]) # published[n]
    /\ published' = [published EXCEPT ![n] = Integrated(doc[n])]
    /\ Broadcast(n, Update(Integrated(doc[n]) \ published[n]))
    /\ UNCHANGED <<doc, observed, states, stage, answered, replies, net, bounds>>

-----------------------------------------------------------------------------
(* What users do *)

\* An edit in a client's own copy of the workspace, or one of another user that
\* reaches the server, where an earlier one may have been lost on the way.
Edit(o) ==
    /\ changes < MaxChanges
    /\ o \notin doc[o[1]]
    /\ o[1] \in Client => o \in Integrated(doc[o[1]] \cup {o})
    /\ doc' = [doc EXCEPT ![o[1]] = @ \cup {o}]
    /\ changes' = changes + 1
    /\ UNCHANGED <<published, observed, states, handlers, net, missed, clock, drops>>

\* The callback on the node's awareness broadcasts what an update changed.
\* Mutant: it is called also when nothing did.
ApplyAwarenessAlways(n, update) ==
    LET new == ApplyStates(states[n], update) IN
    /\ states' = [states EXCEPT ![n] = new]
    /\ IF n \in observed
       THEN Broadcast(n, Presence(Changed(states[n], new)))
       ELSE UNCHANGED <<rx, missed>>
ApplyAwareness(n, update) ==
    LET new == ApplyStates(states[n], update) IN
    /\ states' = [states EXCEPT ![n] = new]
    /\ IF n \in observed /\ new # states[n]
       THEN Broadcast(n, Presence(Changed(states[n], new)))
       ELSE UNCHANGED <<rx, missed>>

\* A peer announces itself, or leaves, at its node; some of its states may have
\* been lost on the way.
Announce(p, k, on) ==
    /\ changes < MaxChanges
    /\ k \in {clock[p] + 1, clock[p] + 2}
    /\ on \/ clock[p] > 0
    /\ clock' = [clock EXCEPT ![p] = k]
    /\ ApplyAwareness(Home[p], [NoStates EXCEPT ![p] = [clock |-> k, on |-> on]])
    /\ changes' = changes + 1
    /\ UNCHANGED <<docs, stage, answered, replies, net, drops>>

-----------------------------------------------------------------------------
(* The client's loop *)

\* A copy that holds something is observed before it is connected, unless it
\* will be by WebRTC.
Start(c) ==
    /\ stage[<<c, "client">>] = "new"
    /\ stage' = [stage EXCEPT ![<<c, "client">>] = "off"]
    /\ observed' \in {observed} \cup (IF doc[c] = {} THEN {} ELSE {observed \cup {c}})
    /\ UNCHANGED <<doc, published, states, answered, replies, rx, net, missed, bounds>>

\* The client sleeps two seconds before it tries again: apply_change of the
\* connection before has long applied what it had received.
Reconnecting(c) == \A e \in EndsOfConn(c) : stage[e] = "off" /\ net[e] = <<>>

Connect(c) ==
    /\ Reconnecting(c)
    /\ stage' = [e \in End |-> IF e[1] = c THEN "applying" ELSE stage[e]]
    /\ UNCHANGED <<docs, states, answered, replies, rx, net, missed, bounds>>

\* The sending task of a data channel waits for it to open.
WaitForOpen(c) == stage' = [stage EXCEPT ![<<c, "client">>] = "stuck"]

\* By WebRTC: webrtc_connection only logs that its offer could not be posted, and
\* the client goes on to wait at a channel that nobody opens.
PostFails(c) ==
    /\ drops < MaxDrops
    /\ Reconnecting(c)
    /\ WaitForOpen(c)
    /\ drops' = drops + 1
    /\ UNCHANGED <<docs, states, answered, replies, rx, net, missed, clock, changes>>

\* A send of the client's socket fails without closing it: the sending task goes
\* on with the next message.
SendError(c) ==
    /\ drops < MaxDrops
    /\ stage[<<c, "client">>] = "open"
    /\ net[<<c, "server">>] # <<>>
    /\ net' = [net EXCEPT ![<<c, "server">>] = SubSeq(@, 1, Len(@) - 1)]
    /\ missed' = missed \cup {c}
    /\ drops' = drops + 1
    /\ UNCHANGED <<docs, states, handlers, clock, changes>>

\* The connection breaks.  What the ends had received (some of what was
\* travelling) they still apply; the rest is lost, and so are their answers.
Drop(c, k, l) ==
    /\ drops < MaxDrops
    /\ stage[<<c, "client">>] \notin {"new", "off", "stuck"}
    /\ net' = [net EXCEPT ![<<c, "client">>] = SubSeq(@, 1, k),
                          ![<<c, "server">>] = SubSeq(@, 1, l)]
    /\ stage' = [e \in End |-> IF e[1] = c THEN "off" ELSE stage[e]]
    /\ answered' = answered \ EndsOfConn(c)
    /\ replies' = [e \in End |-> IF e[1] = c THEN <<>> ELSE replies[e]]
    /\ rx' = [e \in End |-> IF e[1] = c THEN <<>> ELSE rx[e]]
    /\ missed' = missed \ {c}
    /\ drops' = drops + 1
    /\ UNCHANGED <<docs, states, clock, changes>>

-----------------------------------------------------------------------------
(* handle_connector at one end *)

\* join_broadcast: the document is observed ...
Subscribe(e) ==
    /\ stage[e] = "applying"
    /\ stage' = [stage EXCEPT ![e] = "joining"]
    /\ observed' = observed \cup {NodeOf(e)}
    /\ UNCHANGED <<doc, published, states, answered, replies, rx, net, missed, bounds>>

\* ... then the end listens to the channel, and sends its init message.
JoinAndInit(e) ==
    /\ stage[e] = "joining"
    /\ stage' = [stage EXCEPT ![e] = "open"]
    /\ Carry(e, SyncInit(NodeOf(e)))
    /\ UNCHANGED <<docs, states, answered, replies, rx, missed, bounds>>

\* The loop: what the node broadcasts goes to the other end.
Forward(e) ==
    /\ stage[e] = "open"
    /\ rx[e] # <<>>
    /\ rx' = [rx EXCEPT ![e] = Tail(@)]
    /\ Carry(e, <<Head(rx[e])>>)
    /\ UNCHANGED <<docs, states, stage, answered, replies, missed, bounds>>

\* apply_change: sync_messages on what was received.  Awareness and content are
\* sorted apart there, but touch different state; the answers of a batch are
\* sent when all of it is applied.
Reply(n, m) ==
    CASE m.t = "step1" -> <<Step2(EncodeStateAsUpdate(doc[n], m.ops))>>
      [] m.t = "update" ->
            LET echo == EncodeStateAsUpdate(doc[n] \cup m.ops, Integrated(doc[n])) IN
            IF echo = {} THEN <<>> ELSE <<Update(echo)>>
      [] OTHER -> <<>>

Apply(e) ==
    LET n == NodeOf(e)  m == Head(net[e]) IN
    /\ net[e] # <<>>
    /\ net' = [net EXCEPT ![e] = Tail(@)]
    /\ doc' = IF m.t \in {"step2", "update"} THEN [doc EXCEPT ![n] = @ \cup m.ops] ELSE doc
    /\ answered' = IF m.t = "step1" /\ stage[e] # "off" THEN answered \cup {e} ELSE answered
    /\ replies' = IF stage[e] = "off" THEN replies
                  ELSE [replies EXCEPT ![e] = @ \o Reply(n, m)]
    /\ IF m.t = "awareness" THEN ApplyAwareness(n, m.states)
       ELSE UNCHANGED <<states, rx, missed>>
    /\ UNCHANGED <<published, observed, stage, bounds>>

SendReplies(e) ==
    /\ replies[e] # <<>>
    /\ Carry(e, replies[e])
    /\ replies' = [replies EXCEPT ![e] = <<>>]
    /\ UNCHANGED <<docs, states, stage, answered, rx, missed, bounds>>

-----------------------------------------------------------------------------
\* The tasks: the client's loop, and at each end the handler and apply_change.
ClientLoop(c) == Start(c) \/ Connect(c)
Handler(e) == Subscribe(e) \/ JoinAndInit(e) \/ Forward(e)
ApplyChange(e) == Apply(e) \/ SendReplies(e)

Next ==
    \/ \E n \in Node : Publish(n)
    \/ \E o \in Op : Edit(o)
    \/ \E p \in Peer, k \in Clock, on \in BOOLEAN : Announce(p, k, on)
    \/ \E c \in Client :
        \/ ClientLoop(c) \/ PostFails(c) \/ SendError(c)
        \/ \E k \in 0..Len(net[<<c, "client">>]), l \in 0..Len(net[<<c, "server">>]) : Drop(c, k, l)
    \/ \E e \in End : Handler(e) \/ ApplyChange(e)

\* Tasks and the publisher thread go on; the loop tries again for ever, and the
\* server can be reached.
Fairness ==
    /\ \A n \in Node : WF_vars(Publish(n))
    /\ \A c \in Client : WF_vars(ClientLoop(c))
    /\ \A e \in End : WF_vars(Handler(e)) /\ WF_vars(ApplyChange(e))

Spec == Init /\ [][Next]_vars /\ Fairness

-----------------------------------------------------------------------------
(* Properties *)

\* Type invariant.
TypeOK ==
    /\ doc \in [Node -> SUBSET Op]
    /\ published \in [Node -> SUBSET Op]
    /\ states \in [Node -> [Peer -> State]]
    /\ observed \subseteq Node
    /\ stage \in [End -> {"new", "off", "stuck", "applying", "joining", "open"}]
    /\ answered \subseteq End
    /\ \A e \in End : \A q \in {net[e], replies[e], rx[e]} : \A i \in 1..Len(q) : q[i] \in Message
    /\ missed \subseteq Client
    /\ clock \in [Peer -> Clock]

Settled(c) ==
    \A e \in EndsOfConn(c) :
        /\ stage[e] = "open" /\ net[e] = <<>> /\ replies[e] = <<>> /\ rx[e] = <<>>
        /\ published[NodeOf(e)] = Integrated(doc[NodeOf(e)])

\* Once a connection has nothing left to carry, both copies hold the same
\* operations, pending ones aside, and the same peers are present in both,
\* whatever broke and was connected again before, unless a message was lost while
\* the connection lasted (init message, Step1 and Step2, broadcast).
InSync ==
    \A c \in Client : Settled(c) /\ c \notin missed =>
        /\ Integrated(doc[c]) = Integrated(doc[Server])
        /\ \A p \in Peer : states[c][p].on = states[Server][p].on

\* A late, repeated or looped-back state of a peer never replaces a newer one
\* (the clock test in Awareness::apply_update).
NeverOlder ==
    [][\A n \in Node, p \in Peer : states'[n][p].clock >= states[n][p].clock]_states

\* What is edited in a copy, offline or not, reaches the server, unless the
\* connection lost a message and is still up, or the offer of a WebRTC client was
\* never posted (the reconnect loop of client/websocket.rs and the Step2 that
\* answers the server's Step1).
EditsArrive ==
    \A o \in Op : o[1] \in Client =>
        (o \in doc[o[1]] ~> \/ o \in doc[Server]
                          \/ o[1] \in missed
                          \/ stage[<<o[1], "client">>] = "stuck")

Idle == \A e \in End : net[e] = <<>> /\ replies[e] = <<>> /\ rx[e] = <<>>
BothPending == \E c \in Client : Pending(doc[c]) \cap Pending(doc[Server]) # {}

\* Copies do not answer each other for ever: the exchange of updates and
\* awareness states comes to an end, except between two that both wait for the
\* same missing operation (sync_content answers with what is pending).
EchoesEnd == <>[](Idle \/ BothPending)

=============================================================================
