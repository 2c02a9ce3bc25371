--------------------------- MODULE SessionProofs ---------------------------
(***************************************************************************)
(* Proofs about Session, for any clients, operations, peers and any size   *)
(* of the broadcast channel: a state of a peer is never replaced by an     *)
(* older one, and a connection that has nothing left to carry and lost     *)
(* nothing leaves both copies in sync.                                     *)
(***************************************************************************)
EXTENDS Session, Integers, TLAPS

\* What a node may know of a peer; clock 0 is that of an absent one.
Known == {x \in [clock : Nat, on : BOOLEAN] : x.on => x.clock > 0}
Msg == [t : {"step1", "step2", "update", "awareness"}, ops : SUBSET Op, states : [Peer -> Known]]

In(q) == {q[i] : i \in 1..Len(q)}

Shape ==
  /\ doc \in [Node -> SUBSET Op]
  /\ published \in [Node -> SUBSET Op]
  /\ states \in [Node -> [Peer -> Known]]
  /\ observed \subseteq Node
  /\ stage \in [End -> {"new", "off", "stuck", "applying", "joining", "open"}]
  /\ answered \subseteq End
  /\ net \in [End -> Seq(Msg)]
  /\ replies \in [End -> Seq(Msg)]
  /\ rx \in [End -> Seq(Msg)]
  /\ missed \subseteq Client
  /\ clock \in [Peer -> Nat]

\* The ends of a connection come and go together, an end observes its node's
\* document before it listens, and hears nothing before that.
Up == {"applying", "joining", "open"}
Connected ==
  \A e \in End :
    /\ stage[e] \in Up => stage[Other(e)] \in Up
    /\ stage[e] \in {"joining", "open"} => NodeOf(e) \in observed
    /\ stage[e] # "open" => rx[e] = <<>>

\* A state vector on its way is one of the node that sent it, then or now.
Kinds ==
  \A e \in End :
    /\ \A m \in In(net[e]) : m.t = "step1" => m.ops \subseteq doc[NodeOf(Other(e))]
    /\ \A m \in In(replies[e]) : m.t \in {"step2", "update"} /\ m.states = NoStates
    /\ \A m \in In(rx[e]) : m.t # "step1"
    /\ \A m \in In(net[e]) \cup In(rx[e]) : m.t # "awareness" => m.states = NoStates

Announced == \A n \in Node : published[n] \subseteq Integrated(doc[n])

\* The other end's Step1 is answered, or still to come.
Asked ==
  \A e \in End : stage[Other(e)] = "open" /\ e[1] \notin missed =>
    e \in answered \/ \E m \in In(net[e]) : m.t = "step1"

\* Once it is answered, what the node has published is at the other end or on
\* its way there.
Contents(q) == UNION {m.ops : m \in {x \in In(q) : x.t \in {"step2", "update"}}}
Way(e) == Contents(net[Other(e)]) \cup Contents(replies[e]) \cup Contents(rx[e])
Sent ==
  \A e \in answered : e[1] \notin missed =>
    published[NodeOf(e)] \subseteq doc[NodeOf(Other(e))] \cup Way(e)

\* Of the two ends of a connection, the one on whose side a peer announces
\* itself knows the newest of it: the other end, and all that travels either
\* way, is behind.
Nearer(c, p) == IF Home[p] = c THEN c ELSE Server
Farther(c, p) == IF Home[p] = c THEN Server ELSE c
Behind(x, y) == x = y \/ x.clock < y.clock

Older ==
  \A c \in Client, p \in Peer :
    /\ Behind(states[Farther(c, p)][p], states[Nearer(c, p)][p])
    /\ \A e \in EndsOfConn(c) : \A m \in In(net[e]) \cup In(rx[e]) :
         Behind(m.states[p], states[Nearer(c, p)][p])

\* And while the connection loses nothing, the last state that travels to the
\* other end is the newest, or the other end agrees with it already.
Calm(q, y, p) == \A m \in In(q) : m.states[p] \in {Absent, y}
Brings(q, y, p) == \E i \in 1..Len(q) : /\ q[i].states[p] = y
                                        /\ \A j \in i..Len(q) : q[j].states[p] \in {Absent, y}
Coming(far, y, q, r, p) ==
  \/ far.on = y.on /\ Calm(q, y, p) /\ Calm(r, y, p)
  \/ Brings(q, y, p) /\ Calm(r, y, p)
  \/ Brings(r, y, p)

Told ==
  \A e \in End, p \in Peer :
    NodeOf(e) = Nearer(e[1], p) /\ stage[e] = "open" /\ e[1] \notin missed =>
      Coming(states[Farther(e[1], p)][p], states[Nearer(e[1], p)][p],
             net[Other(e)], rx[e], p)

SessionInv == /\ Shape /\ Connected /\ Kinds /\ Announced /\ Asked /\ Sent
              /\ Older /\ Told

-----------------------------------------------------------------------------
(* Sequences of messages.                                                  *)

LEMMA InAppend ==
  ASSUME NEW S, NEW q \in Seq(S), NEW m \in S
  PROVE  /\ Append(q, m) \in Seq(S)
         /\ In(Append(q, m)) = In(q) \cup {m}
PROOF
<1>1. /\ Append(q, m) \in Seq(S) /\ Len(Append(q, m)) = Len(q) + 1
      /\ \A i \in 1..Len(q) : Append(q, m)[i] = q[i]
      /\ Append(q, m)[Len(q) + 1] = m
  OBVIOUS
<1>2. 1..(Len(q) + 1) = 1..Len(q) \cup {Len(q) + 1}
  OBVIOUS
<1>3. QED BY <1>1, <1>2 DEF In

LEMMA InConcat ==
  ASSUME NEW S, NEW q \in Seq(S), NEW r \in Seq(S)
  PROVE  /\ q \o r \in Seq(S)
         /\ In(q \o r) = In(q) \cup In(r)
PROOF
<1>1. /\ q \o r \in Seq(S) /\ Len(q \o r) = Len(q) + Len(r)
      /\ \A i \in 1..(Len(q) + Len(r)) : (q \o r)[i] = IF i <= Len(q) THEN q[i] ELSE r[i - Len(q)]
  OBVIOUS
<1>2. In(q \o r) \subseteq In(q) \cup In(r)
  BY <1>1 DEF In
<1>3. ASSUME NEW i \in 1..Len(q) PROVE q[i] \in In(q \o r)
  BY <1>1 DEF In
<1>4. ASSUME NEW i \in 1..Len(r) PROVE r[i] \in In(q \o r)
  <2>1. /\ i + Len(q) \in 1..(Len(q) + Len(r))
        /\ (q \o r)[i + Len(q)] = r[i]
    BY <1>1
  <2>2. QED BY <2>1, <1>1 DEF In
<1>5. QED BY <1>1, <1>2, <1>3, <1>4 DEF In

LEMMA InTail ==
  ASSUME NEW S, NEW q \in Seq(S), q # <<>>
  PROVE  /\ Head(q) \in S /\ Tail(q) \in Seq(S)
         /\ In(q) = In(Tail(q)) \cup {Head(q)}
PROOF
<1>1. /\ Tail(q) \in Seq(S) /\ Len(Tail(q)) = Len(q) - 1 /\ Len(q) >= 1
      /\ \A i \in 1..(Len(q) - 1) : Tail(q)[i] = q[i + 1]
      /\ Head(q) = q[1] /\ Head(q) \in S
  OBVIOUS
<1>2. In(Tail(q)) \cup {Head(q)} \subseteq In(q)
  BY <1>1 DEF In
<1>3. ASSUME NEW i \in 1..Len(q) PROVE q[i] \in In(Tail(q)) \cup {Head(q)}
  <2>1. CASE i = 1
    BY <1>1, <2>1
  <2>2. CASE i # 1
    <3>1. i - 1 \in 1..(Len(q) - 1) /\ Tail(q)[i - 1] = q[i]
      BY <1>1, <2>2
    <3>2. QED BY <3>1, <1>1 DEF In
  <2>3. QED BY <2>1, <2>2
<1>4. QED BY <1>1, <1>2, <1>3 DEF In

LEMMA InPart ==
  ASSUME NEW S, NEW q \in Seq(S), NEW a \in Int, NEW b \in Int, 1 <= a, b <= Len(q)
  PROVE  /\ SubSeq(q, a, b) \in Seq(S)
         /\ In(SubSeq(q, a, b)) \subseteq In(q)
PROOF
<1>1. CASE a <= b
  <2>1. /\ SubSeq(q, a, b) \in Seq(S) /\ Len(SubSeq(q, a, b)) = b - a + 1
        /\ \A i \in 1..(b - a + 1) : SubSeq(q, a, b)[i] = q[a + i - 1]
    BY <1>1
  <2>2. QED BY <2>1, <1>1 DEF In
<1>2. CASE a > b
  <2>1. SubSeq(q, a, b) = <<>>
    BY <1>2
  <2>2. QED BY <2>1 DEF In
<1>3. QED BY <1>1, <1>2

LEMMA InEmpty ==
  /\ In(<<>>) = {} /\ Contents(<<>>) = {}
  /\ \A y, p : Calm(<<>>, y, p) /\ ~Brings(<<>>, y, p)
PROOF
<1>1. Len(<<>>) = 0
  OBVIOUS
<1>2. In(<<>>) = {}
  BY <1>1 DEF In
<1>3. QED BY <1>1, <1>2 DEF Contents, Calm, Brings

\* A channel that is not full takes a message; one that is drops the oldest.
LEMMA Queued ==
  ASSUME NEW q \in Seq(Msg), NEW m \in Msg
  PROVE  /\ KeepLast(Append(q, m)) \in Seq(Msg)
         /\ In(KeepLast(Append(q, m))) \subseteq In(q) \cup {m}
         /\ Len(q) < Cap => KeepLast(Append(q, m)) = Append(q, m)
PROOF
<1>1. Append(q, m) \in Seq(Msg) /\ In(Append(q, m)) = In(q) \cup {m}
  BY InAppend
<1>2. Cap \in Nat \ {0}
  BY SessionAssumption
<1>3. Len(Append(q, m)) = Len(q) + 1 /\ Len(q) \in Nat
  OBVIOUS
<1>4. CASE Len(q) + 1 > Cap
  <2> DEFINE a == Append(q, m)
  <2>1. /\ Len(a) - Cap + 1 \in Int /\ Len(a) \in Int
        /\ 1 <= Len(a) - Cap + 1 /\ Len(a) <= Len(a)
    BY <1>2, <1>3, <1>4
  <2>2. KeepLast(a) = SubSeq(a, Len(a) - Cap + 1, Len(a))
    BY <1>3, <1>4 DEF KeepLast
  <2> HIDE DEF a
  <2>a. a \in Seq(Msg)
    BY <1>1 DEF a
  <2>b. \A x \in Int, y \in Int : 1 <= x /\ y <= Len(a) =>
          SubSeq(a, x, y) \in Seq(Msg) /\ In(SubSeq(a, x, y)) \subseteq In(a)
    BY <2>a, InPart
  <2>3. KeepLast(a) \in Seq(Msg) /\ In(KeepLast(a)) \subseteq In(a)
    BY <2>1, <2>2, <2>b
  <2>4. QED BY <2>3, <1>1, <1>2, <1>3, <1>4 DEF a
<1>5. CASE ~(Len(q) + 1 > Cap)
  BY <1>1, <1>3, <1>5 DEF KeepLast
<1>6. QED BY <1>4, <1>5

-----------------------------------------------------------------------------
(* What travels, and what is to come of it.                                *)

LEMMA EndFacts ==
  ASSUME NEW e \in End
  PROVE  /\ Other(e) \in End /\ Other(Other(e)) = e /\ Other(e) # e
         /\ e[1] \in Client /\ Other(e)[1] = e[1]
         /\ NodeOf(e) \in Node /\ NodeOf(Other(e)) \in Node
         /\ NodeOf(Other(e)) # NodeOf(e)
         /\ {NodeOf(e), NodeOf(Other(e))} = {e[1], Server}
         /\ EndsOfConn(e[1]) = {e, Other(e)}
PROOF
<1>1. PICK c \in Client : e \in {<<c, "client">>, <<c, "server">>}
  BY DEF End
<1>2. Server \notin Client
  BY SessionAssumption
<1>3. CASE e = <<c, "client">>
  BY <1>3, <1>2 DEF End, Other, NodeOf, Node, EndsOfConn
<1>4. CASE e = <<c, "server">>
  BY <1>4, <1>2 DEF End, Other, NodeOf, Node, EndsOfConn
<1>5. QED BY <1>1, <1>3, <1>4

LEMMA ConnEnds ==
  ASSUME NEW c \in Client
  PROVE  /\ EndsOfConn(c) \subseteq End
         /\ \A e \in End : e \in EndsOfConn(c) <=> e[1] = c
PROOF
<1>1. ASSUME NEW e \in End PROVE e \in EndsOfConn(c) <=> e[1] = c
  BY DEF End, EndsOfConn
<1>2. QED BY <1>1 DEF End, EndsOfConn

LEMMA Sides ==
  ASSUME NEW c \in Client, NEW p \in Peer
  PROVE  /\ Nearer(c, p) \in Node /\ Farther(c, p) \in Node
         /\ Nearer(c, p) # Farther(c, p)
         /\ {Nearer(c, p), Farther(c, p)} = {c, Server}
         /\ Home[p] # Farther(c, p)
PROOF
<1>1. Server \notin Client /\ Home[p] \in Client \cup {Server}
  BY SessionAssumption
<1>2. QED BY <1>1 DEF Nearer, Farther, Node

LEMMA ContentsOf ==
  /\ \A q, r : In(q) \subseteq In(r) => Contents(q) \subseteq Contents(r)
  /\ \A q, r, s : In(q) = In(r) \cup In(s) => Contents(q) = Contents(r) \cup Contents(s)
  /\ \A q, m : m \in In(q) /\ m.t \in {"step2", "update"} => m.ops \subseteq Contents(q)
PROOF
<1>1. \A q, x : x \in Contents(q) <=> \E m \in In(q) : m.t \in {"step2", "update"} /\ x \in m.ops
  BY DEF Contents
<1>2. QED BY <1>1

LEMMA OneMessage ==
  ASSUME NEW m
  PROVE  In(<<m>>) = {m} /\ (m \in Msg => <<m>> \in Seq(Msg))
PROOF
<1>1. Len(<<m>>) = 1 /\ <<m>>[1] = m
  OBVIOUS
<1>2. 1..1 = {1}
  OBVIOUS
<1>3. QED BY <1>1, <1>2 DEF In

LEMMA CalmOf ==
  ASSUME NEW y, NEW p
  PROVE  /\ \A q, r : In(q) \subseteq In(r) /\ Calm(r, y, p) => Calm(q, y, p)
         /\ \A q, r, s : In(q) = In(r) \cup In(s) =>
              (Calm(q, y, p) <=> Calm(r, y, p) /\ Calm(s, y, p))
PROOF BY DEF Calm

LEMMA BringsOn ==
  ASSUME NEW q \in Seq(Msg), NEW r \in Seq(Msg), NEW y, NEW p
  PROVE  /\ Brings(q, y, p) /\ Calm(r, y, p) => Brings(q \o r, y, p)
         /\ Brings(r, y, p) => Brings(q \o r, y, p)
PROOF
<1>1. /\ q \o r \in Seq(Msg) /\ Len(q \o r) = Len(q) + Len(r)
      /\ Len(q) \in Nat /\ Len(r) \in Nat
      /\ \A i \in 1..(Len(q) + Len(r)) : (q \o r)[i] = IF i <= Len(q) THEN q[i] ELSE r[i - Len(q)]
  OBVIOUS
<1>2. ASSUME Brings(q, y, p), Calm(r, y, p) PROVE Brings(q \o r, y, p)
  <2>1. PICK i \in 1..Len(q) : /\ q[i].states[p] = y
                               /\ \A j \in i..Len(q) : q[j].states[p] \in {Absent, y}
    BY <1>2 DEF Brings
  <2>2. i \in 1..Len(q \o r) /\ (q \o r)[i].states[p] = y
    BY <1>1, <2>1
  <2>3. ASSUME NEW j \in i..Len(q \o r) PROVE (q \o r)[j].states[p] \in {Absent, y}
    <3>1. CASE j <= Len(q)
      BY <3>1, <2>1, <1>1
    <3>2. CASE j > Len(q)
      <4>1. j - Len(q) \in 1..Len(r) /\ (q \o r)[j] = r[j - Len(q)]
        BY <3>2, <1>1
      <4>2. QED BY <4>1, <1>2 DEF Calm, In
    <3>3. QED BY <3>1, <3>2, <1>1
  <2>4. QED BY <2>2, <2>3 DEF Brings
<1>3. ASSUME Brings(r, y, p) PROVE Brings(q \o r, y, p)
  <2>1. PICK i \in 1..Len(r) : /\ r[i].states[p] = y
                               /\ \A j \in i..Len(r) : r[j].states[p] \in {Absent, y}
    BY <1>3 DEF Brings
  <2>2. /\ i + Len(q) \in 1..Len(q \o r)
        /\ (q \o r)[i + Len(q)] = r[i]
    BY <1>1
  <2>3. ASSUME NEW j \in (i + Len(q))..Len(q \o r)
        PROVE  (q \o r)[j].states[p] \in {Absent, y}
    <3>1. j - Len(q) \in i..Len(r) /\ (q \o r)[j] = r[j - Len(q)]
      BY <1>1
    <3>2. QED BY <3>1, <2>1
  <2>4. QED BY <2>1, <2>2, <2>3 DEF Brings
<1>4. QED BY <1>2, <1>3

LEMMA BringsNext ==
  ASSUME NEW q \in Seq(Msg), NEW y, NEW p, Brings(q, y, p)
  PROVE  /\ q # <<>>
         /\ \/ Brings(Tail(q), y, p)
            \/ Head(q).states[p] = y /\ Calm(Tail(q), y, p)
PROOF
<1>1. PICK i \in 1..Len(q) : /\ q[i].states[p] = y
                             /\ \A j \in i..Len(q) : q[j].states[p] \in {Absent, y}
  BY DEF Brings
<1>2. q # <<>>
  BY <1>1
<1>3. /\ Tail(q) \in Seq(Msg) /\ Len(Tail(q)) = Len(q) - 1 /\ Len(q) \in Nat
      /\ \A j \in 1..(Len(q) - 1) : Tail(q)[j] = q[j + 1]
      /\ Head(q) = q[1]
  BY <1>2
<1>4. CASE i = 1
  <2>1. \A j \in 1..Len(Tail(q)) : Tail(q)[j].states[p] \in {Absent, y}
    BY <1>1, <1>3, <1>4
  <2>2. QED BY <2>1, <1>1, <1>2, <1>3, <1>4 DEF Calm, In
<1>5. CASE i # 1
  <2>1. i - 1 \in 1..Len(Tail(q)) /\ Tail(q)[i - 1] = q[i]
    BY <1>3, <1>5
  <2>2. ASSUME NEW j \in (i - 1)..Len(Tail(q)) PROVE Tail(q)[j].states[p] \in {Absent, y}
    <3>1. j + 1 \in i..Len(q) /\ j \in 1..(Len(q) - 1)
      BY <1>3, <1>5
    <3>2. QED BY <3>1, <1>1, <1>3
  <2>3. Brings(Tail(q), y, p)
    BY <2>1, <2>2, <1>1 DEF Brings
  <2>4. QED BY <2>3, <1>2
<1>6. QED BY <1>4, <1>5

LEMMA BringsOne ==
  ASSUME NEW m \in Msg, NEW y, NEW p, m.states[p] = y
  PROVE  Brings(<<m>>, y, p)
PROOF
<1>1. Len(<<m>>) = 1 /\ <<m>>[1] = m
  OBVIOUS
<1>2. QED BY <1>1 DEF Brings

LEMMA TwoMessages ==
  ASSUME NEW a \in Msg, NEW b \in Msg
  PROVE  /\ <<a, b>> \in Seq(Msg) /\ In(<<a, b>>) = {a, b}
         /\ \A y, p : b.states[p] = y => Brings(<<a, b>>, y, p)
PROOF
<1>1. Len(<<a, b>>) = 2 /\ <<a, b>>[1] = a /\ <<a, b>>[2] = b /\ <<a, b>> \in Seq(Msg)
  OBVIOUS
<1>2. 1..2 = {1, 2} /\ 2..2 = {2}
  OBVIOUS
<1>3. In(<<a, b>>) = {a, b}
  BY <1>1, <1>2 DEF In
<1>4. ASSUME NEW y, NEW p, b.states[p] = y PROVE Brings(<<a, b>>, y, p)
  <2>1. 2 \in 1..Len(<<a, b>>) /\ <<a, b>>[2].states[p] = y
    BY <1>1, <1>2, <1>4
  <2>2. \A j \in 2..Len(<<a, b>>) : <<a, b>>[j].states[p] \in {Absent, y}
    BY <1>1, <1>2, <1>4
  <2>3. QED BY <2>1, <2>2 DEF Brings
<1>5. QED BY <1>1, <1>3, <1>4

-----------------------------------------------------------------------------
(* What a node makes of a state that arrives.                              *)

LEMMA AbsentKnown ==
  /\ Absent \in Known /\ NoStates \in [Peer -> Known]
  /\ \A p \in Peer : NoStates[p] = Absent
  /\ \A y \in Known : Behind(Absent, y)
PROOF
<1>1. Absent \in Known
  BY DEF Absent, Known
<1>2. ASSUME NEW y \in Known PROVE Behind(Absent, y)
  <2>1. y \in [clock : Nat, on : BOOLEAN] /\ (y.on => y.clock > 0)
    BY DEF Known
  <2>2. CASE y.clock = 0
    <3>1. y.on = FALSE
      BY <2>1, <2>2
    <3>2. y = [clock |-> 0, on |-> FALSE]
      BY <2>1, <2>2, <3>1
    <3>3. QED BY <3>2 DEF Behind, Absent
  <2>3. CASE y.clock # 0
    BY <2>1, <2>3 DEF Behind, Absent
  <2>4. QED BY <2>2, <2>3
<1>3. QED BY <1>1, <1>2 DEF NoStates

LEMMA Applied ==
  ASSUME NEW prev \in Known, NEW st \in Known
  PROVE  /\ ApplyState(prev, st) \in Known
         /\ ApplyState(prev, st).clock >= prev.clock
         /\ ApplyState(prev, st) = prev \/ prev.clock < ApplyState(prev, st).clock
         /\ Behind(st, prev) => ApplyState(prev, st) = prev
         /\ st = Absent => ApplyState(prev, st) = prev
PROOF
<1>1. /\ prev \in [clock : Nat, on : BOOLEAN] /\ (prev.on => prev.clock > 0)
      /\ st \in [clock : Nat, on : BOOLEAN] /\ (st.on => st.clock > 0)
  BY DEF Known
<1>2. CASE prev.clock >= st.clock
  BY <1>1, <1>2 DEF ApplyState, Known
<1>3. CASE prev.clock < st.clock
  <2>1. ~(prev.clock >= st.clock) /\ st # prev /\ ~(st.clock < prev.clock) /\ st # Absent
    BY <1>1, <1>3 DEF Absent
  <2>2. CASE prev.clock = 0 \/ st.on
    <3>1. ApplyState(prev, st) = st
      BY <2>1, <2>2 DEF ApplyState
    <3>2. QED BY <3>1, <2>1, <1>1, <1>3 DEF Behind
  <2>3. CASE ~(prev.clock = 0 \/ st.on)
    <3>1. ApplyState(prev, st) = [clock |-> prev.clock + 1, on |-> FALSE]
      BY <2>1, <2>3 DEF ApplyState, Delete
    <3>2. QED BY <3>1, <2>1, <1>1 DEF Behind, Known
  <2>4. QED BY <2>2, <2>3
<1>4. QED BY <1>1, <1>2, <1>3

\* What is behind stays behind when more that is behind arrives, and the
\* newest state arriving makes the far end agree.
LEMMA Follows ==
  ASSUME NEW prev \in Known, NEW st \in Known, NEW y \in Known, Behind(prev, y)
  PROVE  /\ Behind(st, y) => Behind(ApplyState(prev, st), y)
         /\ st = y => ApplyState(prev, st).on = y.on
         /\ prev.on = y.on /\ st \in {Absent, y} => ApplyState(prev, st).on = y.on
PROOF
<1>1. /\ prev \in [clock : Nat, on : BOOLEAN] /\ (prev.on => prev.clock > 0)
      /\ st \in [clock : Nat, on : BOOLEAN] /\ (st.on => st.clock > 0)
      /\ y \in [clock : Nat, on : BOOLEAN] /\ (y.on => y.clock > 0)
  BY DEF Known
<1>2. CASE prev.clock >= st.clock
  <2>1. ApplyState(prev, st) = prev
    BY <1>2 DEF ApplyState
  <2>2. st = y => prev = y
    BY <1>1, <1>2 DEF Behind
  <2>3. QED BY <2>1, <2>2
<1>3. CASE prev.clock < st.clock
  <2>1. ~(prev.clock >= st.clock) /\ st # Absent
    BY <1>1, <1>3 DEF Absent
  <2>2. CASE prev.clock = 0 \/ st.on
    <3>1. ApplyState(prev, st) = st
      BY <2>1, <2>2 DEF ApplyState
    <3>2. QED BY <3>1, <2>1
  <2>3. CASE ~(prev.clock = 0 \/ st.on)
    <3>1. ApplyState(prev, st) = [clock |-> prev.clock + 1, on |-> FALSE]
      BY <2>1, <2>3 DEF ApplyState, Delete
    <3>2. st.on = FALSE /\ st = [clock |-> st.clock, on |-> FALSE]
      BY <1>1, <2>3
    <3>3. ASSUME Behind(st, y) PROVE Behind(ApplyState(prev, st), y)
      <4>1. CASE prev.clock + 1 < y.clock
        BY <4>1, <3>1 DEF Behind
      <4>2. CASE ~(prev.clock + 1 < y.clock)
        <5>1. st.clock <= y.clock
          BY <3>3, <1>1 DEF Behind
        <5>2. st.clock = prev.clock + 1 /\ ~(st.clock < y.clock)
          BY <5>1, <4>2, <1>3, <1>1
        <5>3. st = y
          BY <5>2, <3>3 DEF Behind
        <5>4. QED BY <5>2, <5>3, <3>1, <3>2 DEF Behind
      <4>3. QED BY <4>1, <4>2
    <3>a. ApplyState(prev, st).on = FALSE
      BY <3>1
    <3>b. st.on = FALSE
      BY <3>2
    <3>4. ApplyState(prev, st).on = st.on
      BY <3>a, <3>b, Zenon
    <3>5. QED BY <3>3, <3>4, <2>1
  <2>4. QED BY <2>2, <2>3
<1>4. QED BY <1>1, <1>2, <1>3

\* The near end only gets newer.
LEMMA StillBehind ==
  ASSUME NEW x \in Known, NEW y \in Known, NEW z \in Known, Behind(x, y),
         y = z \/ y.clock < z.clock
  PROVE  Behind(x, z)
PROOF
<1>1. x.clock \in Nat /\ y.clock \in Nat /\ z.clock \in Nat
  BY DEF Known
<1>2. QED BY <1>1 DEF Behind

-----------------------------------------------------------------------------
(* How Coming is kept up.                                                  *)

\* More goes out that says nothing new of the peer.
LEMMA ComingMore ==
  ASSUME NEW q \in Seq(Msg), NEW r \in Seq(Msg), NEW far, NEW y, NEW p, Coming(far, y, q, r, p)
  PROVE  /\ \A m \in Msg : m.states[p] \in {Absent, y} => Coming(far, y, q, Append(r, m), p)
         /\ \A s \in Seq(Msg) : Calm(s, y, p) => Coming(far, y, q \o s, r, p)
PROOF
<1>1. ASSUME NEW m \in Msg, m.states[p] \in {Absent, y}
      PROVE  Coming(far, y, q, Append(r, m), p)
  <2>1. In(Append(r, m)) = In(r) \cup {m}
    BY InAppend
  <2>2. Calm(r, y, p) => Calm(Append(r, m), y, p)
    BY <2>1, <1>1 DEF Calm
  <2>3. <<m>> \in Seq(Msg) /\ Calm(<<m>>, y, p) /\ Append(r, m) = r \o <<m>>
    BY OneMessage, <1>1 DEF Calm
  <2>4. Brings(r, y, p) => Brings(Append(r, m), y, p)
    BY <2>3, BringsOn
  <2>5. QED BY <2>2, <2>4 DEF Coming
<1>2. ASSUME NEW s \in Seq(Msg), Calm(s, y, p)
      PROVE  Coming(far, y, q \o s, r, p)
  <2>1. In(q \o s) = In(q) \cup In(s)
    BY InConcat
  <2>2. Calm(q, y, p) => Calm(q \o s, y, p)
    BY <2>1, <1>2 DEF Calm
  <2>3. Brings(q, y, p) => Brings(q \o s, y, p)
    BY <1>2, BringsOn
  <2>4. QED BY <2>2, <2>3 DEF Coming
<1>3. QED BY <1>1, <1>2

\* What the channel held goes out.
LEMMA ComingForward ==
  ASSUME NEW q \in Seq(Msg), NEW r \in Seq(Msg), NEW far, NEW y, NEW p, Coming(far, y, q, r, p),
         r # <<>>
  PROVE  Coming(far, y, q \o <<Head(r)>>, Tail(r), p)
PROOF
<1>1. Head(r) \in Msg /\ Tail(r) \in Seq(Msg) /\ In(r) = In(Tail(r)) \cup {Head(r)}
  BY InTail
<1>2. <<Head(r)>> \in Seq(Msg) /\ In(<<Head(r)>>) = {Head(r)}
  BY <1>1, OneMessage
<1>a. \A s \in Seq(Msg) : In(q \o s) = In(q) \cup In(s)
  BY InConcat
<1>3. In(q \o <<Head(r)>>) = In(q) \cup {Head(r)}
  BY <1>a, <1>2
<1>4. Calm(r, y, p) => Calm(Tail(r), y, p) /\ Calm(<<Head(r)>>, y, p)
  BY <1>1, <1>2 DEF Calm
<1>5. Calm(q, y, p) /\ Calm(r, y, p) => Calm(q \o <<Head(r)>>, y, p)
  BY <1>1, <1>3 DEF Calm
<1>6. Brings(q, y, p) /\ Calm(r, y, p) => Brings(q \o <<Head(r)>>, y, p)
  BY <1>2, <1>4, BringsOn
<1>7. ASSUME Brings(r, y, p)
      PROVE  \/ Brings(Tail(r), y, p)
             \/ Brings(q \o <<Head(r)>>, y, p) /\ Calm(Tail(r), y, p)
  <2>1. Brings(Tail(r), y, p) \/ (Head(r).states[p] = y /\ Calm(Tail(r), y, p))
    BY <1>7, BringsNext
  <2>2. Head(r).states[p] = y => Brings(<<Head(r)>>, y, p)
    BY <1>1, BringsOne
  <2>3. Brings(<<Head(r)>>, y, p) => Brings(q \o <<Head(r)>>, y, p)
    BY <1>2, BringsOn
  <2>4. QED BY <2>1, <2>2, <2>3
<1>8. QED BY <1>4, <1>5, <1>6, <1>7 DEF Coming

\* What arrives first is applied.
LEMMA ComingApplied ==
  ASSUME NEW q \in Seq(Msg), NEW r \in Seq(Msg), NEW far \in Known, NEW y \in Known,
         NEW p \in Peer, Coming(far, y, q, r, p), q # <<>>, Behind(far, y)
  PROVE  Coming(ApplyState(far, Head(q).states[p]), y, Tail(q), r, p)
PROOF
<1>1. Head(q) \in Msg /\ Tail(q) \in Seq(Msg) /\ In(q) = In(Tail(q)) \cup {Head(q)}
  BY InTail
<1>2. Head(q).states[p] \in Known
  BY <1>1 DEF Msg
<1>3. Calm(q, y, p) => Calm(Tail(q), y, p) /\ Head(q).states[p] \in {Absent, y}
  BY <1>1 DEF Calm
<1>4. /\ Head(q).states[p] = y => ApplyState(far, Head(q).states[p]).on = y.on
      /\ far.on = y.on /\ Head(q).states[p] \in {Absent, y} =>
           ApplyState(far, Head(q).states[p]).on = y.on
  BY <1>2, Follows
<1>5. Brings(q, y, p) =>
        Brings(Tail(q), y, p) \/ (Head(q).states[p] = y /\ Calm(Tail(q), y, p))
  BY BringsNext
<1>6. QED BY <1>3, <1>4, <1>5 DEF Coming

-----------------------------------------------------------------------------
(* What the parts of an action do.                                         *)

\* A broadcast: who listens at n has the message, or the connection missed one.
Spread(n, msg) ==
  /\ rx' \in [End -> Seq(Msg)]
  /\ missed \subseteq missed' /\ missed' \subseteq Client
  /\ \A e \in End :
       /\ stage[e] # "open" \/ NodeOf(e) # n => rx'[e] = rx[e]
       /\ In(rx'[e]) \subseteq In(rx[e]) \cup {msg}
       /\ NodeOf(e) = n /\ stage[e] = "open" /\ e[1] \notin missed' =>
            rx'[e] = Append(rx[e], msg)
       /\ NodeOf(e) = n /\ e \in answered /\ e[1] \notin missed' => stage[e] = "open"

\* An update of the states of n.
Heard(n, update) ==
  /\ states' \in [Node -> [Peer -> Known]]
  /\ \A k \in Node \ {n} : states'[k] = states[k]
  /\ \A p \in Peer : states'[n][p] = ApplyState(states[n][p], update[p])

Note(n) == Presence(Changed(states[n], states'[n]))

LEMMA MessagesOf ==
  /\ \A ops \in SUBSET Op : Step1(ops) \in Msg /\ Step2(ops) \in Msg /\ Update(ops) \in Msg
  /\ \A s \in [Peer -> Known] : Presence(s) \in Msg
PROOF BY AbsentKnown DEF Msg, Step1, Step2, Update, Presence

LEMMA Spreading ==
  ASSUME Shape, NEW n \in Node, NEW msg \in Msg, Broadcast(n, msg)
  PROVE  Spread(n, msg)
PROOF
<1>1. rx \in [End -> Seq(Msg)] /\ answered \subseteq End /\ missed \subseteq Client
  BY DEF Shape
<1>2. \A e \in End : /\ KeepLast(Append(rx[e], msg)) \in Seq(Msg)
                     /\ In(KeepLast(Append(rx[e], msg))) \subseteq In(rx[e]) \cup {msg}
                     /\ Len(rx[e]) < Cap => KeepLast(Append(rx[e], msg)) = Append(rx[e], msg)
  BY <1>1, Queued
<1>3. rx' = [e \in End |-> IF e \in EndsOf(n) /\ Listening(e)
                           THEN KeepLast(Append(rx[e], msg)) ELSE rx[e]]
  BY DEF Broadcast
<1>4. missed' = missed \cup
        {e[1] : e \in {d \in EndsOf(n) : \/ Listening(d) /\ Len(rx[d]) >= Cap
                                         \/ ~Listening(d) /\ d \in answered}}
  BY DEF Broadcast
<1>5. rx' \in [End -> Seq(Msg)]
  BY <1>1, <1>2, <1>3
<1>6. missed \subseteq missed' /\ missed' \subseteq Client
  BY <1>1, <1>4, EndFacts DEF EndsOf
<1>7. ASSUME NEW e \in End
      PROVE  /\ stage[e] # "open" \/ NodeOf(e) # n => rx'[e] = rx[e]
             /\ In(rx'[e]) \subseteq In(rx[e]) \cup {msg}
  BY <1>2, <1>3 DEF EndsOf, Listening
<1>8. ASSUME NEW e \in End, NodeOf(e) = n, stage[e] = "open", e[1] \notin missed'
      PROVE  rx'[e] = Append(rx[e], msg)
  <2>1. e \in EndsOf(n) /\ Listening(e)
    BY <1>8 DEF EndsOf, Listening
  <2>2. ~(Len(rx[e]) >= Cap)
    BY <1>4, <1>8, <2>1
  <2>3. Len(rx[e]) \in Nat /\ Cap \in Nat
    BY <1>1, SessionAssumption
  <2>4. QED BY <2>1, <2>2, <2>3, <1>2, <1>3
<1>9. ASSUME NEW e \in End, NodeOf(e) = n, e \in answered, e[1] \notin missed'
      PROVE  stage[e] = "open"
  BY <1>4, <1>9 DEF EndsOf, Listening
<1>10. QED BY <1>5, <1>6, <1>7, <1>8, <1>9 DEF Spread

LEMMA Hearing ==
  ASSUME Shape, NEW n \in Node, NEW update \in [Peer -> Known], ApplyAwareness(n, update)
  PROVE  /\ Heard(n, update)
         /\ Note(n) \in Msg
         /\ \A p \in Peer : Note(n).states[p] = IF states'[n][p] = states[n][p] THEN Absent
                                                ELSE states'[n][p]
         /\ \/ Spread(n, Note(n))
            \/ rx' = rx /\ missed' = missed /\ (states'[n] = states[n] \/ n \notin observed)
PROOF
<1> DEFINE new == ApplyStates(states[n], update)
<1>1. states \in [Node -> [Peer -> Known]]
  BY DEF Shape
<1>2. states' = [states EXCEPT ![n] = new]
  BY DEF ApplyAwareness
<1>3. new \in [Peer -> Known] /\ \A p \in Peer : new[p] = ApplyState(states[n][p], update[p])
  BY <1>1, Applied DEF ApplyStates
<1>4. states'[n] = new
  BY <1>1, <1>2
<1>5. Heard(n, update)
  BY <1>1, <1>2, <1>3 DEF Heard
<1>6. /\ Changed(states[n], new) \in [Peer -> Known]
      /\ \A p \in Peer : Changed(states[n], new)[p] = IF new[p] = states[n][p] THEN Absent ELSE new[p]
  BY <1>3, <1>1, AbsentKnown DEF Changed
<1>7. /\ Note(n) \in Msg
      /\ \A p \in Peer : Note(n).states[p] = IF states'[n][p] = states[n][p] THEN Absent
                                              ELSE states'[n][p]
  BY <1>4, <1>6, MessagesOf DEF Note, Presence
<1>8. \/ Broadcast(n, Note(n))
      \/ rx' = rx /\ missed' = missed /\ (states'[n] = states[n] \/ n \notin observed)
  BY <1>4 DEF ApplyAwareness, Note
<1>9. QED BY <1>5, <1>7, <1>8, Spreading

LEMMA Carrying ==
  ASSUME Shape, NEW e \in End, NEW msgs \in Seq(Msg), Carry(e, msgs)
  PROVE  /\ net' \in [End -> Seq(Msg)]
         /\ net'[Other(e)] = net[Other(e)] \o msgs
         /\ In(net'[Other(e)]) = In(net[Other(e)]) \cup In(msgs)
         /\ \A d \in End : d # Other(e) => net'[d] = net[d]
PROOF
<1>1. net \in [End -> Seq(Msg)] /\ Other(e) \in End
  BY EndFacts DEF Shape
<1>2. net' = [net EXCEPT ![Other(e)] = net[Other(e)] \o msgs]
  BY DEF Carry
<1>3. /\ net[Other(e)] \o msgs \in Seq(Msg)
      /\ In(net[Other(e)] \o msgs) = In(net[Other(e)]) \cup In(msgs)
  BY <1>1, InConcat
<1>4. QED BY <1>1, <1>2, <1>3

\* What a document holds without gaps grows with it.
LEMMA IntegratedOf ==
  /\ \A ops : Integrated(ops) \subseteq ops
  /\ \A a, b : a \subseteq b => Integrated(a) \subseteq Integrated(b)
PROOF BY DEF Integrated

LEMMA IntegratedWithin ==
  ASSUME NEW a \in SUBSET Op, NEW b, Integrated(a) \subseteq b
  PROVE  Integrated(a) \subseteq Integrated(b)
PROOF
<1> SUFFICES ASSUME NEW o \in Integrated(a), NEW k \in 1..o[2]
             PROVE  o \in b /\ <<o[1], k>> \in b
  BY DEF Integrated
<1>1. o \in a /\ o[2] \in Nat /\ \A j \in 1..o[2] : <<o[1], j>> \in a
  BY SessionAssumption DEF Integrated
<1>2. <<o[1], k>>[1] = o[1] /\ <<o[1], k>>[2] = k
  OBVIOUS
<1>3. <<o[1], k>> \in a /\ \A j \in 1..k : <<o[1], j>> \in a
  BY <1>1
<1>4. <<o[1], k>> \in Integrated(a)
  BY <1>2, <1>3 DEF Integrated
<1>5. QED BY <1>4

-----------------------------------------------------------------------------
(* The initial state, and what actions have in common.                     *)

LEMMA InitInv == Init => SessionInv
PROOF
<1> SUFFICES ASSUME Init PROVE SessionInv
  OBVIOUS
<1> USE DEF Init
<1>1. Shape
  <2>1. \A e \in End : e[2] \in {"client", "server"}
    BY DEF End
  <2>2. <<>> \in Seq(Msg)
    OBVIOUS
  <2>3. QED BY <2>1, <2>2, AbsentKnown DEF Shape
<1>2. \A e \in End : /\ In(net[e]) = {} /\ In(replies[e]) = {} /\ In(rx[e]) = {}
                     /\ stage[e] \in {"new", "off"} /\ rx[e] = <<>>
  BY InEmpty
<1>3. \A e \in End : Other(e) \in End
  BY EndFacts
<1>4. Connected
  BY <1>2 DEF Connected, Up
<1>5. Kinds
  BY <1>2 DEF Kinds
<1>6. Announced
  BY DEF Announced
<1>7. Asked
  BY <1>2, <1>3 DEF Asked
<1>8. Sent
  BY DEF Sent
<1>9. Older
  <2>1. \A c \in Client, p \in Peer : states[Farther(c, p)][p] = Absent
                                      /\ states[Nearer(c, p)][p] = Absent
    BY Sides, AbsentKnown
  <2>2. \A c \in Client : EndsOfConn(c) \subseteq End
    BY ConnEnds
  <2>3. QED BY <2>1, <2>2, <1>2 DEF Older, Behind
<1>10. Told
  BY <1>2 DEF Told
<1>11. QED BY <1>1, <1>4, <1>5, <1>6, <1>7, <1>8, <1>9, <1>10 DEF SessionInv

\* A node that hears what is behind what the nearer nodes know leaves it so.
LEMMA HearOlder ==
  ASSUME SessionInv, NEW n \in Node, NEW update \in [Peer -> Known], Heard(n, update),
         \A c \in Client, p \in Peer : n = Farther(c, p) =>
           Behind(update[p], states[Nearer(c, p)][p]),
         \A e \in End : In(net'[e]) \subseteq In(net[e]),
         \A e \in End : \/ In(rx'[e]) \subseteq In(rx[e])
                        \/ NodeOf(e) = n /\ In(rx'[e]) \subseteq In(rx[e]) \cup {Note(n)},
         Note(n) \in Msg,
         \A p \in Peer : Note(n).states[p] = IF states'[n][p] = states[n][p] THEN Absent
                                             ELSE states'[n][p]
  PROVE  Older'
PROOF
<1>1. /\ states \in [Node -> [Peer -> Known]] /\ states' \in [Node -> [Peer -> Known]]
      /\ net \in [End -> Seq(Msg)] /\ rx \in [End -> Seq(Msg)]
  BY DEF SessionInv, Shape, Heard
<1> SUFFICES ASSUME NEW c \in Client, NEW p \in Peer
             PROVE  /\ Behind(states'[Farther(c, p)][p], states'[Nearer(c, p)][p])
                    /\ \A e \in EndsOfConn(c) : \A m \in In(net'[e]) \cup In(rx'[e]) :
                         Behind(m.states[p], states'[Nearer(c, p)][p])
  BY DEF Older, Nearer, Farther, EndsOfConn
<1> DEFINE near == Nearer(c, p)
           far == Farther(c, p)
           y == states[near][p]
           z == states'[near][p]
<1>2. near \in Node /\ far \in Node /\ near # far
  BY Sides
<1>3. y \in Known /\ z \in Known /\ states[far][p] \in Known /\ states'[far][p] \in Known
      /\ update[p] \in Known
  BY <1>1, <1>2
<1>4. y = z \/ y.clock < z.clock
  <2>1. CASE near = n
    BY <2>1, <1>3, Applied DEF Heard
  <2>2. CASE near # n
    BY <2>2, <1>2 DEF Heard
  <2>3. QED BY <2>1, <2>2
<1>5. Behind(states[far][p], y)
  BY DEF SessionInv, Older
<1>6. Behind(states'[far][p], z)
  <2>1. CASE far = n
    <3>1. z = y
      BY <2>1, <1>2 DEF Heard
    <3>2. Behind(update[p], y)
      BY <2>1
    <3>3. Behind(ApplyState(states[far][p], update[p]), y)
      BY <1>3, <1>5, <3>2, Follows
    <3>4. QED BY <3>1, <3>3, <2>1 DEF Heard
  <2>2. CASE far # n
    <3>1. states'[far][p] = states[far][p]
      BY <2>2, <1>2 DEF Heard
    <3>2. QED BY <3>1, <1>3, <1>4, <1>5, StillBehind
  <2>3. QED BY <2>1, <2>2
<1>7. ASSUME NEW e \in EndsOfConn(c), NEW m \in In(net'[e]) \cup In(rx'[e])
      PROVE  Behind(m.states[p], z)
  <2>1. e \in End /\ e[1] = c
    BY ConnEnds
  <2>2. CASE m \in In(net[e]) \cup In(rx[e])
    <3>1. Behind(m.states[p], y)
      BY <2>2 DEF SessionInv, Older
    <3>2. m \in Msg
      BY <2>1, <2>2, <1>1 DEF In
    <3>3. m.states[p] \in Known
      BY <3>2 DEF Msg
    <3>4. QED BY <3>1, <3>3, <1>3, <1>4, StillBehind
  <2>3. CASE NodeOf(e) = n /\ m = Note(n)
    <3>1. n \in {near, far}
      BY <2>1, <2>3, EndFacts, Sides
    <3>2. m.states[p] \in {Absent, states'[n][p]}
      BY <2>3
    <3>3. Behind(Absent, z) /\ Behind(z, z)
      BY <1>3, AbsentKnown DEF Behind
    <3>4. QED BY <3>1, <3>2, <3>3, <1>6
  <2>4. QED BY <2>1, <2>2, <2>3
<1>8. QED BY <1>6, <1>7

\* A connection that lost nothing still brings the newest to the far end.
LEMMA HearTold ==
  ASSUME SessionInv, NEW n \in Node, NEW update \in [Peer -> Known], Heard(n, update),
         NEW e \in End, NEW p \in Peer,
         NodeOf(e) = Nearer(e[1], p), stage[e] = "open", e[1] \notin missed,
         Note(n) \in Msg,
         Note(n).states[p] = IF states'[n][p] = states[n][p] THEN Absent ELSE states'[n][p],
         \/ NodeOf(e) = n /\ rx'[e] = Append(rx[e], Note(n))
         \/ NodeOf(e) = n /\ rx'[e] = rx[e] /\ states'[n] = states[n]
         \/ NodeOf(e) # n /\ rx'[e] = rx[e],
         \/ /\ net'[Other(e)] = net[Other(e)]
            /\ Farther(e[1], p) = n => ApplyState(states[n][p], update[p]) = states[n][p]
         \/ /\ net[Other(e)] # <<>> /\ net'[Other(e)] = Tail(net[Other(e)])
            /\ Farther(e[1], p) = n /\ update[p] = Head(net[Other(e)]).states[p]
  PROVE  Coming(states'[Farther(e[1], p)][p], states'[Nearer(e[1], p)][p],
                net'[Other(e)], rx'[e], p)
PROOF
<1> DEFINE near == Nearer(e[1], p)
           far == Farther(e[1], p)
           y == states[near][p]
           f == states[far][p]
           q == net[Other(e)]
           r == rx[e]
<1>1. e[1] \in Client /\ Other(e) \in End
  BY EndFacts
<1>2. near \in Node /\ far \in Node /\ near # far
  BY <1>1, Sides
<1>3. /\ states \in [Node -> [Peer -> Known]] /\ states' \in [Node -> [Peer -> Known]]
      /\ net \in [End -> Seq(Msg)] /\ rx \in [End -> Seq(Msg)]
  BY DEF SessionInv, Shape, Heard
<1>4. y \in Known /\ f \in Known /\ q \in Seq(Msg) /\ r \in Seq(Msg)
  BY <1>1, <1>2, <1>3
<1>5. Coming(f, y, q, r, p)
  BY DEF SessionInv, Told
<1>6. Behind(f, y)
  BY <1>1 DEF SessionInv, Older
<1>7. states'[n][p] = ApplyState(states[n][p], update[p]) /\ \A k \in Node \ {n} : states'[k] = states[k]
  BY DEF Heard
<1>8. CASE near = n
  <2>1. states'[far][p] = f /\ net'[Other(e)] = q
    BY <1>8, <1>2, <1>7
  <2>2. CASE states'[n][p] # states[n][p]
    <3>1. rx'[e] = Append(r, Note(n)) /\ Note(n).states[p] = states'[near][p]
      BY <2>2, <1>8
    <3>2. <<Note(n)>> \in Seq(Msg) /\ Append(r, Note(n)) = r \o <<Note(n)>>
      BY OneMessage
    <3>3. Brings(<<Note(n)>>, states'[near][p], p)
      BY <3>1, BringsOne
    <3>4. Brings(rx'[e], states'[near][p], p)
      BY <3>1, <3>2, <3>3, <1>4, BringsOn
    <3>5. QED BY <3>4 DEF Coming
  <2>3. CASE states'[n][p] = states[n][p]
    <3>1. states'[near][p] = y
      BY <2>3, <1>8
    <3>2. rx'[e] = r \/ rx'[e] = Append(r, Note(n))
      OBVIOUS
    <3>3. Note(n).states[p] \in {Absent, y}
      BY <2>3
    <3>4. Coming(f, y, q, Append(r, Note(n)), p)
      BY <3>3, <1>4, <1>5, ComingMore
    <3>5. QED BY <3>1, <3>2, <3>4, <2>1, <1>5
  <2>4. QED BY <2>2, <2>3
<1>9. CASE near # n
  <2>1. states'[near][p] = y /\ rx'[e] = r
    BY <1>9, <1>2, <1>7
  <2>2. CASE net'[Other(e)] = q /\ (far = n => ApplyState(states[n][p], update[p]) = states[n][p])
    <3>1. states'[far][p] = f
      BY <2>2, <1>2, <1>7
    <3>2. QED BY <3>1, <2>1, <2>2, <1>5
  <2>3. CASE /\ q # <<>> /\ net'[Other(e)] = Tail(q)
             /\ far = n /\ update[p] = Head(q).states[p]
    <3>1. Coming(ApplyState(f, Head(q).states[p]), y, Tail(q), r, p)
      BY <2>3, <1>4, <1>5, <1>6, ComingApplied
    <3>2. states'[far][p] = ApplyState(f, Head(q).states[p])
      BY <2>3, <1>7
    <3>3. QED BY <3>1, <3>2, <2>1, <2>3
  <2>4. QED BY <2>2, <2>3
<1>10. QED BY <1>8, <1>9

-----------------------------------------------------------------------------
(* What users do, and the publisher.                                       *)

LEMMA PublishKeeps ==
  ASSUME SessionInv, NEW n \in Node, Publish(n)
  PROVE  SessionInv'
PROOF
<1> DEFINE new == Integrated(doc[n]) \ published[n]
           msg == Update(new)
<1>1. Shape /\ Connected /\ Kinds /\ Announced /\ Asked /\ Sent /\ Older /\ Told
  BY DEF SessionInv
<1>2. doc \in [Node -> SUBSET Op] /\ published \in [Node -> SUBSET Op]
  BY <1>1 DEF Shape
<1>3. new \in SUBSET Op /\ Integrated(doc[n]) \in SUBSET Op
  BY <1>2, IntegratedOf
<1>4. msg \in Msg /\ msg.t = "update" /\ msg.ops = new /\ msg.states = NoStates
  BY <1>3, MessagesOf DEF Update
<1>5. Spread(n, msg)
  BY <1>1, <1>4, Spreading DEF Publish
<1>6. /\ published' = [published EXCEPT ![n] = Integrated(doc[n])]
      /\ UNCHANGED <<doc, observed, states, stage, answered, replies, net, clock>>
  BY DEF Publish, bounds
<1>7. /\ rx' \in [End -> Seq(Msg)] /\ missed \subseteq missed' /\ missed' \subseteq Client
      /\ \A e \in End : /\ stage[e] # "open" \/ NodeOf(e) # n => rx'[e] = rx[e]
                        /\ In(rx'[e]) \subseteq In(rx[e]) \cup {msg}
                        /\ NodeOf(e) = n /\ stage[e] = "open" /\ e[1] \notin missed' =>
                             rx'[e] = Append(rx[e], msg)
                        /\ NodeOf(e) = n /\ e \in answered /\ e[1] \notin missed' =>
                             stage[e] = "open"
  BY <1>5 DEF Spread
<1> HIDE DEF msg
<1>8. Shape'
  BY <1>1, <1>2, <1>3, <1>6, <1>7 DEF Shape
<1>9. Connected'
  BY <1>1, <1>6, <1>7 DEF Connected
<1>10. Kinds'
  <2>1. \A e \in End : \A m \in In(rx'[e]) : m \in In(rx[e]) \/ m = msg
    BY <1>7
  <2>2. QED BY <2>1, <1>1, <1>4, <1>6 DEF Kinds
<1>11. Announced'
  BY <1>1, <1>2, <1>6 DEF Announced
<1>12. Asked'
  BY <1>1, <1>6, <1>7 DEF Asked
<1>13. Sent'
  <2> SUFFICES ASSUME NEW e \in answered, e[1] \notin missed'
               PROVE  published'[NodeOf(e)] \subseteq doc[NodeOf(Other(e))]
                        \cup (Contents(net[Other(e)]) \cup Contents(replies[e]) \cup Contents(rx'[e]))
    BY <1>6 DEF Sent, Way
  <2>1. e \in End /\ NodeOf(e) \in Node /\ rx \in [End -> Seq(Msg)]
    BY <1>1, EndFacts DEF Shape
  <2>2. published[NodeOf(e)] \subseteq doc[NodeOf(Other(e))]
          \cup (Contents(net[Other(e)]) \cup Contents(replies[e]) \cup Contents(rx[e]))
    BY <1>1, <1>7 DEF Sent, Way
  <2>3. CASE NodeOf(e) = n
    <3>1. rx'[e] = Append(rx[e], msg)
      BY <2>1, <2>3, <1>7
    <3>2. In(rx'[e]) = In(rx[e]) \cup {msg}
      BY <3>1, <2>1, <1>4, InAppend
    <3>3. msg \in In(rx'[e]) /\ In(rx[e]) \subseteq In(rx'[e])
      BY <3>2
    <3>4. new \subseteq Contents(rx'[e])
      <4>1. msg.ops \subseteq Contents(rx'[e])
        BY <3>3, <1>4, ContentsOf
      <4>2. QED BY <4>1, <1>4
    <3>5. Contents(rx[e]) \subseteq Contents(rx'[e])
      BY <3>3, ContentsOf
    <3>6. published'[NodeOf(e)] \subseteq published[NodeOf(e)] \cup new
      BY <1>2, <1>6, <2>1, <2>3
    <3>7. QED BY <3>4, <3>5, <3>6, <2>2
  <2>4. CASE NodeOf(e) # n
    <3>1. rx'[e] = rx[e] /\ published'[NodeOf(e)] = published[NodeOf(e)]
      BY <2>1, <2>4, <1>2, <1>6, <1>7
    <3>2. QED BY <3>1, <2>2
  <2>5. QED BY <2>3, <2>4
<1>14. Older'
  <2>1. ASSUME NEW c \in Client, NEW p \in Peer, NEW e \in EndsOfConn(c),
               NEW m \in In(net'[e]) \cup In(rx'[e])
        PROVE  Behind(m.states[p], states[Nearer(c, p)][p])
    <3>1. e \in End
      BY ConnEnds
    <3>2. states[Nearer(c, p)][p] \in Known
      BY <1>1, Sides DEF Shape
    <3>3. m \in In(net[e]) \cup In(rx[e]) \/ m = msg
      BY <3>1, <1>6, <1>7
    <3>4. Behind(Absent, states[Nearer(c, p)][p]) /\ msg.states[p] = Absent
      BY <3>2, <1>4, AbsentKnown
    <3>5. QED BY <3>3, <3>4, <1>1 DEF Older
  <2>2. QED BY <2>1, <1>1, <1>6 DEF Older, Nearer, Farther
<1>15. Told'
  <2> SUFFICES ASSUME NEW e \in End, NEW p \in Peer,
                      NodeOf(e) = Nearer(e[1], p), stage[e] = "open", e[1] \notin missed'
               PROVE  Coming(states[Farther(e[1], p)][p], states[Nearer(e[1], p)][p],
                             net[Other(e)], rx'[e], p)
    BY <1>6 DEF Told, Nearer, Farther
  <2>1. Coming(states[Farther(e[1], p)][p], states[Nearer(e[1], p)][p],
               net[Other(e)], rx[e], p)
    BY <1>1, <1>7 DEF Told
  <2>2. net[Other(e)] \in Seq(Msg) /\ rx[e] \in Seq(Msg)
    BY <1>1, EndFacts DEF Shape
  <2>3. msg.states[p] = Absent
    BY <1>4, AbsentKnown
  <2>4. rx'[e] = rx[e] \/ rx'[e] = Append(rx[e], msg)
    BY <1>7
  <2>5. Coming(states[Farther(e[1], p)][p], states[Nearer(e[1], p)][p],
               net[Other(e)], Append(rx[e], msg), p)
    BY <2>1, <2>2, <2>3, <1>4, ComingMore
  <2>6. QED BY <2>1, <2>4, <2>5
<1>16. QED BY <1>8, <1>9, <1>10, <1>11, <1>12, <1>13, <1>14, <1>15 DEF SessionInv

LEMMA EditKeeps ==
  ASSUME SessionInv, NEW o \in Op, Edit(o)
  PROVE  SessionInv'
PROOF
<1>1. Shape /\ Connected /\ Kinds /\ Announced /\ Asked /\ Sent /\ Older /\ Told
  BY DEF SessionInv
<1>2. doc \in [Node -> SUBSET Op] /\ o[1] \in Node
  BY <1>1, SessionAssumption DEF Shape, Node
<1>3. /\ doc' = [doc EXCEPT ![o[1]] = @ \cup {o}]
      /\ UNCHANGED <<published, observed, states, stage, answered, replies, rx, net, missed, clock>>
  BY DEF Edit, handlers
<1>4. doc' \in [Node -> SUBSET Op] /\ \A n \in Node : doc[n] \subseteq doc'[n]
  BY <1>2, <1>3
<1>5. Shape' /\ Connected' /\ Asked' /\ Older' /\ Told'
  BY <1>1, <1>3, <1>4 DEF Shape, Connected, Asked, Older, Told, Nearer, Farther
<1>6. Kinds'
  BY <1>1, <1>3, <1>4, EndFacts DEF Kinds
<1>7. Announced'
  <2>1. \A n \in Node : Integrated(doc[n]) \subseteq Integrated(doc'[n])
    BY <1>4, IntegratedOf
  <2>2. QED BY <2>1, <1>1, <1>3 DEF Announced
<1>8. Sent'
  <2>1. answered \subseteq End
    BY <1>1 DEF Shape
  <2>2. \A e \in answered : doc[NodeOf(Other(e))] \subseteq doc'[NodeOf(Other(e))]
    BY <2>1, <1>4, EndFacts
  <2>3. QED BY <2>2, <1>1, <1>3 DEF Sent, Way
<1>9. QED BY <1>5, <1>6, <1>7, <1>8 DEF SessionInv

-----------------------------------------------------------------------------
(* A node that hears something.                                            *)

LEMMA HeardQueues ==
  ASSUME Shape, Connected, NEW n \in Node, Note(n) \in Msg,
         \/ Spread(n, Note(n))
         \/ rx' = rx /\ missed' = missed /\ (states'[n] = states[n] \/ n \notin observed)
  PROVE  /\ rx' \in [End -> Seq(Msg)] /\ missed \subseteq missed' /\ missed' \subseteq Client
         /\ \A e \in End :
              /\ stage[e] # "open" => rx'[e] = rx[e]
              /\ \/ In(rx'[e]) \subseteq In(rx[e])
                 \/ NodeOf(e) = n /\ In(rx'[e]) \subseteq In(rx[e]) \cup {Note(n)}
              /\ stage[e] = "open" /\ e[1] \notin missed' =>
                   \/ NodeOf(e) = n /\ rx'[e] = Append(rx[e], Note(n))
                   \/ NodeOf(e) = n /\ rx'[e] = rx[e] /\ states'[n] = states[n]
                   \/ NodeOf(e) # n /\ rx'[e] = rx[e]
              /\ e \in answered /\ e[1] \notin missed' => In(rx[e]) \subseteq In(rx'[e])
PROOF
<1>1. rx \in [End -> Seq(Msg)] /\ missed \subseteq Client
  BY DEF Shape
<1>2. CASE rx' = rx /\ missed' = missed /\ (states'[n] = states[n] \/ n \notin observed)
  <2>1. \A e \in End : stage[e] = "open" => NodeOf(e) \in observed
    BY DEF Connected
  <2>2. QED BY <1>1, <1>2, <2>1
<1>3. CASE Spread(n, Note(n))
  <2>1. /\ rx' \in [End -> Seq(Msg)] /\ missed \subseteq missed' /\ missed' \subseteq Client
        /\ \A e \in End : /\ stage[e] # "open" \/ NodeOf(e) # n => rx'[e] = rx[e]
                          /\ In(rx'[e]) \subseteq In(rx[e]) \cup {Note(n)}
                          /\ NodeOf(e) = n /\ stage[e] = "open" /\ e[1] \notin missed' =>
                               rx'[e] = Append(rx[e], Note(n))
                          /\ NodeOf(e) = n /\ e \in answered /\ e[1] \notin missed' =>
                               stage[e] = "open"
    BY <1>3 DEF Spread
  <2>2. \A e \in End : In(Append(rx[e], Note(n))) = In(rx[e]) \cup {Note(n)}
    BY <1>1, InAppend
  <2>3. ASSUME NEW e \in End
        PROVE  /\ stage[e] # "open" => rx'[e] = rx[e]
               /\ \/ In(rx'[e]) \subseteq In(rx[e])
                  \/ NodeOf(e) = n /\ In(rx'[e]) \subseteq In(rx[e]) \cup {Note(n)}
               /\ stage[e] = "open" /\ e[1] \notin missed' =>
                    \/ NodeOf(e) = n /\ rx'[e] = Append(rx[e], Note(n))
                    \/ NodeOf(e) # n /\ rx'[e] = rx[e]
    BY <2>1
  <2>4. ASSUME NEW e \in End, e \in answered, e[1] \notin missed'
        PROVE  In(rx[e]) \subseteq In(rx'[e])
    <3>1. CASE NodeOf(e) = n
      BY <3>1, <2>1, <2>2, <2>4
    <3>2. CASE NodeOf(e) # n
      BY <3>2, <2>1
    <3>3. QED BY <3>1, <3>2
  <2>5. QED BY <2>1, <2>3, <2>4
<1>4. QED BY <1>2, <1>3

LEMMA AnnounceKeeps ==
  ASSUME SessionInv, NEW peer \in Peer, NEW k \in Clock, NEW on \in BOOLEAN, Announce(peer, k, on)
  PROVE  SessionInv'
PROOF
<1> DEFINE n == Home[peer]
           update == [NoStates EXCEPT ![peer] = [clock |-> k, on |-> on]]
<1>1. Shape /\ Connected /\ Kinds /\ Announced /\ Asked /\ Sent /\ Older /\ Told
  BY DEF SessionInv
<1>2. n \in Node
  BY SessionAssumption DEF Node
<1>3. k \in Nat /\ k > 0
  <2>1. k \in Nat
    BY ClockAssumption
  <2>2. clock[peer] \in Nat
    BY <1>1 DEF Shape
  <2>3. k = clock[peer] + 1 \/ k = clock[peer] + 2
    BY DEF Announce
  <2>4. QED BY <2>1, <2>2, <2>3
<1>4. [clock |-> k, on |-> on] \in Known
  BY <1>3 DEF Known
<1>5. update \in [Peer -> Known] /\ \A p \in Peer \ {peer} : update[p] = Absent
  BY <1>4, AbsentKnown
<1>6. ApplyAwareness(n, update)
  BY DEF Announce
<1>7. /\ UNCHANGED <<doc, published, observed, stage, answered, replies, net>>
      /\ clock' = [clock EXCEPT ![peer] = k]
  BY DEF Announce, docs
<1> HIDE DEF update, n
<1>8. /\ Heard(n, update) /\ Note(n) \in Msg
      /\ \A p \in Peer : Note(n).states[p] = IF states'[n][p] = states[n][p] THEN Absent
                                              ELSE states'[n][p]
      /\ \/ Spread(n, Note(n))
         \/ rx' = rx /\ missed' = missed /\ (states'[n] = states[n] \/ n \notin observed)
  BY <1>1, <1>2, <1>5, <1>6, Hearing
<1>9. /\ rx' \in [End -> Seq(Msg)] /\ missed \subseteq missed' /\ missed' \subseteq Client
      /\ \A e \in End :
           /\ stage[e] # "open" => rx'[e] = rx[e]
           /\ \/ In(rx'[e]) \subseteq In(rx[e])
              \/ NodeOf(e) = n /\ In(rx'[e]) \subseteq In(rx[e]) \cup {Note(n)}
           /\ stage[e] = "open" /\ e[1] \notin missed' =>
                \/ NodeOf(e) = n /\ rx'[e] = Append(rx[e], Note(n))
                \/ NodeOf(e) = n /\ rx'[e] = rx[e] /\ states'[n] = states[n]
                \/ NodeOf(e) # n /\ rx'[e] = rx[e]
           /\ e \in answered /\ e[1] \notin missed' => In(rx[e]) \subseteq In(rx'[e])
  BY <1>1, <1>2, <1>8, HeardQueues
<1>10. Note(n).t = "awareness"
  BY DEF Note, Presence
<1>11. Shape'
  <2>1. clock' \in [Peer -> Nat]
    BY <1>1, <1>3, <1>7 DEF Shape
  <2>2. states' \in [Node -> [Peer -> Known]]
    BY <1>8 DEF Heard
  <2>3. QED BY <2>1, <2>2, <1>1, <1>7, <1>9 DEF Shape
<1>12. Connected'
  BY <1>1, <1>7, <1>9 DEF Connected
<1>13. Kinds'
  <2>1. \A e \in End : \A m \in In(rx'[e]) : m \in In(rx[e]) \/ m = Note(n)
    BY <1>9
  <2>2. QED BY <2>1, <1>1, <1>7, <1>10 DEF Kinds
<1>14. Announced' /\ Asked'
  BY <1>1, <1>7, <1>9 DEF Announced, Asked
<1>15. Sent'
  <2>1. answered \subseteq End
    BY <1>1 DEF Shape
  <2>2. \A e \in answered : e[1] \notin missed' => Contents(rx[e]) \subseteq Contents(rx'[e])
    BY <2>1, <1>9, ContentsOf
  <2>3. QED BY <2>2, <1>1, <1>7, <1>9 DEF Sent, Way
<1>16. Older'
  <2>1. \A c \in Client, p \in Peer : n = Farther(c, p) => Behind(update[p], states[Nearer(c, p)][p])
    <3> SUFFICES ASSUME NEW c \in Client, NEW p \in Peer, n = Farther(c, p)
                 PROVE  Behind(update[p], states[Nearer(c, p)][p])
      OBVIOUS
    <3>1. p # peer
      BY Sides DEF n
    <3>2. update[p] = Absent
      BY <3>1, <1>5
    <3>3. states[Nearer(c, p)][p] \in Known
      BY <1>1, Sides DEF Shape
    <3>4. QED BY <3>2, <3>3, AbsentKnown
  <2>2. \A e \in End : In(net'[e]) \subseteq In(net[e])
    BY <1>7
  <2>3. QED BY <2>1, <2>2, <1>2, <1>5, <1>8, <1>9, HearOlder
<1>17. Told'
  <2> SUFFICES ASSUME NEW e \in End, NEW p \in Peer,
                      NodeOf(e) = Nearer(e[1], p), stage[e] = "open", e[1] \notin missed'
               PROVE  Coming(states'[Farther(e[1], p)][p], states'[Nearer(e[1], p)][p],
                             net'[Other(e)], rx'[e], p)
    BY <1>7 DEF Told, Nearer, Farther
  <2>1. Farther(e[1], p) = n => ApplyState(states[n][p], update[p]) = states[n][p]
    <3> SUFFICES ASSUME Farther(e[1], p) = n
                 PROVE  ApplyState(states[n][p], update[p]) = states[n][p]
      OBVIOUS
    <3>1. p # peer
      BY Sides, EndFacts DEF n
    <3>2. update[p] = Absent /\ states[n][p] \in Known
      BY <3>1, <1>1, <1>2, <1>5 DEF Shape
    <3>3. QED BY <3>2, AbsentKnown, Applied
  <2>2. net'[Other(e)] = net[Other(e)] /\ e[1] \notin missed
    BY <1>7, <1>9
  <2>3. \/ NodeOf(e) = n /\ rx'[e] = Append(rx[e], Note(n))
        \/ NodeOf(e) = n /\ rx'[e] = rx[e] /\ states'[n] = states[n]
        \/ NodeOf(e) # n /\ rx'[e] = rx[e]
    BY <1>9
  <2>4. QED BY <2>1, <2>2, <2>3, <1>2, <1>5, <1>8, HearTold
<1>18. QED BY <1>11, <1>12, <1>13, <1>14, <1>15, <1>16, <1>17 DEF SessionInv

-----------------------------------------------------------------------------
(* The client's loop, and connections that come and go.                    *)

LEMMA StartKeeps ==
  ASSUME SessionInv, NEW c \in Client, Start(c)
  PROVE  SessionInv'
PROOF
<1>1. Shape /\ Connected /\ Kinds /\ Announced /\ Asked /\ Sent /\ Older /\ Told
  BY DEF SessionInv
<1>2. /\ UNCHANGED <<doc, published, states, answered, replies, rx, net, missed, clock>>
      /\ stage' = [stage EXCEPT ![<<c, "client">>] = "off"]
      /\ observed' \in {observed, observed \cup {c}}
  BY DEF Start, bounds
<1>3. stage \in [End -> {"new", "off", "stuck", "applying", "joining", "open"}]
      /\ observed \subseteq Node /\ c \in Node /\ <<c, "client">> \in End
  BY <1>1 DEF Shape, Node, End
<1>4. stage[<<c, "client">>] = "new"
  BY DEF Start
<1>5. /\ stage' \in [End -> {"new", "off", "stuck", "applying", "joining", "open"}]
      /\ observed \subseteq observed' /\ observed' \subseteq Node
      /\ \A e \in End : stage'[e] # stage[e] => stage[e] = "new" /\ stage'[e] = "off"
  BY <1>2, <1>3, <1>4
<1>6. \A e \in End : /\ stage'[e] = "open" <=> stage[e] = "open"
                     /\ stage'[e] \in Up <=> stage[e] \in Up
                     /\ stage'[e] \in {"joining", "open"} <=> stage[e] \in {"joining", "open"}
  BY <1>5 DEF Up
<1>7. Shape'
  BY <1>1, <1>2, <1>5 DEF Shape
<1>8. Connected'
  BY <1>1, <1>2, <1>5, <1>6, EndFacts DEF Connected
<1>9. Kinds' /\ Announced' /\ Sent' /\ Older'
  BY <1>1, <1>2 DEF Kinds, Announced, Sent, Way, Older, Nearer, Farther
<1>10. Asked'
  BY <1>1, <1>2, <1>6, EndFacts DEF Asked
<1>11. Told'
  BY <1>1, <1>2, <1>6 DEF Told, Nearer, Farther
<1>12. QED BY <1>7, <1>8, <1>9, <1>10, <1>11 DEF SessionInv

LEMMA ConnectKeeps ==
  ASSUME SessionInv, NEW c \in Client, Connect(c)
  PROVE  SessionInv'
PROOF
<1>1. Shape /\ Connected /\ Kinds /\ Announced /\ Asked /\ Sent /\ Older /\ Told
  BY DEF SessionInv
<1>2. /\ UNCHANGED <<doc, published, observed, states, answered, replies, rx, net, missed, clock>>
      /\ stage' = [e \in End |-> IF e[1] = c THEN "applying" ELSE stage[e]]
  BY DEF Connect, docs, bounds
<1>3. \A e \in End : e[1] = c => stage[e] = "off"
  BY ConnEnds DEF Connect, Reconnecting
<1>4. \A e \in End : /\ stage'[e] \in {"joining", "open"} => stage'[e] = stage[e]
                     /\ stage[e] = "open" => stage'[e] = "open"
  BY <1>2, <1>3
<1>5. Shape'
  BY <1>1, <1>2 DEF Shape
<1>6. Connected'
  <2>1. \A e \in End : stage'[e] \in Up => stage'[Other(e)] \in Up
    BY <1>1, <1>2, EndFacts DEF Connected, Up
  <2>2. QED BY <2>1, <1>1, <1>2, <1>4 DEF Connected
<1>7. Kinds' /\ Announced' /\ Sent' /\ Older'
  BY <1>1, <1>2 DEF Kinds, Announced, Sent, Way, Older, Nearer, Farther
<1>8. Asked'
  BY <1>1, <1>2, <1>4, EndFacts DEF Asked
<1>9. Told'
  BY <1>1, <1>2, <1>4 DEF Told, Nearer, Farther
<1>10. QED BY <1>5, <1>6, <1>7, <1>8, <1>9 DEF SessionInv

LEMMA PostFailsKeeps ==
  ASSUME SessionInv, NEW c \in Client, PostFails(c)
  PROVE  SessionInv'
PROOF
<1>1. Shape /\ Connected /\ Kinds /\ Announced /\ Asked /\ Sent /\ Older /\ Told
  BY DEF SessionInv
<1>2. /\ UNCHANGED <<doc, published, observed, states, answered, replies, rx, net, missed, clock>>
      /\ stage' = [stage EXCEPT ![<<c, "client">>] = "stuck"]
  BY DEF PostFails, WaitForOpen, docs
<1>3. stage[<<c, "client">>] = "off"
  BY DEF PostFails, Reconnecting, EndsOfConn
<1>4. /\ stage \in [End -> {"new", "off", "stuck", "applying", "joining", "open"}]
      /\ <<c, "client">> \in End
  BY <1>1 DEF Shape, End
<1>5. \A e \in End : stage'[e] # stage[e] => stage[e] = "off" /\ stage'[e] = "stuck"
  BY <1>2, <1>3, <1>4
<1>6. \A e \in End : /\ stage'[e] = "open" <=> stage[e] = "open"
                     /\ stage'[e] \in Up <=> stage[e] \in Up
                     /\ stage'[e] \in {"joining", "open"} <=> stage[e] \in {"joining", "open"}
  BY <1>5 DEF Up
<1>7. Shape'
  BY <1>1, <1>2 DEF Shape
<1>8. Connected'
  BY <1>1, <1>2, <1>6, EndFacts DEF Connected
<1>9. Kinds' /\ Announced' /\ Sent' /\ Older'
  BY <1>1, <1>2 DEF Kinds, Announced, Sent, Way, Older, Nearer, Farther
<1>10. Asked'
  BY <1>1, <1>2, <1>6, EndFacts DEF Asked
<1>11. Told'
  BY <1>1, <1>2, <1>6 DEF Told, Nearer, Farther
<1>12. QED BY <1>7, <1>8, <1>9, <1>10, <1>11 DEF SessionInv

LEMMA SendErrorKeeps ==
  ASSUME SessionInv, NEW c \in Client, SendError(c)
  PROVE  SessionInv'
PROOF
<1> DEFINE e == <<c, "server">>
<1>1. Shape /\ Connected /\ Kinds /\ Announced /\ Asked /\ Sent /\ Older /\ Told
  BY DEF SessionInv
<1>2. /\ UNCHANGED <<doc, published, observed, states, stage, answered, replies, rx, clock>>
      /\ net' = [net EXCEPT ![e] = SubSeq(@, 1, Len(@) - 1)]
      /\ missed' = missed \cup {c}
  BY DEF SendError, docs, handlers
<1>3. e \in End /\ e[1] = c /\ net \in [End -> Seq(Msg)]
  BY <1>1 DEF Shape, End
<1>4. /\ SubSeq(net[e], 1, Len(net[e]) - 1) \in Seq(Msg)
      /\ In(SubSeq(net[e], 1, Len(net[e]) - 1)) \subseteq In(net[e])
  <2>1. net[e] \in Seq(Msg) /\ Len(net[e]) - 1 \in Int /\ Len(net[e]) - 1 <= Len(net[e])
    BY <1>3
  <2>2. \A b \in Int : b <= Len(net[e]) =>
          SubSeq(net[e], 1, b) \in Seq(Msg) /\ In(SubSeq(net[e], 1, b)) \subseteq In(net[e])
    BY <2>1, InPart
  <2>3. QED BY <2>1, <2>2
<1>5. /\ net' \in [End -> Seq(Msg)] /\ \A d \in End : In(net'[d]) \subseteq In(net[d])
      /\ \A d \in End : d[1] \notin missed' => d[1] \notin missed /\ net'[d] = net[d]
                                               /\ net'[Other(d)] = net[Other(d)]
  BY <1>2, <1>3, <1>4, EndFacts
<1>6. Shape'
  BY <1>1, <1>2, <1>5 DEF Shape
<1>7. Connected' /\ Announced'
  BY <1>1, <1>2 DEF Connected, Announced
<1>8. Kinds'
  BY <1>1, <1>2, <1>5 DEF Kinds
<1>9. Asked'
  BY <1>1, <1>2, <1>5 DEF Asked
<1>10. Sent'
  BY <1>1, <1>2, <1>5 DEF Sent, Way, Shape
<1>11. Older'
  <2>1. \A d \in Client : EndsOfConn(d) \subseteq End
    BY ConnEnds
  <2>2. QED BY <2>1, <1>1, <1>2, <1>5 DEF Older, Nearer, Farther
<1>12. Told'
  BY <1>1, <1>2, <1>5 DEF Told, Nearer, Farther
<1>13. QED BY <1>6, <1>7, <1>8, <1>9, <1>10, <1>11, <1>12 DEF SessionInv

LEMMA DropKeeps ==
  ASSUME SessionInv, NEW c \in Client,
         NEW k \in 0..Len(net[<<c, "client">>]), NEW l \in 0..Len(net[<<c, "server">>]),
         Drop(c, k, l)
  PROVE  SessionInv'
PROOF
<1>1. Shape /\ Connected /\ Kinds /\ Announced /\ Asked /\ Sent /\ Older /\ Told
  BY DEF SessionInv
<1>2. /\ UNCHANGED <<doc, published, observed, states, clock>>
      /\ net' = [net EXCEPT ![<<c, "client">>] = SubSeq(@, 1, k),
                            ![<<c, "server">>] = SubSeq(@, 1, l)]
      /\ stage' = [e \in End |-> IF e[1] = c THEN "off" ELSE stage[e]]
      /\ answered' = answered \ EndsOfConn(c)
      /\ replies' = [e \in End |-> IF e[1] = c THEN <<>> ELSE replies[e]]
      /\ rx' = [e \in End |-> IF e[1] = c THEN <<>> ELSE rx[e]]
      /\ missed' = missed \ {c}
  BY DEF Drop, docs
<1>3. /\ <<c, "client">> \in End /\ <<c, "server">> \in End /\ net \in [End -> Seq(Msg)]
      /\ <<c, "client">>[1] = c /\ <<c, "server">>[1] = c /\ <<c, "client">> # <<c, "server">>
  BY <1>1 DEF Shape, End
<1>4. ASSUME NEW e \in End, NEW b \in 0..Len(net[e])
      PROVE  SubSeq(net[e], 1, b) \in Seq(Msg) /\ In(SubSeq(net[e], 1, b)) \subseteq In(net[e])
  <2>1. net[e] \in Seq(Msg) /\ b \in Int /\ b <= Len(net[e])
    BY <1>3
  <2>2. QED BY <2>1, InPart
<1>5. /\ net' \in [End -> Seq(Msg)] /\ \A e \in End : In(net'[e]) \subseteq In(net[e])
      /\ \A e \in End : e[1] # c => net'[e] = net[e]
  <2>1. /\ SubSeq(net[<<c, "client">>], 1, k) \in Seq(Msg)
        /\ In(SubSeq(net[<<c, "client">>], 1, k)) \subseteq In(net[<<c, "client">>])
    BY <1>3, <1>4
  <2>2. /\ SubSeq(net[<<c, "server">>], 1, l) \in Seq(Msg)
        /\ In(SubSeq(net[<<c, "server">>], 1, l)) \subseteq In(net[<<c, "server">>])
    BY <1>3, <1>4
  <2>3. QED BY <2>1, <2>2, <1>2, <1>3
<1>6. \A e \in End : /\ e[1] # c => /\ net'[Other(e)] = net[Other(e)] /\ stage'[Other(e)] = stage[Other(e)]
                                   /\ stage'[e] = stage[e] /\ replies'[e] = replies[e]
                                   /\ rx'[e] = rx[e]
                     /\ e[1] = c => /\ stage'[e] = "off" /\ stage'[Other(e)] = "off"
                                    /\ replies'[e] = <<>> /\ rx'[e] = <<>> /\ e \notin answered'
  BY <1>2, <1>5, EndFacts, ConnEnds
<1>7. Shape'
  <2>1. <<>> \in Seq(Msg)
    OBVIOUS
  <2>2. QED BY <2>1, <1>1, <1>2, <1>5 DEF Shape
<1>8. Connected'
  <2>1. ASSUME NEW e \in End
        PROVE  /\ stage'[e] \in Up => stage'[Other(e)] \in Up
               /\ stage'[e] \in {"joining", "open"} => NodeOf(e) \in observed'
               /\ stage'[e] # "open" => rx'[e] = <<>>
    BY <1>1, <1>2, <1>6 DEF Connected, Up
  <2>2. QED BY <2>1 DEF Connected
<1>9. Kinds'
  <2>1. \A e \in End : In(replies'[e]) \subseteq In(replies[e]) /\ In(rx'[e]) \subseteq In(rx[e])
    BY <1>6, InEmpty
  <2>2. QED BY <2>1, <1>1, <1>2, <1>5 DEF Kinds
<1>10. Announced'
  BY <1>1, <1>2 DEF Announced
<1>11. Asked'
  <2> SUFFICES ASSUME NEW e \in End, stage'[Other(e)] = "open", e[1] \notin missed'
               PROVE  e \in answered' \/ \E m \in In(net'[e]) : m.t = "step1"
    BY DEF Asked
  <2>1. e[1] # c
    BY <1>6
  <2>2. e \in answered \/ \E m \in In(net[e]) : m.t = "step1"
    BY <2>1, <1>1, <1>2, <1>6 DEF Asked
  <2>3. QED BY <2>1, <2>2, <1>2, <1>5, ConnEnds
<1>12. Sent'
  <2> SUFFICES ASSUME NEW e \in answered', e[1] \notin missed'
               PROVE  published'[NodeOf(e)] \subseteq doc'[NodeOf(Other(e))]
                        \cup (Contents(net'[Other(e)]) \cup Contents(replies'[e]) \cup Contents(rx'[e]))
    BY DEF Sent, Way
  <2>1. e \in answered /\ e \in End /\ e[1] # c
    BY <1>1, <1>2, <1>6 DEF Shape
  <2>2. e[1] \notin missed
    BY <2>1, <1>2
  <2>3. QED BY <2>1, <2>2, <1>1, <1>2, <1>6 DEF Sent, Way
<1>13. Older'
  <2>1. \A d \in Client : EndsOfConn(d) \subseteq End
    BY ConnEnds
  <2>2. \A e \in End : In(rx'[e]) \subseteq In(rx[e])
    BY <1>6, InEmpty
  <2>3. QED BY <2>1, <2>2, <1>1, <1>2, <1>5 DEF Older, Nearer, Farther
<1>14. Told'
  <2> SUFFICES ASSUME NEW e \in End, NEW p \in Peer,
                      NodeOf(e) = Nearer(e[1], p), stage'[e] = "open", e[1] \notin missed'
               PROVE  Coming(states'[Farther(e[1], p)][p], states'[Nearer(e[1], p)][p],
                             net'[Other(e)], rx'[e], p)
    BY DEF Told, Nearer, Farther
  <2>1. e[1] # c
    BY <1>6
  <2>2. QED BY <2>1, <1>1, <1>2, <1>6 DEF Told
<1>15. QED BY <1>7, <1>8, <1>9, <1>10, <1>11, <1>12, <1>13, <1>14 DEF SessionInv

-----------------------------------------------------------------------------
(* The handler.                                                            *)

LEMMA SubscribeKeeps ==
  ASSUME SessionInv, NEW e \in End, Subscribe(e)
  PROVE  SessionInv'
PROOF
<1>1. Shape /\ Connected /\ Kinds /\ Announced /\ Asked /\ Sent /\ Older /\ Told
  BY DEF SessionInv
<1>2. /\ UNCHANGED <<doc, published, states, answered, replies, rx, net, missed, clock>>
      /\ stage' = [stage EXCEPT ![e] = "joining"] /\ stage[e] = "applying"
      /\ observed' = observed \cup {NodeOf(e)}
  BY DEF Subscribe, bounds
<1>3. stage \in [End -> {"new", "off", "stuck", "applying", "joining", "open"}]
      /\ observed \subseteq Node
  BY <1>1 DEF Shape
<1>4. \A d \in End : /\ stage'[d] = "open" <=> stage[d] = "open"
                     /\ stage'[d] \in Up <=> stage[d] \in Up
                     /\ stage'[d] \in {"joining", "open"} => d = e \/ stage[d] \in {"joining", "open"}
  BY <1>2, <1>3 DEF Up
<1>5. Shape'
  BY <1>1, <1>2, EndFacts DEF Shape
<1>6. Connected'
  BY <1>1, <1>2, <1>4, EndFacts DEF Connected
<1>7. Kinds' /\ Announced' /\ Sent' /\ Older'
  BY <1>1, <1>2 DEF Kinds, Announced, Sent, Way, Older, Nearer, Farther
<1>8. Asked'
  BY <1>1, <1>2, <1>4, EndFacts DEF Asked
<1>9. Told'
  BY <1>1, <1>2, <1>4 DEF Told, Nearer, Farther
<1>10. QED BY <1>5, <1>6, <1>7, <1>8, <1>9 DEF SessionInv

LEMMA JoinAndInitKeeps ==
  ASSUME SessionInv, NEW e \in End, JoinAndInit(e)
  PROVE  SessionInv'
PROOF
<1> DEFINE n == NodeOf(e)
           ask == Step1(Integrated(doc[n]))
           tell == Presence(states[n])
<1>1. Shape /\ Connected /\ Kinds /\ Announced /\ Asked /\ Sent /\ Older /\ Told
  BY DEF SessionInv
<1>2. /\ UNCHANGED <<doc, published, observed, states, answered, replies, rx, missed, clock>>
      /\ stage' = [stage EXCEPT ![e] = "open"] /\ stage[e] = "joining"
      /\ Carry(e, <<ask, tell>>)
  BY DEF JoinAndInit, docs, bounds, SyncInit
<1>3. n \in Node /\ Other(e) \in End /\ Other(Other(e)) = e /\ e[1] \in Client
      /\ stage \in [End -> {"new", "off", "stuck", "applying", "joining", "open"}]
      /\ net \in [End -> Seq(Msg)] /\ rx \in [End -> Seq(Msg)]
  BY <1>1, EndFacts DEF Shape
<1>4. Integrated(doc[n]) \in SUBSET Op /\ Integrated(doc[n]) \subseteq doc[n]
      /\ states[n] \in [Peer -> Known]
  BY <1>1, <1>3, IntegratedOf DEF Shape
<1>5. /\ ask \in Msg /\ ask.t = "step1" /\ ask.ops = Integrated(doc[n]) /\ ask.states = NoStates
      /\ tell \in Msg /\ tell.t = "awareness" /\ tell.states = states[n]
  BY <1>4, MessagesOf DEF Step1, Presence
<1> HIDE DEF ask, tell, n
<1>6. <<ask, tell>> \in Seq(Msg) /\ In(<<ask, tell>>) = {ask, tell}
  BY <1>5, TwoMessages
<1>8. /\ net' \in [End -> Seq(Msg)] /\ net'[Other(e)] = net[Other(e)] \o <<ask, tell>>
      /\ In(net'[Other(e)]) = In(net[Other(e)]) \cup {ask, tell}
      /\ \A d \in End : d # Other(e) => net'[d] = net[d]
  BY <1>1, <1>2, <1>6, Carrying
<1>9. \A d \in End : /\ d # e => stage'[d] = stage[d]
                     /\ In(net[d]) \subseteq In(net'[d])
  BY <1>2, <1>3, <1>8
<1>10. Shape'
  BY <1>1, <1>2, <1>8 DEF Shape
<1>11. Connected'
  <2>1. \A d \in End : /\ stage'[d] \in Up <=> stage[d] \in Up
                       /\ stage'[d] \in {"joining", "open"} => stage[d] \in {"joining", "open"}
                       /\ stage'[d] # "open" => stage[d] # "open"
    BY <1>2, <1>3 DEF Up
  <2>2. QED BY <2>1, <1>1, <1>2, EndFacts DEF Connected
<1>12. Kinds'
  <2>1. ASSUME NEW d \in End, NEW m \in In(net'[d])
        PROVE  /\ m.t = "step1" => m.ops \subseteq doc[NodeOf(Other(d))]
               /\ m.t # "awareness" => m.states = NoStates
    <3>1. CASE m \in In(net[d])
      BY <3>1, <1>1 DEF Kinds
    <3>2. CASE d = Other(e) /\ m \in {ask, tell}
      BY <3>2, <1>3, <1>4, <1>5 DEF n
    <3>3. QED BY <3>1, <3>2, <1>8
  <2>2. QED BY <2>1, <1>1, <1>2 DEF Kinds
<1>13. Announced'
  BY <1>1, <1>2 DEF Announced
<1>14. Asked'
  <2> SUFFICES ASSUME NEW d \in End, stage'[Other(d)] = "open", d[1] \notin missed
               PROVE  d \in answered \/ \E m \in In(net'[d]) : m.t = "step1"
    BY <1>2 DEF Asked
  <2>1. CASE d = Other(e)
    BY <2>1, <1>5, <1>8
  <2>2. CASE d # Other(e)
    <3>1. Other(d) # e /\ Other(d) \in End
      BY <2>2, EndFacts
    <3>2. d \in answered \/ \E m \in In(net[d]) : m.t = "step1"
      BY <3>1, <1>1, <1>9 DEF Asked
    <3>3. QED BY <3>2, <1>9
  <2>3. QED BY <2>1, <2>2
<1>15. Sent'
  <2>1. \A d \in End : Contents(net[Other(d)]) \subseteq Contents(net'[Other(d)])
    BY <1>9, EndFacts, ContentsOf
  <2>2. answered \subseteq End
    BY <1>1 DEF Shape
  <2>3. QED BY <2>1, <2>2, <1>1, <1>2 DEF Sent, Way
<1>16. Older'
  <2>1. ASSUME NEW c \in Client, NEW p \in Peer, NEW d \in EndsOfConn(c),
               NEW m \in In(net'[d]) \cup In(rx[d])
        PROVE  Behind(m.states[p], states[Nearer(c, p)][p])
    <3>1. d \in End /\ d[1] = c
      BY ConnEnds
    <3>2. CASE m \in In(net[d]) \cup In(rx[d])
      BY <3>2, <1>1 DEF Older
    <3>3. CASE d = Other(e) /\ m \in {ask, tell}
      <4>1. states[Nearer(c, p)][p] \in Known
        BY <1>1, Sides DEF Shape
      <4>2. Behind(NoStates[p], states[Nearer(c, p)][p])
        BY <4>1, AbsentKnown
      <4>3. n \in {Nearer(c, p), Farther(c, p)}
        BY <3>1, <3>3, EndFacts, Sides DEF n
      <4>4. Behind(states[n][p], states[Nearer(c, p)][p])
        BY <4>3, <1>1 DEF Older, Behind
      <4>5. QED BY <3>3, <4>2, <4>4, <1>5
    <3>4. QED BY <3>1, <3>2, <3>3, <1>8
  <2>2. QED BY <2>1, <1>1, <1>2 DEF Older, Nearer, Farther
<1>17. Told'
  <2> SUFFICES ASSUME NEW d \in End, NEW p \in Peer,
                      NodeOf(d) = Nearer(d[1], p), stage'[d] = "open", d[1] \notin missed
               PROVE  Coming(states[Farther(d[1], p)][p], states[Nearer(d[1], p)][p],
                             net'[Other(d)], rx[d], p)
    BY <1>2 DEF Told, Nearer, Farther
  <2>1. CASE d = e
    <3>1. rx[e] = <<>>
      BY <1>1, <1>2 DEF Connected
    <3>2. tell.states[p] = states[Nearer(e[1], p)][p]
      BY <2>1, <1>5 DEF n
    <3>4. Brings(<<ask, tell>>, states[Nearer(e[1], p)][p], p)
      BY <3>2, <1>5, TwoMessages
    <3>5. Brings(net'[Other(e)], states[Nearer(e[1], p)][p], p)
      BY <3>4, <1>3, <1>6, <1>8, BringsOn
    <3>6. QED BY <2>1, <3>1, <3>5, InEmpty DEF Coming
  <2>2. CASE d # e
    <3>1. net'[Other(d)] = net[Other(d)] /\ stage[d] = "open"
      BY <2>2, <1>8, <1>9, EndFacts
    <3>2. QED BY <3>1, <1>1 DEF Told
  <2>3. QED BY <2>1, <2>2
<1>18. QED BY <1>10, <1>11, <1>12, <1>13, <1>14, <1>15, <1>16, <1>17 DEF SessionInv

LEMMA ForwardKeeps ==
  ASSUME SessionInv, NEW e \in End, Forward(e)
  PROVE  SessionInv'
PROOF
<1> DEFINE m == Head(rx[e])
<1>1. Shape /\ Connected /\ Kinds /\ Announced /\ Asked /\ Sent /\ Older /\ Told
  BY DEF SessionInv
<1>2. /\ UNCHANGED <<doc, published, observed, states, stage, answered, replies, missed, clock>>
      /\ rx' = [rx EXCEPT ![e] = Tail(@)] /\ rx[e] # <<>> /\ stage[e] = "open"
      /\ Carry(e, <<m>>)
  BY DEF Forward, docs, bounds
<1>3. Other(e) \in End /\ Other(Other(e)) = e
      /\ net \in [End -> Seq(Msg)] /\ rx \in [End -> Seq(Msg)]
  BY <1>1, EndFacts DEF Shape
<1>4. m \in Msg /\ Tail(rx[e]) \in Seq(Msg) /\ In(rx[e]) = In(Tail(rx[e])) \cup {m}
  BY <1>2, <1>3, InTail
<1>5. <<m>> \in Seq(Msg) /\ In(<<m>>) = {m}
  BY <1>4, OneMessage
<1>6. /\ net' \in [End -> Seq(Msg)] /\ net'[Other(e)] = net[Other(e)] \o <<m>>
      /\ In(net'[Other(e)]) = In(net[Other(e)]) \cup {m}
      /\ \A d \in End : d # Other(e) => net'[d] = net[d]
  BY <1>1, <1>2, <1>5, Carrying
<1>7. /\ rx' \in [End -> Seq(Msg)] /\ rx'[e] = Tail(rx[e])
      /\ \A d \in End : d # e => rx'[d] = rx[d]
  BY <1>2, <1>3, <1>4
<1>8. \A d \in End : In(rx'[d]) \subseteq In(rx[d]) /\ In(net[d]) \subseteq In(net'[d])
  BY <1>4, <1>6, <1>7
<1>9. Shape'
  BY <1>1, <1>2, <1>6, <1>7 DEF Shape
<1>10. Connected'
  BY <1>1, <1>2, <1>7 DEF Connected
<1>11. m.t # "step1" /\ (m.t # "awareness" => m.states = NoStates)
  BY <1>1, <1>4 DEF Kinds
<1>12. Kinds'
  <2>1. ASSUME NEW d \in End, NEW x \in In(net'[d])
        PROVE  /\ x.t = "step1" => x.ops \subseteq doc[NodeOf(Other(d))]
               /\ x.t # "awareness" => x.states = NoStates
    <3>1. x \in In(net[d]) \/ x = m
      BY <1>6
    <3>2. QED BY <3>1, <1>1, <1>11 DEF Kinds
  <2>2. QED BY <2>1, <1>1, <1>2, <1>8 DEF Kinds
<1>13. Announced'
  BY <1>1, <1>2 DEF Announced
<1>14. Asked'
  BY <1>1, <1>2, <1>8 DEF Asked
<1>15. Sent'
  <2> SUFFICES ASSUME NEW d \in answered, d[1] \notin missed
               PROVE  published[NodeOf(d)] \subseteq doc[NodeOf(Other(d))]
                        \cup (Contents(net'[Other(d)]) \cup Contents(replies[d]) \cup Contents(rx'[d]))
    BY <1>2 DEF Sent, Way
  <2>1. d \in End
    BY <1>1 DEF Shape
  <2>2. published[NodeOf(d)] \subseteq doc[NodeOf(Other(d))]
          \cup (Contents(net[Other(d)]) \cup Contents(replies[d]) \cup Contents(rx[d]))
    BY <1>1 DEF Sent, Way
  <2>3. CASE d = e
    <3>1. Contents(net'[Other(e)]) = Contents(net[Other(e)]) \cup Contents(<<m>>)
      <4>1. In(net'[Other(e)]) = In(net[Other(e)]) \cup In(<<m>>)
        BY <1>5, <1>6
      <4>2. QED BY <4>1, ContentsOf
    <3>2. Contents(rx[e]) = Contents(rx'[e]) \cup Contents(<<m>>)
      <4>1. In(rx[e]) = In(rx'[e]) \cup In(<<m>>)
        BY <1>4, <1>5, <1>7
      <4>2. QED BY <4>1, ContentsOf
    <3>3. QED BY <3>1, <3>2, <2>2, <2>3
  <2>4. CASE d # e
    <3>1. Other(d) # Other(e) /\ Other(d) \in End
      BY <2>1, <2>4, EndFacts
    <3>2. net'[Other(d)] = net[Other(d)] /\ rx'[d] = rx[d]
      BY <3>1, <2>1, <2>4, <1>6, <1>7
    <3>3. QED BY <3>2, <2>2
  <2>5. QED BY <2>3, <2>4
<1>16. Older'
  <2>1. ASSUME NEW c \in Client, NEW p \in Peer, NEW d \in EndsOfConn(c),
               NEW x \in In(net'[d]) \cup In(rx'[d])
        PROVE  Behind(x.states[p], states[Nearer(c, p)][p])
    <3>1. d \in End /\ d[1] = c
      BY ConnEnds
    <3>2. CASE x \in In(net[d]) \cup In(rx[d])
      BY <3>2, <1>1 DEF Older
    <3>3. CASE d = Other(e) /\ x = m
      <4>1. e \in EndsOfConn(c)
        BY <3>1, <3>3, EndFacts, ConnEnds
      <4>2. QED BY <4>1, <3>3, <1>1, <1>4 DEF Older
    <3>4. QED BY <3>1, <3>2, <3>3, <1>6, <1>8
  <2>2. QED BY <2>1, <1>1, <1>2 DEF Older, Nearer, Farther
<1>17. Told'
  <2> SUFFICES ASSUME NEW d \in End, NEW p \in Peer,
                      NodeOf(d) = Nearer(d[1], p), stage[d] = "open", d[1] \notin missed
               PROVE  Coming(states[Farther(d[1], p)][p], states[Nearer(d[1], p)][p],
                             net'[Other(d)], rx'[d], p)
    BY <1>2 DEF Told, Nearer, Farther
  <2>1. Coming(states[Farther(d[1], p)][p], states[Nearer(d[1], p)][p],
               net[Other(d)], rx[d], p)
    BY <1>1 DEF Told
  <2>2. CASE d = e
    BY <2>1, <2>2, <1>2, <1>3, <1>6, <1>7, ComingForward
  <2>3. CASE d # e
    <3>1. net'[Other(d)] = net[Other(d)] /\ rx'[d] = rx[d]
      BY <2>3, <1>6, <1>7, EndFacts
    <3>2. QED BY <3>1, <2>1
  <2>4. QED BY <2>2, <2>3
<1>18. QED BY <1>9, <1>10, <1>12, <1>13, <1>14, <1>15, <1>16, <1>17 DEF SessionInv

-----------------------------------------------------------------------------
(* apply_change.                                                           *)

LEMMA SendRepliesKeeps ==
  ASSUME SessionInv, NEW e \in End, SendReplies(e)
  PROVE  SessionInv'
PROOF
<1>1. Shape /\ Connected /\ Kinds /\ Announced /\ Asked /\ Sent /\ Older /\ Told
  BY DEF SessionInv
<1>2. /\ UNCHANGED <<doc, published, observed, states, stage, answered, rx, missed, clock>>
      /\ replies' = [replies EXCEPT ![e] = <<>>]
      /\ Carry(e, replies[e])
  BY DEF SendReplies, docs, bounds
<1>3. Other(e) \in End /\ Other(Other(e)) = e
      /\ net \in [End -> Seq(Msg)] /\ rx \in [End -> Seq(Msg)] /\ replies \in [End -> Seq(Msg)]
      /\ <<>> \in Seq(Msg)
  BY <1>1, EndFacts DEF Shape
<1>4. /\ net' \in [End -> Seq(Msg)] /\ net'[Other(e)] = net[Other(e)] \o replies[e]
      /\ In(net'[Other(e)]) = In(net[Other(e)]) \cup In(replies[e])
      /\ \A d \in End : d # Other(e) => net'[d] = net[d]
  BY <1>1, <1>2, <1>3, Carrying
<1>5. /\ replies' \in [End -> Seq(Msg)] /\ replies'[e] = <<>>
      /\ \A d \in End : d # e => replies'[d] = replies[d]
  BY <1>2, <1>3
<1>6. \A d \in End : In(net[d]) \subseteq In(net'[d]) /\ In(replies'[d]) \subseteq In(replies[d])
  BY <1>4, <1>5, InEmpty
<1>7. Shape'
  BY <1>1, <1>2, <1>4, <1>5 DEF Shape
<1>8. Connected' /\ Announced'
  BY <1>1, <1>2 DEF Connected, Announced
<1>9. \A x \in In(replies[e]) : x.t \in {"step2", "update"} /\ x.states = NoStates
  BY <1>1 DEF Kinds
<1>10. Kinds'
  <2>1. ASSUME NEW d \in End, NEW x \in In(net'[d])
        PROVE  /\ x.t = "step1" => x.ops \subseteq doc[NodeOf(Other(d))]
               /\ x.t # "awareness" => x.states = NoStates
    <3>1. x \in In(net[d]) \/ x \in In(replies[e])
      BY <1>4
    <3>2. QED BY <3>1, <1>1, <1>9 DEF Kinds
  <2>2. QED BY <2>1, <1>1, <1>2, <1>6 DEF Kinds
<1>11. Asked'
  BY <1>1, <1>2, <1>6 DEF Asked
<1>12. Sent'
  <2> SUFFICES ASSUME NEW d \in answered, d[1] \notin missed
               PROVE  published[NodeOf(d)] \subseteq doc[NodeOf(Other(d))]
                        \cup (Contents(net'[Other(d)]) \cup Contents(replies'[d]) \cup Contents(rx[d]))
    BY <1>2 DEF Sent, Way
  <2>1. d \in End
    BY <1>1 DEF Shape
  <2>2. published[NodeOf(d)] \subseteq doc[NodeOf(Other(d))]
          \cup (Contents(net[Other(d)]) \cup Contents(replies[d]) \cup Contents(rx[d]))
    BY <1>1 DEF Sent, Way
  <2>3. CASE d = e
    <3>1. Contents(net'[Other(e)]) = Contents(net[Other(e)]) \cup Contents(replies[e])
      BY <1>4, ContentsOf
    <3>2. QED BY <3>1, <2>2, <2>3
  <2>4. CASE d # e
    <3>1. Other(d) # Other(e) /\ Other(d) \in End
      BY <2>1, <2>4, EndFacts
    <3>2. net'[Other(d)] = net[Other(d)] /\ replies'[d] = replies[d]
      BY <3>1, <2>1, <2>4, <1>4, <1>5
    <3>3. QED BY <3>2, <2>2
  <2>5. QED BY <2>3, <2>4
<1>13. Older'
  <2>1. ASSUME NEW c \in Client, NEW p \in Peer, NEW d \in EndsOfConn(c),
               NEW x \in In(net'[d]) \cup In(rx[d])
        PROVE  Behind(x.states[p], states[Nearer(c, p)][p])
    <3>1. d \in End
      BY ConnEnds
    <3>2. CASE x \in In(net[d]) \cup In(rx[d])
      BY <3>2, <1>1 DEF Older
    <3>3. CASE x \in In(replies[e])
      <4>1. states[Nearer(c, p)][p] \in Known
        BY <1>1, Sides DEF Shape
      <4>2. x.states[p] = Absent
        BY <3>3, <1>9, AbsentKnown
      <4>3. QED BY <4>1, <4>2, AbsentKnown
    <3>4. QED BY <3>1, <3>2, <3>3, <1>4
  <2>2. QED BY <2>1, <1>1, <1>2 DEF Older, Nearer, Farther
<1>14. Told'
  <2> SUFFICES ASSUME NEW d \in End, NEW p \in Peer,
                      NodeOf(d) = Nearer(d[1], p), stage[d] = "open", d[1] \notin missed
               PROVE  Coming(states[Farther(d[1], p)][p], states[Nearer(d[1], p)][p],
                             net'[Other(d)], rx[d], p)
    BY <1>2 DEF Told, Nearer, Farther
  <2>1. Coming(states[Farther(d[1], p)][p], states[Nearer(d[1], p)][p],
               net[Other(d)], rx[d], p)
    BY <1>1 DEF Told
  <2>2. CASE d = e
    <3>1. Calm(replies[e], states[Nearer(d[1], p)][p], p)
      BY <1>9, AbsentKnown DEF Calm
    <3>2. QED BY <3>1, <2>1, <2>2, <1>3, <1>4, ComingMore
  <2>3. CASE d # e
    <3>1. net'[Other(d)] = net[Other(d)]
      BY <2>3, <1>4, EndFacts
    <3>2. QED BY <3>1, <2>1
  <2>4. QED BY <2>2, <2>3
<1>15. QED BY <1>7, <1>8, <1>10, <1>11, <1>12, <1>13, <1>14 DEF SessionInv

LEMMA Replies ==
  ASSUME Shape, NEW n \in Node, NEW m \in Msg
  PROVE  /\ Reply(n, m) \in Seq(Msg)
         /\ \A x \in In(Reply(n, m)) : x.t \in {"step2", "update"} /\ x.states = NoStates
         /\ m.t = "step1" => Integrated(doc[n]) \subseteq m.ops \cup Contents(Reply(n, m))
PROOF
<1>1. doc[n] \in SUBSET Op /\ m.ops \in SUBSET Op
  BY DEF Shape, Msg
<1>2. \A a, sv : Integrated(a) \subseteq sv \cup EncodeStateAsUpdate(a, sv)
                 /\ EncodeStateAsUpdate(a, sv) \subseteq a
  BY IntegratedOf DEF EncodeStateAsUpdate, Pending
<1>3. ASSUME NEW ops \in SUBSET Op
      PROVE  /\ <<Step2(ops)>> \in Seq(Msg) /\ In(<<Step2(ops)>>) = {Step2(ops)}
             /\ <<Update(ops)>> \in Seq(Msg) /\ In(<<Update(ops)>>) = {Update(ops)}
             /\ ops \subseteq Contents(<<Step2(ops)>>)
  <2>1. Step2(ops) \in Msg /\ Update(ops) \in Msg
    BY MessagesOf
  <2>2. Step2(ops).t = "step2" /\ Step2(ops).ops = ops
    BY DEF Step2
  <2>3. /\ <<Step2(ops)>> \in Seq(Msg) /\ In(<<Step2(ops)>>) = {Step2(ops)}
        /\ <<Update(ops)>> \in Seq(Msg) /\ In(<<Update(ops)>>) = {Update(ops)}
    BY <2>1, OneMessage
  <2>4. Step2(ops).ops \subseteq Contents(<<Step2(ops)>>)
    BY <2>2, <2>3, ContentsOf
  <2>5. QED BY <2>2, <2>3, <2>4
<1>4. CASE m.t = "step1"
  <2> DEFINE ops == EncodeStateAsUpdate(doc[n], m.ops)
  <2>1. Reply(n, m) = <<Step2(ops)>>
    BY <1>4 DEF Reply
  <2>2. ops \in SUBSET Op /\ Integrated(doc[n]) \subseteq m.ops \cup ops
    BY <1>1, <1>2
  <2> HIDE DEF ops
  <2>3. Step2(ops).t = "step2" /\ Step2(ops).states = NoStates
    BY DEF Step2
  <2>4. QED BY <2>1, <2>2, <2>3, <1>3
<1>5. CASE m.t = "update"
  <2> DEFINE ops == EncodeStateAsUpdate(doc[n] \cup m.ops, Integrated(doc[n]))
  <2>1. Reply(n, m) = <<>> \/ Reply(n, m) = <<Update(ops)>>
    BY <1>5 DEF Reply
  <2>2. ops \in SUBSET Op
    BY <1>1, <1>2
  <2> HIDE DEF ops
  <2>3. Update(ops).t = "update" /\ Update(ops).states = NoStates
    BY DEF Update
  <2>4. <<>> \in Seq(Msg)
    OBVIOUS
  <2>5. QED BY <2>1, <2>2, <2>3, <2>4, <1>3, <1>5, InEmpty
<1>6. CASE m.t \notin {"step1", "update"}
  <2>1. Reply(n, m) = <<>>
    BY <1>6 DEF Reply
  <2>2. <<>> \in Seq(Msg)
    OBVIOUS
  <2>3. QED BY <2>1, <2>2, <1>6, InEmpty
<1>7. QED BY <1>4, <1>5, <1>6

LEMMA BehindBehind ==
  ASSUME NEW x \in Known, NEW y \in Known, NEW z \in Known, Behind(x, y), Behind(y, z)
  PROVE  Behind(x, z)
PROOF
<1>1. x.clock \in Nat /\ y.clock \in Nat /\ z.clock \in Nat
  BY DEF Known
<1>2. QED BY <1>1 DEF Behind

\* What arrives at a node is behind what every nearer node knows, and brings
\* it nothing where it comes from the far side.
LEMMA ArrivesBehind ==
  ASSUME SessionInv, NEW e \in End, NEW m \in In(net[e]), NEW c \in Client, NEW p \in Peer,
         NodeOf(e) = Farther(c, p)
  PROVE  /\ Behind(m.states[p], states[Nearer(c, p)][p])
         /\ e[1] # c => Behind(m.states[p], states[NodeOf(e)][p])
PROOF
<1>1. Shape /\ Older
  BY DEF SessionInv
<1>2. m \in Msg
  BY <1>1 DEF Shape, In
<1>3. m.states[p] \in Known
  BY <1>2 DEF Msg
<1>4. e[1] \in Client /\ e \in EndsOfConn(e[1])
  BY EndFacts
<1>5. Behind(m.states[p], states[Nearer(e[1], p)][p])
  BY <1>1, <1>4 DEF Older
<1>6. CASE e[1] = c
  BY <1>5, <1>6
<1>7. CASE e[1] # c
  <2>1. NodeOf(e) = Server
    BY <1>7, EndFacts, Sides
  <2>2. Home[p] = c
    BY <2>1, SessionAssumption DEF Farther
  <2>3. Nearer(e[1], p) = Server /\ Nearer(c, p) = c /\ Farther(c, p) = Server
    BY <2>2, <1>7 DEF Nearer, Farther
  <2>4. Behind(states[Server][p], states[c][p])
    BY <2>3, <1>1 DEF Older
  <2>5. states[Server][p] \in Known /\ states[c][p] \in Known
    BY <1>1 DEF Shape, Node
  <2>6. QED BY <2>1, <2>3, <2>4, <2>5, <1>3, <1>5, BehindBehind
<1>8. QED BY <1>6, <1>7

LEMMA ApplyKeeps ==
  ASSUME SessionInv, NEW e \in End, Apply(e)
  PROVE  SessionInv'
PROOF
<1> DEFINE n == NodeOf(e)
           m == Head(net[e])
<1>1. Shape /\ Connected /\ Kinds /\ Announced /\ Asked /\ Sent /\ Older /\ Told
  BY DEF SessionInv
<1>2. /\ UNCHANGED <<published, observed, stage, clock>>
      /\ net[e] # <<>> /\ net' = [net EXCEPT ![e] = Tail(@)]
      /\ doc' = IF m.t \in {"step2", "update"} THEN [doc EXCEPT ![n] = @ \cup m.ops] ELSE doc
      /\ answered' = IF m.t = "step1" /\ stage[e] # "off" THEN answered \cup {e} ELSE answered
      /\ replies' = IF stage[e] = "off" THEN replies
                    ELSE [replies EXCEPT ![e] = @ \o Reply(n, m)]
      /\ IF m.t = "awareness" THEN ApplyAwareness(n, m.states)
         ELSE UNCHANGED <<states, rx, missed>>
  BY DEF Apply, bounds
<1>3. n \in Node /\ Other(e) \in End /\ Other(Other(e)) = e /\ Other(e)[1] = e[1]
      /\ net \in [End -> Seq(Msg)] /\ rx \in [End -> Seq(Msg)] /\ replies \in [End -> Seq(Msg)]
      /\ doc \in [Node -> SUBSET Op] /\ states \in [Node -> [Peer -> Known]]
      /\ answered \subseteq End
  BY <1>1, EndFacts DEF Shape
<1>4. m \in Msg /\ Tail(net[e]) \in Seq(Msg) /\ In(net[e]) = In(Tail(net[e])) \cup {m}
  BY <1>2, <1>3, InTail
<1>5. m.ops \in SUBSET Op /\ m.states \in [Peer -> Known] /\ m \in In(net[e])
  BY <1>4 DEF Msg
<1>6. /\ net' \in [End -> Seq(Msg)] /\ net'[e] = Tail(net[e])
      /\ \A d \in End : d # e => net'[d] = net[d]
      /\ \A d \in End : In(net'[d]) \subseteq In(net[d])
  BY <1>2, <1>3, <1>4
<1> HIDE DEF n, m
<1>7. /\ doc' \in [Node -> SUBSET Op] /\ \A k \in Node : doc[k] \subseteq doc'[k]
      /\ m.t \in {"step2", "update"} => m.ops \subseteq doc'[n]
  BY <1>2, <1>3, <1>5
<1>8. /\ replies' \in [End -> Seq(Msg)]
      /\ \A d \in End : d # e => replies'[d] = replies[d]
      /\ \/ replies'[e] = replies[e]
         \/ replies'[e] = replies[e] \o Reply(n, m)
      /\ stage[e] # "off" => replies'[e] = replies[e] \o Reply(n, m)
  <2>1. Reply(n, m) \in Seq(Msg)
    BY <1>1, <1>3, <1>4, Replies
  <2>2. replies[e] \o Reply(n, m) \in Seq(Msg)
    BY <2>1, <1>3, InConcat
  <2>3. QED BY <2>2, <1>2, <1>3
<1>9. /\ In(replies[e] \o Reply(n, m)) = In(replies[e]) \cup In(Reply(n, m))
      /\ \A x \in In(Reply(n, m)) : x.t \in {"step2", "update"} /\ x.states = NoStates
      /\ m.t = "step1" => Integrated(doc[n]) \subseteq m.ops \cup Contents(Reply(n, m))
  BY <1>1, <1>3, <1>4, Replies, InConcat
<1>10. /\ Heard(n, m.states) /\ Note(n) \in Msg
       /\ \A p \in Peer : Note(n).states[p] = IF states'[n][p] = states[n][p] THEN Absent
                                               ELSE states'[n][p]
       /\ \/ Spread(n, Note(n))
          \/ rx' = rx /\ missed' = missed /\ (states'[n] = states[n] \/ n \notin observed)
  <2>1. CASE m.t = "awareness"
    <3>1. ApplyAwareness(n, m.states)
      BY <2>1, <1>2
    <3>2. QED BY <3>1, <1>1, <1>3, <1>5, Hearing
  <2>2. CASE m.t # "awareness"
    <3>1. states' = states /\ rx' = rx /\ missed' = missed
      BY <2>2, <1>2
    <3>2. m.states = NoStates
      BY <2>2, <1>1, <1>5 DEF Kinds
    <3>3. \A p \in Peer : ApplyState(states[n][p], m.states[p]) = states[n][p]
      BY <3>2, <1>3, AbsentKnown, Applied
    <3>4. Heard(n, m.states)
      BY <3>1, <3>3, <1>3 DEF Heard
    <3>5. /\ Changed(states[n], states'[n]) \in [Peer -> Known]
          /\ \A p \in Peer : Changed(states[n], states'[n])[p] = Absent
      BY <3>1, AbsentKnown DEF Changed
    <3>6. Note(n) \in Msg /\ Note(n).states = Changed(states[n], states'[n])
      BY <3>5, MessagesOf DEF Note, Presence
    <3>7. QED BY <3>1, <3>4, <3>5, <3>6
  <2>3. QED BY <2>1, <2>2
<1>11. /\ rx' \in [End -> Seq(Msg)] /\ missed \subseteq missed' /\ missed' \subseteq Client
       /\ \A d \in End :
            /\ stage[d] # "open" => rx'[d] = rx[d]
            /\ \/ In(rx'[d]) \subseteq In(rx[d])
               \/ NodeOf(d) = n /\ In(rx'[d]) \subseteq In(rx[d]) \cup {Note(n)}
            /\ stage[d] = "open" /\ d[1] \notin missed' =>
                 \/ NodeOf(d) = n /\ rx'[d] = Append(rx[d], Note(n))
                 \/ NodeOf(d) = n /\ rx'[d] = rx[d] /\ states'[n] = states[n]
                 \/ NodeOf(d) # n /\ rx'[d] = rx[d]
            /\ d \in answered /\ d[1] \notin missed' => In(rx[d]) \subseteq In(rx'[d])
  BY <1>1, <1>3, <1>10, HeardQueues
<1>12. Note(n).t = "awareness"
  BY DEF Note, Presence
<1>13. answered \subseteq answered' /\ answered' \subseteq answered \cup {e}
  BY <1>2
<1>14. Shape'
  <2>1. states' \in [Node -> [Peer -> Known]]
    BY <1>10 DEF Heard
  <2>2. QED BY <2>1, <1>1, <1>2, <1>3, <1>6, <1>7, <1>8, <1>11, <1>13 DEF Shape
<1>15. Connected'
  BY <1>1, <1>2, <1>11 DEF Connected
<1>16. Kinds'
  <2>1. \A d \in End : \A x \in In(net'[d]) :
          /\ x.t = "step1" => x.ops \subseteq doc'[NodeOf(Other(d))]
          /\ x.t # "awareness" => x.states = NoStates
    BY <1>1, <1>6, <1>7, EndFacts DEF Kinds
  <2>2. \A d \in End : \A x \in In(replies'[d]) : x.t \in {"step2", "update"} /\ x.states = NoStates
    BY <1>1, <1>8, <1>9 DEF Kinds
  <2>3. \A d \in End : \A x \in In(rx'[d]) : x \in In(rx[d]) \/ x = Note(n)
    BY <1>11
  <2>4. \A d \in End : \A x \in In(rx'[d]) : x.t # "step1" /\ (x.t # "awareness" => x.states = NoStates)
    BY <2>3, <1>1, <1>12 DEF Kinds
  <2>5. QED BY <2>1, <2>2, <2>4 DEF Kinds
<1>17. Announced'
  <2>1. \A k \in Node : Integrated(doc[k]) \subseteq Integrated(doc'[k])
    BY <1>7, IntegratedOf
  <2>2. QED BY <2>1, <1>1, <1>2 DEF Announced
<1>18. Asked'
  <2> SUFFICES ASSUME NEW d \in End, stage[Other(d)] = "open", d[1] \notin missed'
               PROVE  d \in answered' \/ \E x \in In(net'[d]) : x.t = "step1"
    BY <1>2 DEF Asked
  <2>1. d \in answered \/ \E x \in In(net[d]) : x.t = "step1"
    BY <1>1, <1>11 DEF Asked
  <2>2. CASE d = e /\ m.t = "step1"
    <3>1. stage[Other(e)] \in Up
      BY <2>2 DEF Up
    <3>2. stage[e] \in Up
      BY <3>1, <1>1, <1>3 DEF Connected
    <3>3. QED BY <3>2, <2>2, <1>2 DEF Up
  <2>3. CASE ~(d = e /\ m.t = "step1")
    BY <2>1, <2>3, <1>4, <1>6, <1>13
  <2>4. QED BY <2>2, <2>3
<1>19. Sent'
  <2> SUFFICES ASSUME NEW d \in answered', d[1] \notin missed'
               PROVE  published[NodeOf(d)] \subseteq doc'[NodeOf(Other(d))]
                        \cup (Contents(net'[Other(d)]) \cup Contents(replies'[d]) \cup Contents(rx'[d]))
    BY <1>2 DEF Sent, Way
  <2>1. d \in End /\ d[1] \notin missed /\ NodeOf(Other(d)) \in Node /\ Other(d) \in End
        /\ doc[NodeOf(Other(d))] \subseteq doc'[NodeOf(Other(d))]
    BY <1>3, <1>7, <1>11, <1>13, EndFacts
  <2>2. CASE d \in answered
    <3>1. published[NodeOf(d)] \subseteq doc[NodeOf(Other(d))]
            \cup (Contents(net[Other(d)]) \cup Contents(replies[d]) \cup Contents(rx[d]))
      BY <2>1, <2>2, <1>1 DEF Sent, Way
    <3>2. Contents(rx[d]) \subseteq Contents(rx'[d])
      BY <2>1, <2>2, <1>11, ContentsOf
    <3>3. Contents(replies[d]) \subseteq Contents(replies'[d])
      <4>1. In(replies[d]) \subseteq In(replies'[d])
        BY <2>1, <1>8, <1>9
      <4>2. QED BY <4>1, ContentsOf
    <3>4. Contents(net[Other(d)]) \subseteq Contents(net'[Other(d)]) \cup doc'[NodeOf(Other(d))]
      <4>1. CASE Other(d) = e
        <5>1. \A x \in Contents(net[e]) : \/ x \in Contents(Tail(net[e]))
                                          \/ m.t \in {"step2", "update"} /\ x \in m.ops
          BY <1>4 DEF Contents
        <5>2. QED BY <5>1, <4>1, <1>6, <1>7 DEF n
      <4>2. CASE Other(d) # e
        BY <4>2, <2>1, <1>6
      <4>3. QED BY <4>1, <4>2
    <3>5. QED BY <3>1, <3>2, <3>3, <3>4, <2>1
  <2>3. CASE d \notin answered
    <3>1. d = e /\ m.t = "step1" /\ stage[e] # "off"
      BY <2>3, <1>2
    <3>2. replies'[e] = replies[e] \o Reply(n, m)
      BY <3>1, <1>8
    <3>3. Contents(Reply(n, m)) \subseteq Contents(replies'[e])
      <4>1. In(Reply(n, m)) \subseteq In(replies'[e])
        BY <3>2, <1>9
      <4>2. QED BY <4>1, ContentsOf
    <3>4. published[n] \subseteq m.ops \cup Contents(Reply(n, m))
      BY <3>1, <1>1, <1>3, <1>9 DEF Announced
    <3>5. m.ops \subseteq doc[NodeOf(Other(e))]
      BY <3>1, <1>1, <1>5 DEF Kinds
    <3>6. QED BY <3>1, <3>3, <3>4, <3>5, <2>1 DEF n
  <2>4. QED BY <2>2, <2>3
<1>20. Older'
  <2>1. \A c \in Client, p \in Peer : n = Farther(c, p) => Behind(m.states[p], states[Nearer(c, p)][p])
    BY <1>5, ArrivesBehind DEF n
  <2>2. QED BY <2>1, <1>3, <1>5, <1>6, <1>10, <1>11, HearOlder
<1>21. Told'
  <2> SUFFICES ASSUME NEW d \in End, NEW p \in Peer,
                      NodeOf(d) = Nearer(d[1], p), stage[d] = "open", d[1] \notin missed'
               PROVE  Coming(states'[Farther(d[1], p)][p], states'[Nearer(d[1], p)][p],
                             net'[Other(d)], rx'[d], p)
    BY <1>2 DEF Told, Nearer, Farther
  <2>1. d[1] \in Client /\ Other(d) \in End /\ d[1] \notin missed
        /\ NodeOf(Other(d)) = Farther(d[1], p)
    <3>1. /\ d[1] \in Client /\ Other(d) \in End /\ NodeOf(Other(d)) # NodeOf(d)
          /\ {NodeOf(d), NodeOf(Other(d))} = {d[1], Server}
      BY EndFacts
    <3>2. {Nearer(d[1], p), Farther(d[1], p)} = {d[1], Server}
      BY <3>1, Sides
    <3>3. QED BY <3>1, <3>2, <1>11
  <2>2. \/ NodeOf(d) = n /\ rx'[d] = Append(rx[d], Note(n))
        \/ NodeOf(d) = n /\ rx'[d] = rx[d] /\ states'[n] = states[n]
        \/ NodeOf(d) # n /\ rx'[d] = rx[d]
    BY <1>11
  <2>3. CASE Other(d) = e
    <3>1. /\ net[Other(d)] # <<>> /\ net'[Other(d)] = Tail(net[Other(d)])
          /\ Farther(d[1], p) = n /\ m.states[p] = Head(net[Other(d)]).states[p]
      BY <2>1, <2>3, <1>2, <1>6 DEF n, m
    <3>2. QED BY <3>1, <2>1, <2>2, <1>3, <1>5, <1>10, HearTold
  <2>4. CASE Other(d) # e
    <3>1. net'[Other(d)] = net[Other(d)]
      BY <2>1, <2>4, <1>6
    <3>2. ASSUME Farther(d[1], p) = n PROVE ApplyState(states[n][p], m.states[p]) = states[n][p]
      <4>1. NodeOf(e) = NodeOf(Other(d)) /\ e # Other(d)
        BY <3>2, <2>1, <2>4 DEF n
      <4>2. e[1] # d[1]
        <5>1. SUFFICES ASSUME e[1] = d[1] PROVE FALSE
          OBVIOUS
        <5>2. e \in {d, Other(d)}
          BY <5>1, EndFacts
        <5>3. QED BY <5>2, <4>1, EndFacts
      <4>3. Behind(m.states[p], states[NodeOf(e)][p])
        BY <4>2, <3>2, <2>1, <1>5, ArrivesBehind DEF n
      <4>4. m.states[p] \in Known /\ states[n][p] \in Known
        BY <1>3, <1>5
      <4>5. QED BY <4>3, <4>4, Applied DEF n
    <3>3. QED BY <3>1, <3>2, <2>1, <2>2, <1>3, <1>5, <1>10, HearTold
  <2>5. QED BY <2>3, <2>4
<1>22. QED BY <1>14, <1>15, <1>16, <1>17, <1>18, <1>19, <1>20, <1>21 DEF SessionInv

-----------------------------------------------------------------------------
(* The theorems.                                                           *)

LEMMA StutterKeeps ==
  ASSUME SessionInv, UNCHANGED vars
  PROVE  SessionInv'
PROOF
<1>1. UNCHANGED <<doc, published, observed, states, stage, answered, replies, rx, net, missed, clock>>
  BY DEF vars, docs, handlers, bounds
<1>2. QED BY <1>1 DEF SessionInv, Shape, Connected, Kinds, Announced, Asked, Sent, Way, Older, Told,
                      Nearer, Farther

LEMMA NextInv == SessionInv /\ [Next]_vars => SessionInv'
PROOF
<1> SUFFICES ASSUME SessionInv, [Next]_vars PROVE SessionInv'
  OBVIOUS
<1>1. CASE UNCHANGED vars
  BY <1>1, StutterKeeps
<1>2. CASE \E n \in Node : Publish(n)
  BY <1>2, PublishKeeps
<1>3. CASE \E o \in Op : Edit(o)
  BY <1>3, EditKeeps
<1>4. CASE \E p \in Peer, k \in Clock, on \in BOOLEAN : Announce(p, k, on)
  BY <1>4, AnnounceKeeps
<1>5. CASE \E c \in Client : ClientLoop(c) \/ PostFails(c) \/ SendError(c)
  BY <1>5, StartKeeps, ConnectKeeps, PostFailsKeeps, SendErrorKeeps DEF ClientLoop
<1>6. CASE \E c \in Client : \E k \in 0..Len(net[<<c, "client">>]),
                                l \in 0..Len(net[<<c, "server">>]) : Drop(c, k, l)
  BY <1>6, DropKeeps
<1>7. CASE \E e \in End : Handler(e)
  BY <1>7, SubscribeKeeps, JoinAndInitKeeps, ForwardKeeps DEF Handler
<1>8. CASE \E e \in End : ApplyChange(e)
  BY <1>8, ApplyKeeps, SendRepliesKeeps DEF ApplyChange
<1>9. QED BY <1>1, <1>2, <1>3, <1>4, <1>5, <1>6, <1>7, <1>8 DEF Next

LEMMA InvHolds == Spec => []SessionInv
PROOF BY InitInv, NextInv, PTL DEF Spec

\* Once a connection has nothing left to carry and has lost nothing, both copies
\* hold the same operations and the same peers are present in both, whatever
\* broke before (the init message, Step1 and Step2, and the broadcast channel).
THEOREM NothingToCarryIsInSync == Spec => []InSync
PROOF
<1>1. SessionInv => InSync
  <2> SUFFICES ASSUME SessionInv, NEW c \in Client, Settled(c), c \notin missed
               PROVE  /\ Integrated(doc[c]) = Integrated(doc[Server])
                      /\ \A p \in Peer : states[c][p].on = states[Server][p].on
    BY DEF InSync
  <2>1. Shape /\ Asked /\ Sent /\ Told
    BY DEF SessionInv
  <2>2. \A e \in EndsOfConn(c) :
          /\ e \in End /\ e[1] = c /\ Other(e) \in EndsOfConn(c)
          /\ stage[e] = "open" /\ net[e] = <<>> /\ replies[e] = <<>> /\ rx[e] = <<>>
          /\ published[NodeOf(e)] = Integrated(doc[NodeOf(e)])
    BY ConnEnds, EndFacts DEF Settled
  <2>3. ASSUME NEW e \in EndsOfConn(c)
        PROVE  Integrated(doc[NodeOf(e)]) \subseteq Integrated(doc[NodeOf(Other(e))])
    <3>1. e \in End /\ Other(e) \in End /\ Other(Other(e)) = e /\ stage[Other(e)] = "open"
      BY <2>2, EndFacts
    <3>2. e \in answered
      BY <3>1, <2>1, <2>2, InEmpty DEF Asked
    <3>3. published[NodeOf(e)] \subseteq doc[NodeOf(Other(e))]
            \cup (Contents(net[Other(e)]) \cup Contents(replies[e]) \cup Contents(rx[e]))
      BY <3>2, <2>1, <2>2 DEF Sent, Way
    <3>4. Contents(net[Other(e)]) = {} /\ Contents(replies[e]) = {} /\ Contents(rx[e]) = {}
      BY <3>1, <2>2, InEmpty
    <3>5. Integrated(doc[NodeOf(e)]) \subseteq doc[NodeOf(Other(e))]
      BY <3>3, <3>4, <2>2
    <3>6. doc[NodeOf(e)] \in SUBSET Op
      BY <3>1, <2>1, EndFacts DEF Shape
    <3>7. QED BY <3>5, <3>6, IntegratedWithin
  <2>4. /\ <<c, "client">> \in EndsOfConn(c) /\ <<c, "server">> \in EndsOfConn(c)
        /\ NodeOf(<<c, "client">>) = c /\ NodeOf(<<c, "server">>) = Server
        /\ Other(<<c, "client">>) = <<c, "server">> /\ Other(<<c, "server">>) = <<c, "client">>
    BY DEF EndsOfConn, NodeOf, Other
  <2>5. Integrated(doc[c]) = Integrated(doc[Server])
    <3>1. Integrated(doc[c]) \subseteq Integrated(doc[Server])
      BY <2>3, <2>4
    <3>2. Integrated(doc[Server]) \subseteq Integrated(doc[c])
      BY <2>3, <2>4
    <3>3. QED BY <3>1, <3>2
  <2>6. ASSUME NEW p \in Peer PROVE states[c][p].on = states[Server][p].on
    <3>1. PICK e \in EndsOfConn(c) : NodeOf(e) = Nearer(c, p)
      BY <2>4 DEF Nearer
    <3>2. Coming(states[Farther(c, p)][p], states[Nearer(c, p)][p], net[Other(e)], rx[e], p)
      BY <3>1, <2>1, <2>2 DEF Told
    <3>3. states[Farther(c, p)][p].on = states[Nearer(c, p)][p].on
      BY <3>1, <3>2, <2>2, InEmpty DEF Coming
    <3>4. QED BY <3>3 DEF Nearer, Farther
  <2>7. QED BY <2>5, <2>6
<1>2. QED BY <1>1, InvHolds, PTL

\* A late, repeated or looped-back state of a peer never replaces a newer one at
\* any node (the clock test in Awareness::apply_update).
THEOREM ClocksOnlyGrow == Spec => NeverOlder
PROOF
<1>1. SessionInv /\ [Next]_vars =>
        [\A n \in Node, p \in Peer : states'[n][p].clock >= states[n][p].clock]_states
  <2> SUFFICES ASSUME SessionInv, [Next]_vars, states' # states,
                      NEW n \in Node, NEW p \in Peer
               PROVE  states'[n][p].clock >= states[n][p].clock
    OBVIOUS
  <2>1. Shape
    BY DEF SessionInv
  <2>2. SUFFICES \E k \in Node, update \in [Peer -> Known] : Heard(k, update)
    <3>1. PICK k \in Node, update \in [Peer -> Known] : Heard(k, update)
      BY <2>2
    <3>2. states[n][p] \in Known /\ update[p] \in Known
      BY <2>1 DEF Shape
    <3>3. CASE n = k
      BY <3>1, <3>2, <3>3, Applied DEF Heard
    <3>4. CASE n # k
      <4>1. states'[n] = states[n] /\ states[n][p].clock \in Nat
        BY <3>1, <3>2, <3>4 DEF Heard, Known
      <4>2. QED BY <4>1
    <3>5. QED BY <3>3, <3>4
  <2>3. CASE \E peer \in Peer, k \in Clock, on \in BOOLEAN : Announce(peer, k, on)
    <3>1. PICK peer \in Peer, k \in Clock, on \in BOOLEAN : Announce(peer, k, on)
      BY <2>3
    <3>2. Home[peer] \in Node
      BY SessionAssumption DEF Node
    <3>3. k \in Nat /\ k > 0
      <4>1. k \in Nat /\ clock[peer] \in Nat
        BY <2>1, ClockAssumption DEF Shape
      <4>2. k = clock[peer] + 1 \/ k = clock[peer] + 2
        BY <3>1 DEF Announce
      <4>3. QED BY <4>1, <4>2
    <3>4. [NoStates EXCEPT ![peer] = [clock |-> k, on |-> on]] \in [Peer -> Known]
      <4>1. [clock |-> k, on |-> on] \in Known
        BY <3>3 DEF Known
      <4>2. QED BY <4>1, AbsentKnown
    <3>5. ApplyAwareness(Home[peer], [NoStates EXCEPT ![peer] = [clock |-> k, on |-> on]])
      BY <3>1 DEF Announce
    <3>6. QED BY <3>2, <3>4, <3>5, <2>1, Hearing
  <2>4. CASE \E e \in End : Apply(e)
    <3>1. PICK e \in End : Apply(e)
      BY <2>4
    <3>2. /\ net[e] # <<>>
          /\ IF Head(net[e]).t = "awareness" THEN ApplyAwareness(NodeOf(e), Head(net[e]).states)
             ELSE UNCHANGED <<states, rx, missed>>
      BY <3>1 DEF Apply
    <3>3. ApplyAwareness(NodeOf(e), Head(net[e]).states)
      BY <3>2
    <3>4. Head(net[e]) \in Msg
      BY <3>2, <2>1, InTail DEF Shape
    <3>5. Head(net[e]).states \in [Peer -> Known] /\ NodeOf(e) \in Node
      BY <3>4, EndFacts DEF Msg
    <3>6. QED BY <3>3, <3>5, <2>1, Hearing
  <2>5. CASE ~(\E peer \in Peer, k \in Clock, on \in BOOLEAN : Announce(peer, k, on))
             /\ ~(\E e \in End : Apply(e))
    <3>1. states' = states
      BY <2>5 DEF Next, vars, Publish, Edit, ClientLoop, Start, Connect, PostFails, SendError, Drop,
                  Handler, Subscribe, JoinAndInit, Forward, ApplyChange, SendReplies
    <3>2. QED BY <3>1
  <2>6. QED BY <2>3, <2>4, <2>5
<1>2. QED BY <1>1, InvHolds, PTL DEF Spec, NeverOlder

=============================================================================
