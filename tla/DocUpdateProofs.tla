--------------------------- MODULE DocUpdateProofs ---------------------------
(***************************************************************************)
(* Type correctness and causal closure of DocUpdate, and that it loses no  *)
(* node and absorbs a complete update whole, for every set of clients,     *)
(* history of dependencies and set of updates.                             *)
(***************************************************************************)
EXTENDS DocUpdate, TLAPS

\* Every node the document holds anywhere came from a well-formed update.
NodesWellFormed ==
    /\ WellFiled(update.structs)
    /\ WellFiled(update.pstructs)
    /\ WellFiled(pending.structs)
    /\ WellFiled(pending.pstructs)
    /\ \A i \in DOMAIN stack : WellFormed(stack[i])
    /\ cur # <<>> => WellFormed(cur[1])

TypeInv == TypeOK /\ NodesWellFormed

-----------------------------------------------------------------------------
(* The operators on updates stay among the well-formed updates. *)

\* An empty queue table is a queue table, and well filed.
LEMMA NoUpdateType ==
    NoUpdate \in Update /\ WellFiled(NoUpdate.structs) /\ WellFiled(NoUpdate.pstructs)
BY ConstantsAssumption DEF NoUpdate, Update, NoQueues, NoMissing, NoClock, WellFiled

\* Update::read gives a well-formed update.
LEMMA DecodeType ==
    ASSUME NEW u \in Updates
    PROVE  /\ Decode(u) \in Update
           /\ WellFiled(Decode(u).structs) /\ WellFiled(Decode(u).pstructs)
BY HistoryAssumption, UpdatesWellFormed, NoUpdateType
   DEF Decode, NoUpdate, Update, WellFiled

\* drain_pending_state keeps an update well formed.
LEMMA DrainType ==
    ASSUME NEW u \in Update, WellFiled(u.structs), WellFiled(u.pstructs)
    PROVE  /\ DrainPendingState(u) \in Update
           /\ WellFiled(DrainPendingState(u).structs)
           /\ WellFiled(DrainPendingState(u).pstructs)
BY DEF DrainPendingState, Update, WellFiled

\* merge_into keeps an update well formed.
LEMMA MergeType ==
    ASSUME NEW u \in Update, WellFiled(u.structs), WellFiled(u.pstructs),
           NEW v \in Update, WellFiled(v.structs)
    PROVE  /\ MergeInto(u, v) \in Update
           /\ WellFiled(MergeInto(u, v).structs)
           /\ WellFiled(MergeInto(u, v).pstructs)
BY DEF MergeInto, Update, WellFiled

\* The delete set iterator keeps an update well formed.
LEMMA AfterDeletesType ==
    ASSUME NEW u \in Update, WellFiled(u.structs), WellFiled(u.pstructs)
    PROVE  /\ AfterDeletes(u) \in Update
           /\ WellFiled(AfterDeletes(u).structs)
           /\ WellFiled(AfterDeletes(u).pstructs)
BY DEF AfterDeletes, Deletable, Update, WellFiled

\* pop_front keeps an update well formed.
LEMMA PopType ==
    ASSUME NEW u \in Update, WellFiled(u.structs), WellFiled(u.pstructs),
           NEW c \in Client, NEW n \in u.structs[c]
    PROVE  /\ n \in Node /\ n.client = c /\ WellFormed(n)
           /\ Pop(u, n) \in Update
           /\ WellFiled(Pop(u, n).structs) /\ WellFiled(Pop(u, n).pstructs)
BY DEF Pop, Update, WellFiled

\* add_stack_to_rest parks well-formed nodes under their own client.
LEMMA StackToRestType ==
    ASSUME NEW u \in Update, WellFiled(u.structs), WellFiled(u.pstructs),
           NEW st \in Seq(Node), \A i \in DOMAIN st : WellFormed(st[i])
    PROVE  /\ StackToRest(u, st) \in Update
           /\ WellFiled(StackToRest(u, st).structs)
           /\ WellFiled(StackToRest(u, st).pstructs)
           /\ StackToRest(u, st).missing = u.missing
<1> DEFINE S == [c \in Client |-> IF StackOf(st, c) = {} THEN u.structs[c] ELSE {}]
           Last(c) == {st[i] : i \in {i \in StackOf(st, c) : \A j \in StackOf(st, c) : j <= i}}
           P == [c \in Client |->
                    IF StackOf(st, c) = {} THEN u.pstructs[c]
                    ELSE Last(c) \cup
                         (IF \A i, j \in StackOf(st, c) : i = j THEN u.structs[c] ELSE {})]
<1>1. StackToRest(u, st) = [u EXCEPT !.structs = S, !.pstructs = P]
  BY DEF StackToRest, Update
<1>2. \A c \in Client : \A n \in Last(c) : n \in Node /\ n.client = c /\ WellFormed(n)
  BY DEF StackOf
<1>3. S \in [Client -> SUBSET Node] /\ WellFiled(S)
  BY DEF Update, WellFiled
<1>4. P \in [Client -> SUBSET Node] /\ WellFiled(P)
  <2> HIDE DEF Last
  <2> QED BY <1>2 DEF Update, WellFiled
<1> HIDE DEF S, P
<1> QED BY <1>1, <1>3, <1>4 DEF Update

\* The clocks of a well-formed node are ids of the history.
LEMMA WellFiledIds ==
    ASSUME NEW q \in [Client -> SUBSET Node], WellFiled(q)
    PROVE  Ids(q) \subseteq Id
<1> SUFFICES ASSUME NEW c \in Client, NEW n \in q[c], NEW i \in IdsOf(n)
             PROVE  i \in Id
  BY DEF Ids
<1> QED BY ConstantsAssumption DEF IdsOf, Id, Node, End, WellFiled, WellFormed

-----------------------------------------------------------------------------
(* Type correctness *)

\* The document starts well typed and empty.
LEMMA InitTypeInv == Init => TypeInv
<1> SUFFICES ASSUME Init PROVE TypeInv
  OBVIOUS
<1>1. state \in [Client -> Clock] /\ received \in 0..MaxReceived
  BY ConstantsAssumption DEF Init, Clock
<1>2. stack \in Seq(Node) /\ DOMAIN stack = {}
  BY DEF Init
<1>3. cur \in {<<>>} \cup {<<n>> : n \in Node}
  BY DEF Init
<1> QED BY <1>1, <1>2, <1>3, NoUpdateType DEF Init, TypeInv, TypeOK, NodesWellFormed

\* A new update is decoded into a well-formed one.
LEMMA ReceiveTypeInv ==
    ASSUME TypeInv, NEW u \in Updates, ReceiveUpdate(u)
    PROVE  TypeInv'
<1>1. Decode(u) \in Update /\ WellFiled(Decode(u).structs) /\ WellFiled(Decode(u).pstructs)
  BY DecodeType
<1>2. u.structs \in [Client -> SUBSET Node] /\ WellFiled(u.structs) /\ u.dels \subseteq Id
  BY HistoryAssumption, UpdatesWellFormed
<1>3. Ids(u.structs) \subseteq Id
  BY <1>2, WellFiledIds
<1>4. received + 1 \in 0..MaxReceived
  BY ConstantsAssumption DEF ReceiveUpdate, TypeInv, TypeOK
<1> QED BY <1>1, <1>2, <1>3, <1>4
      DEF TypeInv, TypeOK, NodesWellFormed, ReceiveUpdate, store

\* The document's own transactions keep the types.
LEMMA LocalTypeInv ==
    ASSUME TypeInv, CreateItem \/ \E i \in Id : DeleteItem(i)
    PROVE  TypeInv'
<1>1. CASE CreateItem
  <2>1. state \in [Client -> Clock] /\ state[Local] < MaxClock
    BY <1>1 DEF CreateItem, TypeInv, TypeOK
  <2>2. state[Local] \in 0..MaxClock - 1 /\ state[Local] + 1 \in Clock
    BY <2>1, ConstantsAssumption DEF Clock
  <2>3. <<Local, state[Local]>> \in Id
    BY <2>2, ConstantsAssumption DEF Id
  <2> QED BY <1>1, <2>2, <2>3, ConstantsAssumption
        DEF CreateItem, TypeInv, TypeOK, NodesWellFormed, loop
<1>2. CASE \E i \in Id : DeleteItem(i)
  BY <1>2 DEF DeleteItem, TypeInv, TypeOK, NodesWellFormed, loop
<1> QED BY <1>1, <1>2

\* Taking the next candidate only moves a well-formed node.
LEMMA CandidateTypeInv ==
    ASSUME TypeInv,
           \/ PopStack
           \/ \E c \in Client : \E n \in update.structs[c] : PopQueue(c, n)
           \/ \E d \in Client : \E n \in update.structs[d] : TurnToDep(d, n)
    PROVE  TypeInv'
<1>1. CASE PopStack
  <2>1. Len(stack) \in Nat \ {0} /\ stack[Len(stack)] \in Node /\ WellFormed(stack[Len(stack)])
    BY <1>1 DEF PopStack, TypeInv, TypeOK, NodesWellFormed
  <2>2. /\ stack' \in Seq(Node)
        /\ \A i \in DOMAIN stack' : i \in DOMAIN stack /\ stack'[i] = stack[i]
    BY <1>1, <2>1 DEF PopStack, TypeInv, TypeOK
  <2>3. cur' \in {<<n>> : n \in Node} /\ WellFormed(cur'[1])
    BY <1>1, <2>1 DEF PopStack
  <2> QED BY <1>1, <2>2, <2>3
        DEF PopStack, TypeInv, TypeOK, NodesWellFormed, store, history
<1>2. ASSUME NEW c \in Client, NEW n \in update.structs[c], PopQueue(c, n)
      PROVE  TypeInv'
  <2>1. /\ n \in Node /\ WellFormed(n)
        /\ Pop(update, n) \in Update
        /\ WellFiled(Pop(update, n).structs) /\ WellFiled(Pop(update, n).pstructs)
    BY PopType DEF TypeInv, TypeOK, NodesWellFormed
  <2> QED BY <1>2, <2>1
        DEF PopQueue, TypeInv, TypeOK, NodesWellFormed, store, history
<1>3. ASSUME NEW d \in Client, NEW n \in update.structs[d], TurnToDep(d, n)
      PROVE  TypeInv'
  <2>1. /\ n \in Node /\ WellFormed(n)
        /\ Pop(update, n) \in Update
        /\ WellFiled(Pop(update, n).structs) /\ WellFiled(Pop(update, n).pstructs)
    BY PopType DEF TypeInv, TypeOK, NodesWellFormed
  <2>2. cur[1] \in Node /\ WellFormed(cur[1])
    BY <1>3 DEF TurnToDep, Iterating, TypeInv, TypeOK, NodesWellFormed
  <2>3. stack' \in Seq(Node) /\ \A i \in DOMAIN stack' : WellFormed(stack'[i])
    BY <1>3, <2>2 DEF TurnToDep, TypeInv, TypeOK, NodesWellFormed
  <2> QED BY <1>3, <2>1, <2>3
        DEF TurnToDep, TypeInv, TypeOK, NodesWellFormed, store, history
<1> QED BY <1>1, <1>2, <1>3

\* Parking keeps the types; the recorded clock is a clock.
LEMMA ParkTypeInv ==
    ASSUME TypeInv, ParkGap \/ \E d \in Client : ParkMissingDep(d)
    PROVE  TypeInv'
<1> DEFINE st == Append(stack, cur[1])
           w == StackToRest(update, st)
<1>1. cur[1] \in Node /\ WellFormed(cur[1])
  BY DEF ParkGap, ParkMissingDep, Iterating, TypeInv, TypeOK, NodesWellFormed
<1>2. st \in Seq(Node) /\ \A i \in DOMAIN st : WellFormed(st[i])
  BY <1>1 DEF TypeInv, TypeOK, NodesWellFormed
<1> HIDE DEF st
<1>3. /\ w \in Update /\ w.missing = update.missing
      /\ WellFiled(w.structs) /\ WellFiled(w.pstructs)
  BY <1>2, StackToRestType DEF TypeInv, TypeOK, NodesWellFormed
<1>4. \E c \in Client, k \in Nat :
          k < NoClock /\ update' = [w EXCEPT !.missing = SetMin(@, c, k)]
  <2>1. CASE ParkGap
    <3>1. cur[1].client \in Client /\ cur[1].clock - 1 \in Nat /\ cur[1].clock - 1 < NoClock
      BY <2>1, <1>1, ConstantsAssumption
         DEF ParkGap, Contains, Node, TypeInv, TypeOK, Clock, NoClock
    <3> QED BY <2>1, <3>1 DEF ParkGap, st
  <2>2. ASSUME NEW d \in Client, ParkMissingDep(d)
        PROVE  \E c \in Client, k \in Nat :
                   k < NoClock /\ update' = [w EXCEPT !.missing = SetMin(@, c, k)]
    <3>1. state[d] \in Nat /\ state[d] < NoClock
      BY ConstantsAssumption DEF TypeInv, TypeOK, Clock, NoClock
    <3> QED BY <2>2, <3>1 DEF ParkMissingDep, st
  <2> QED BY <2>1, <2>2
<1>5. PICK c \in Client, k \in Nat :
          k < NoClock /\ update' = [w EXCEPT !.missing = SetMin(@, c, k)]
  BY <1>4
<1> HIDE DEF w
<1>6. SetMin(w.missing, c, k) \in [Client -> 0..NoClock]
  BY <1>3, <1>5, ConstantsAssumption DEF SetMin, Update, NoClock
<1>7. /\ update' \in Update
      /\ update'.structs = w.structs /\ update'.pstructs = w.pstructs
  BY <1>3, <1>5, <1>6 DEF Update
<1>8. WellFiled(update'.structs) /\ WellFiled(update'.pstructs)
  BY <1>3, <1>7
<1>9. /\ stack' = <<>> /\ cur' = <<>>
      /\ UNCHANGED <<state, deleted, pending, pc, retry, seen, received, arriving>>
  BY DEF ParkGap, ParkMissingDep, store, history
<1> QED BY <1>7, <1>8, <1>9 DEF TypeInv, TypeOK, NodesWellFormed

\* Integrating a node moves its client's clock to the node's end.
LEMMA IntegrateTypeInv ==
    ASSUME TypeInv, Integrate \/ DropKnown \/ IterEnd
    PROVE  TypeInv'
<1>1. CASE Integrate
  <2>1. /\ cur[1] \in Node /\ WellFormed(cur[1])
    BY <1>1 DEF Integrate, Iterating, TypeInv, TypeOK, NodesWellFormed
  <2>2. End(cur[1]) \in Clock
    BY <2>1, ConstantsAssumption DEF WellFormed, End, Node, Clock
  <2> QED BY <1>1, <2>2
        DEF Integrate, TypeInv, TypeOK, NodesWellFormed, history
<1>2. CASE DropKnown
  BY <1>2 DEF DropKnown, TypeInv, TypeOK, NodesWellFormed, store, history
<1>3. CASE IterEnd
  BY <1>3 DEF IterEnd, TypeInv, TypeOK, NodesWellFormed, store, history
<1> QED BY <1>1, <1>2, <1>3

\* The rest of the loop body keeps the types.
LEMMA SettleTypeInv ==
    ASSUME TypeInv, ApplyDeletes \/ TakePending \/ NoPending
    PROVE  TypeInv'
<1>1. \A u \in Update : WellFiled(u.structs) /\ WellFiled(u.pstructs) =>
          \A again : again \in BOOLEAN /\ Settle(u, again) =>
              /\ update' \in Update /\ pending' \in Update /\ retry' \in BOOLEAN
              /\ WellFiled(update'.structs) /\ WellFiled(update'.pstructs)
              /\ WellFiled(pending'.structs) /\ WellFiled(pending'.pstructs)
              /\ pc' \in {"idle", "iter", "dels", "settle"}
              /\ arriving' \subseteq Id
  BY NoUpdateType DEF Settle, TypeInv, TypeOK
<1>2. CASE ApplyDeletes
  <2>1. /\ AfterDeletes(update) \in Update
        /\ WellFiled(AfterDeletes(update).structs)
        /\ WellFiled(AfterDeletes(update).pstructs)
    BY AfterDeletesType DEF TypeInv, TypeOK, NodesWellFormed
  <2>2. Deletable(update.dels) \subseteq Id
    BY DEF Deletable, TypeInv, TypeOK, Update
  <2> QED BY <1>2, <2>1, <2>2
        DEF ApplyDeletes, TypeInv, TypeOK, NodesWellFormed, history
<1>3. CASE TakePending
  <2> DEFINE p == AfterDeletes(pending)
             d == DrainPendingState(update)
             again == retry \/ NewlyAvailable(pending)
             u == IF IsPendingEmpty(update) THEN p ELSE MergeInto(d, p)
  <2>1. p \in Update /\ WellFiled(p.structs) /\ WellFiled(p.pstructs)
    BY AfterDeletesType DEF TypeInv, TypeOK, NodesWellFormed
  <2>2. d \in Update /\ WellFiled(d.structs) /\ WellFiled(d.pstructs)
    BY DrainType DEF TypeInv, TypeOK, NodesWellFormed
  <2> HIDE DEF p, d
  <2>3. u \in Update /\ WellFiled(u.structs) /\ WellFiled(u.pstructs)
    BY <2>1, <2>2, MergeType
  <2>4. Settle(u, again) /\ again \in BOOLEAN
    BY <1>3 DEF TakePending, p, d
  <2>5. Deletable(pending.dels) \subseteq Id
    BY DEF Deletable, TypeInv, TypeOK, Update
  <2> HIDE DEF u, again
  <2>6. /\ update' \in Update /\ pending' \in Update /\ retry' \in BOOLEAN
        /\ WellFiled(update'.structs) /\ WellFiled(update'.pstructs)
        /\ WellFiled(pending'.structs) /\ WellFiled(pending'.pstructs)
        /\ pc' \in {"idle", "iter", "dels", "settle"}
        /\ arriving' \subseteq Id
    BY <1>1, <2>3, <2>4
  <2> QED BY <1>3, <2>5, <2>6
        DEF TakePending, TypeInv, TypeOK, NodesWellFormed
<1>4. CASE NoPending
  <2> DEFINE d == DrainPendingState(update)
  <2>1. d \in Update /\ WellFiled(d.structs) /\ WellFiled(d.pstructs)
    BY DrainType DEF TypeInv, TypeOK, NodesWellFormed
  <2>2. Settle(d, FALSE)
    BY <1>4 DEF NoPending
  <2> HIDE DEF d
  <2>3. /\ update' \in Update /\ pending' \in Update /\ retry' \in BOOLEAN
        /\ WellFiled(update'.structs) /\ WellFiled(update'.pstructs)
        /\ WellFiled(pending'.structs) /\ WellFiled(pending'.pstructs)
        /\ pc' \in {"idle", "iter", "dels", "settle"}
        /\ arriving' \subseteq Id
    BY <1>1, <2>1, <2>2
  <2> QED BY <1>4, <2>3 DEF NoPending, TypeInv, TypeOK, NodesWellFormed
<1> QED BY <1>2, <1>3, <1>4

\* TypeInv is inductive.
LEMMA NextTypeInv == TypeInv /\ [Next]_vars => TypeInv'
<1> SUFFICES ASSUME TypeInv, [Next]_vars PROVE TypeInv'
  OBVIOUS
<1>1. CASE UNCHANGED vars
  BY <1>1 DEF vars, store, loop, history, TypeInv, TypeOK, NodesWellFormed
<1>2. CASE \E u \in Updates : ReceiveUpdate(u)
  BY <1>2, ReceiveTypeInv
<1>3. CASE CreateItem \/ \E i \in Id : DeleteItem(i)
  BY <1>3, LocalTypeInv
<1>4. CASE ApplyUpdate
  BY <1>4, CandidateTypeInv, ParkTypeInv, IntegrateTypeInv, SettleTypeInv
     DEF ApplyUpdate
<1> QED BY <1>1, <1>2, <1>3, <1>4 DEF Next

\* Every reachable state is well typed, and every node in the document well
\* formed, whatever updates arrive in whatever order.
THEOREM TypeCorrect == Spec => []TypeInv
BY InitTypeInv, NextTypeInv, PTL DEF Spec

\* The invariant the runs check, for every instance.
COROLLARY TypesHold == Spec => []TypeOK
<1>1. TypeInv => TypeOK
  BY DEF TypeInv
<1> QED BY <1>1, TypeCorrect, PTL

-----------------------------------------------------------------------------
(* Causal closure *)

\* The steps that move the state vector, as one fact: either nothing moves, or
\* one client's clock rises over ids whose dependencies are there.
Extends(c, e) ==
    /\ state' = [state EXCEPT ![c] = e]
    /\ e \in Clock /\ state[c] < e
    /\ \A k \in state[c]..e - 1 : \A j \in DepsOf(<<c, k>>) :
          \/ j[1] = c /\ j[2] < k
          \/ j[1] # c /\ j[2] < state[j[1]]

\* Dependencies are ids.
LEMMA DepsAreIds ==
    ASSUME NEW i \in Id, NEW j \in DepsOf(i)
    PROVE  j \in Id
<1>1. Deps[i] \in Seq(Id)
  BY HistoryAssumption
<1>2. PICK k \in DOMAIN Deps[i] : j = Deps[i][k]
  BY DEF DepsOf
<1> QED BY <1>1, <1>2

\* Integrating the iterator's candidate extends its client: contained, so no
\* gap; no missing dependency, so the first id is closed; and the later ids
\* of the run need nothing else.
LEMMA IntegrateExtends ==
    ASSUME TypeInv, Integrate
    PROVE  Extends(cur[1].client, End(cur[1]))
<1> DEFINE n == cur[1]
           c == n.client
<1>1. /\ n \in Node /\ WellFormed(n) /\ Applicable(n)
      /\ Offset(n) = 0 \/ Offset(n) < n.len
      /\ state' = [state EXCEPT ![c] = End(n)]
      /\ state \in [Client -> Clock]
  BY DEF Integrate, Iterating, TypeInv, TypeOK, NodesWellFormed
<1> HIDE DEF n
<1>2. c \in Client /\ n.clock \in 0..MaxClock - 1 /\ n.len \in 1..MaxClock
  BY <1>1 DEF Node
<1>3. /\ state[c] \in Nat /\ n.clock <= state[c] /\ state[c] < End(n)
      /\ End(n) \in Clock
  <2>1. End(n) <= MaxClock /\ n.clock <= state[c] /\ (Offset(n) = 0 \/ Offset(n) < n.len)
    BY <1>1 DEF WellFormed, Applicable, Contains
  <2>2. state[c] \in 0..MaxClock
    BY <1>1, <1>2 DEF Clock
  <2> QED BY <1>2, <2>1, <2>2, ConstantsAssumption DEF Offset, End, Clock
<1>4. ASSUME NEW k \in state[c]..End(n) - 1, NEW j \in DepsOf(<<c, k>>)
      PROVE  \/ j[1] = c /\ j[2] < k
             \/ j[1] # c /\ j[2] < state[j[1]]
  <2>1. k \in n.clock..End(n) - 1 /\ k \in 0..MaxClock - 1
    BY <1>2, <1>3, ConstantsAssumption DEF Clock
  <2>2. <<c, k>> \in IdsOf(n) /\ <<c, k>> \in Id /\ IdOf(n) \in Id
    BY <1>2, <2>1 DEF IdsOf, Id, IdOf
  <2>3. j \in Id
    BY <2>2, DepsAreIds
  <2>4. CASE j[1] = c
    BY <2>2, <2>4, DepsPointBack
  <2>5. CASE j[1] # c
    <3>1. j \in DepsOf(IdOf(n))
      BY <1>1, <2>2, <2>5 DEF WellFormed
    <3>2. PICK m \in DOMAIN Deps[IdOf(n)] : j = Deps[IdOf(n)][m]
      BY <3>1 DEF DepsOf
    <3>3. ~ IsMissing(j, c)
      BY <1>1, <3>2 DEF Applicable, MissingDeps
    <3>4. j[1] \in Client /\ j[2] \in Int
      BY <2>3 DEF Id
    <3>5. state[j[1]] \in Int
      BY <3>4, <1>1 DEF Clock
    <3> QED BY <2>5, <3>3, <3>4, <3>5 DEF IsMissing
  <2> QED BY <2>4, <2>5
<1> QED BY <1>1, <1>3, <1>4 DEF Extends, n

\* A transaction extends the document's own client by one.
LEMMA CreateExtends ==
    ASSUME TypeInv, CreateItem
    PROVE  Extends(Local, state[Local] + 1)
<1>1. /\ state \in [Client -> Clock] /\ state[Local] < MaxClock
      /\ state' = [state EXCEPT ![Local] = state[Local] + 1]
      /\ \A j \in DepsOf(<<Local, state[Local]>>) : j[2] < state[j[1]]
  BY DEF CreateItem, TypeInv, TypeOK
<1>2. state[Local] \in Nat /\ state[Local] + 1 \in Clock /\ state[Local] < state[Local] + 1
  BY <1>1, ConstantsAssumption DEF Clock
<1>3. \A k \in state[Local]..(state[Local] + 1) - 1 : k = state[Local]
  BY <1>2
<1> QED BY <1>1, <1>2, <1>3 DEF Extends

\* No step moves the state vector in any other way.
LEMMA StateSteps ==
    ASSUME TypeInv, [Next]_vars
    PROVE  \/ UNCHANGED state
           \/ \E c \in Client : \E e : Extends(c, e)
<1>1. CASE Integrate
  <2>1. cur[1].client \in Client
    BY <1>1 DEF Integrate, Iterating, TypeInv, TypeOK, Node
  <2> QED BY <1>1, <2>1, IntegrateExtends
<1>2. CASE CreateItem
  BY <1>2, CreateExtends, ConstantsAssumption
<1>3. CASE ~Integrate /\ ~CreateItem
  BY <1>3 DEF Next, ApplyUpdate, ReceiveUpdate, DeleteItem, PopStack, PopQueue,
     ParkGap, TurnToDep, ParkMissingDep, DropKnown, IterEnd, ApplyDeletes,
     TakePending, NoPending, vars, store
<1> QED BY <1>1, <1>2, <1>3

\* Extending a closed store by closed ids leaves it closed.
LEMMA ExtendsClosed ==
    ASSUME TypeInv, CausallyClosed, NEW c \in Client, NEW e, Extends(c, e)
    PROVE  CausallyClosed'
<1>1. state \in [Client -> Clock] /\ state' = [state EXCEPT ![c] = e]
  BY DEF Extends, TypeInv, TypeOK
<1>2. e \in Nat /\ state[c] \in Nat /\ state[c] < e
  BY <1>1, ConstantsAssumption DEF Extends, Clock
<1>3. \A d \in Client : state[d] \in Nat /\ state'[d] \in Nat /\ state[d] <= state'[d]
  BY <1>1, <1>2, ConstantsAssumption DEF Clock
<1> SUFFICES ASSUME NEW i \in Id, i[2] < state'[i[1]], NEW j \in DepsOf(i)
             PROVE  j[2] < state'[j[1]]
  BY DEF CausallyClosed, Integrated
<1>4. i[1] \in Client /\ i[2] \in Nat /\ i = <<i[1], i[2]>>
  BY ConstantsAssumption DEF Id
<1>5. j[1] \in Client /\ j[2] \in Nat
  BY DepsAreIds, ConstantsAssumption DEF Id
<1>6. CASE i[2] < state[i[1]]
  BY <1>3, <1>5, <1>6 DEF CausallyClosed, Integrated
<1>7. CASE ~(i[2] < state[i[1]])
  <2>1. i[1] = c /\ i[2] \in state[c]..e - 1
    BY <1>1, <1>2, <1>3, <1>4, <1>7
  <2>2. \/ j[1] = c /\ j[2] < i[2]
        \/ j[1] # c /\ j[2] < state[j[1]]
    BY <1>4, <2>1 DEF Extends
  <2> QED BY <1>1, <1>2, <1>3, <1>4, <1>5, <2>1, <2>2
<1> QED BY <1>6, <1>7

\* Whatever the order, duplication or loss of updates, the store never has a
\* causal hole: repair finds the origins and the parent of every node the
\* iterator yields.
THEOREM Closed == Spec => []CausallyClosed
<1>1. Init => CausallyClosed
  <2> SUFFICES ASSUME Init, NEW i \in Id PROVE ~(i[2] < state[i[1]])
    BY DEF CausallyClosed, Integrated
  <2> QED BY ConstantsAssumption DEF Init, Id
<1>2. TypeInv /\ CausallyClosed /\ [Next]_vars => CausallyClosed'
  <2> SUFFICES ASSUME TypeInv, CausallyClosed, [Next]_vars PROVE CausallyClosed'
    OBVIOUS
  <2>1. CASE UNCHANGED state
    BY <2>1 DEF CausallyClosed, Integrated
  <2>2. CASE \E c \in Client : \E e : Extends(c, e)
    BY <2>2, ExtendsClosed
  <2> QED BY <2>1, <2>2, StateSteps
<1> QED BY <1>1, <1>2, TypeCorrect, PTL DEF Spec

\* No step lowers a client's clock.
LEMMA StateRises ==
    ASSUME TypeInv, [Next]_vars
    PROVE  \A d \in Client : state[d] \in Nat /\ state'[d] \in Nat /\ state'[d] >= state[d]
<1> SUFFICES ASSUME NEW d \in Client
             PROVE  state[d] \in Nat /\ state'[d] \in Nat /\ state'[d] >= state[d]
  OBVIOUS
<1>1. state \in [Client -> Clock] /\ state[d] \in Nat
  BY ConstantsAssumption DEF TypeInv, TypeOK, Clock
<1>2. CASE UNCHANGED state
  BY <1>1, <1>2
<1>3. ASSUME NEW c \in Client, NEW e, Extends(c, e)
      PROVE  state'[d] \in Nat /\ state'[d] >= state[d]
  BY <1>1, <1>3, ConstantsAssumption DEF Extends, Clock
<1> QED BY <1>1, <1>2, <1>3, StateSteps

\* The state vector announced to peers never goes back.
THEOREM Grows == Spec => StateGrows
<1>1. TypeInv /\ [Next]_vars => [\A c \in Client : state'[c] >= state[c]]_vars
  BY StateRises
<1> QED BY <1>1, TypeCorrect, PTL DEF Spec, StateGrows

-----------------------------------------------------------------------------
(* What arrived stays: no node is lost, and a complete update is absorbed. *)


\* The nodes the iterator is at work on, the candidate last.
Line == IF cur = <<>> THEN stack ELSE Append(stack, cur[1])
LineIds(line) == UNION {IdsOf(line[i]) : i \in DOMAIN line}
InLine(c) == \E i \in DOMAIN Line : Line[i].client = c

\* a depends on an id of b's client that is not here.
Waits(a, b) ==
    \E j \in DepsOf(IdOf(a)) :
        j[1] = b.client /\ j[1] # a.client /\ state[j[1]] <= j[2]

\* Every node of the line follows what its client has here, but for the
\* candidate, and waits for the client of the next one.
LineWaits ==
    \A i \in 1..Len(Line) :
        /\ i < Len(Line) \/ cur = <<>> => Contains(Line[i])
        /\ i < Len(Line) => Waits(Line[i], Line[i + 1])

\* A queue is popped from the front.
QueueBehindLine ==
    \A i \in DOMAIN Line : \A m \in update.structs[Line[i].client] :
        Line[i].clock <= m.clock

\* The iterator has nothing left to take of a client.
Gone(c) == update.structs[c] = {} /\ ~InLine(c)

\* A parked node leaves a gap, or waits for a client of which nothing is left.
Blocked(n) ==
    \/ ~Contains(n)
    \/ \E j \in DepsOf(IdOf(n)) :
           j[1] # n.client /\ state[j[1]] <= j[2] /\ Gone(j[1])

Parked ==
    \A c \in Client : \A n \in update.pstructs[c] : Gone(c) /\ Blocked(n)

\* Where the loop is, and which of its queues are in use there.
Phases ==
    /\ pc = "idle" => update = NoUpdate
    /\ pc # "iter" => stack = <<>> /\ cur = <<>>
    /\ pc \in {"dels", "settle"} => update.structs = NoQueues
    /\ pending.pstructs = NoQueues

InUpdate == Ids(update.structs) \cup Ids(update.pstructs) \cup LineIds(Line)

SeenKept ==
    \A i \in seen : Integrated(i) \/ i \in InUpdate \/ i \in Ids(pending.structs)
ArrivingKept ==
    pc # "idle" => \A i \in arriving : Integrated(i) \/ i \in InUpdate

KeptInv ==
    /\ Phases
    /\ LineWaits
    /\ QueueBehindLine
    /\ Parked
    /\ SeenKept
    /\ ArrivingKept
Safe == TypeInv /\ CausallyClosed /\ KeptInv

-----------------------------------------------------------------------------
(* Membership, and the shape of the line *)

\* An id is in a queue table when it is in some node of some queue.
LEMMA IdsMember ==
    ASSUME NEW q, NEW i
    PROVE  i \in Ids(q) <=> \E c \in Client : \E n \in q[c] : i \in IdsOf(n)
BY DEF Ids

\* An id is in a line when it is in one of its nodes.
LEMMA LineIdsMember ==
    ASSUME NEW line, NEW i
    PROVE  i \in LineIds(line) <=> \E k \in DOMAIN line : i \in IdsOf(line[k])
BY DEF LineIds

\* Clocks are natural numbers.
LEMMA StateIsNat ==
    ASSUME TypeInv
    PROVE  \A c \in Client : state[c] \in Nat
BY ConstantsAssumption DEF TypeInv, TypeOK, Clock

\* The line is a sequence of well-formed nodes.
LEMMA LineType ==
    ASSUME TypeInv
    PROVE  /\ Line \in Seq(Node)
           /\ DOMAIN Line = 1..Len(Line) /\ Len(Line) \in Nat
           /\ \A i \in DOMAIN Line : Line[i] \in Node /\ WellFormed(Line[i])
<1>1. stack \in Seq(Node) /\ \A i \in DOMAIN stack : WellFormed(stack[i])
  BY DEF TypeInv, TypeOK, NodesWellFormed
<1>2. CASE cur = <<>>
  BY <1>1, <1>2 DEF Line
<1>3. CASE cur # <<>>
  <2>1. cur[1] \in Node /\ WellFormed(cur[1])
    BY <1>3 DEF TypeInv, TypeOK, NodesWellFormed
  <2>2. Line = Append(stack, cur[1])
    BY <1>3 DEF Line
  <2> QED BY <1>1, <2>1, <2>2
<1> QED BY <1>2, <1>3

\* The first id of a well-formed node is an id of the history.
LEMMA NodeIsId ==
    ASSUME NEW n \in Node
    PROVE  IdOf(n) \in Id /\ n.client \in Client /\ n.clock \in Nat
BY ConstantsAssumption DEF Node, IdOf, Id

\* No client is twice on the line: going round, each node would wait for a
\* later item of the next one's client, back to where it started.
LEMMA LineDistinct ==
    ASSUME TypeInv, LineWaits,
           NEW a \in DOMAIN Line, NEW b \in DOMAIN Line, a < b
    PROVE  Line[a].client # Line[b].client
<1> SUFFICES ASSUME Line[a].client = Line[b].client PROVE FALSE
  OBVIOUS
<1> DEFINE S == {x \in Id : \E i \in a..b - 1 :
                     x[1] = Line[i].client /\ x[2] >= Line[i].clock}
<1>1. a \in Nat /\ b \in Nat /\ a \in a..b - 1 /\ DOMAIN Line = 1..Len(Line) /\ Len(Line) \in Nat
  BY LineType
<1>2. \A i \in a..b - 1 : i \in DOMAIN Line /\ i + 1 \in DOMAIN Line /\ i < Len(Line)
  BY <1>1
<1>3. \A i \in DOMAIN Line : /\ Line[i] \in Node /\ IdOf(Line[i]) \in Id
                             /\ Line[i].client \in Client /\ Line[i].clock \in Nat
  BY LineType, NodeIsId
<1>4. \A i \in a..b - 1 : Contains(Line[i]) /\ Waits(Line[i], Line[i + 1])
  BY <1>1, <1>2 DEF LineWaits
<1>5. \A y : y \in S <=>
          y \in Id /\ \E i \in a..b - 1 : y[1] = Line[i].client /\ y[2] >= Line[i].clock
  OBVIOUS
<1> HIDE DEF S
<1>6. \A i \in a..b - 1 : IdOf(Line[i]) \in S
  <2> SUFFICES ASSUME NEW i \in a..b - 1 PROVE IdOf(Line[i]) \in S
    OBVIOUS
  <2>1. /\ IdOf(Line[i]) \in Id
        /\ IdOf(Line[i])[1] = Line[i].client /\ IdOf(Line[i])[2] >= Line[i].clock
    BY <1>2, <1>3 DEF IdOf
  <2> QED BY <1>5, <2>1
<1>7. PICK x \in S : Requires(x) \cap S = {}
  <2>1. S \in SUBSET Id /\ S # {}
    BY <1>1, <1>5, <1>6
  <2> QED BY <2>1, HistoryIsAcyclic
<1>8. PICK i \in a..b - 1 : x[1] = Line[i].client /\ x[2] >= Line[i].clock
  BY <1>5
<1> DEFINE c == Line[i].client
           k == Line[i].clock
<1>9. IdOf(Line[i]) = <<c, k>> /\ c \in Client /\ k \in Nat
  BY <1>2, <1>3 DEF IdOf
<1> HIDE DEF c, k
<1>10. x = <<c, k>>
  <2>1. x \in Id /\ x[1] = c /\ x[2] >= k
    BY <1>5, <1>8 DEF c, k
  <2>2. x = <<c, x[2]>> /\ x[2] \in Nat
    BY <2>1, ConstantsAssumption DEF Id
  <2>3. CASE x[2] > k
    <3>1. <<c, k>> \in S
      BY <1>6, <1>9
    <3>2. <<c, k>> \in Requires(x)
      BY <1>9, <2>1, <2>2, <2>3 DEF Requires
    <3> QED BY <3>1, <3>2, <1>7
  <2>4. CASE ~(x[2] > k)
    <3>1. x[2] = k
      BY <1>9, <2>1, <2>2, <2>4
    <3> QED BY <2>2, <3>1
  <2> QED BY <2>3, <2>4
<1>11. PICK j \in DepsOf(x) : j[1] = Line[i + 1].client /\ state[j[1]] <= j[2]
  BY <1>4, <1>9, <1>10 DEF Waits
<1>12. j \in Id /\ j[1] \in Client /\ j[2] \in Nat /\ state[j[1]] \in Nat
  <2>1. x \in Id
    BY <1>5
  <2>2. j \in Id
    BY <2>1, DepsAreIds
  <2>3. j[1] \in Client /\ j[2] \in Nat
    BY <2>2, ConstantsAssumption DEF Id
  <2> QED BY <2>2, <2>3, StateIsNat
<1>13. j \in S
  <2>1. CASE i + 1 = b
    <3>1. j[1] = Line[a].client /\ Line[a].clock <= state[j[1]]
      BY <1>1, <1>4, <1>11, <2>1 DEF Contains
    <3>2. j[2] >= Line[a].clock
      BY <1>1, <1>2, <1>3, <1>11, <1>12, <3>1
    <3> QED BY <1>1, <1>5, <1>12, <3>1, <3>2
  <2>2. CASE i + 1 # b
    <3>1. i + 1 \in a..b - 1
      BY <1>1, <1>8, <2>2
    <3>2. Line[i + 1].clock <= state[j[1]]
      BY <1>4, <1>11, <3>1 DEF Contains
    <3>3. j[2] >= Line[i + 1].clock
      BY <1>2, <1>3, <1>11, <1>12, <3>1, <3>2
    <3> QED BY <1>5, <1>11, <1>12, <3>1, <3>3
  <2> QED BY <2>1, <2>2
<1> QED BY <1>7, <1>11, <1>13 DEF Requires

-----------------------------------------------------------------------------
(* What moves between the queues, the line and the store *)

\* A step inside apply_update that loses no node of the update keeps every
\* node that was ever received.
LEMMA MoveKeeps ==
    ASSUME TypeInv, [Next]_vars, SeenKept, ArrivingKept, pc # "idle",
           UNCHANGED <<seen, pending, arriving>>,
           \A i \in Id : i \in InUpdate => Integrated(i)' \/ i \in InUpdate'
    PROVE  SeenKept' /\ ArrivingKept'
<1>1. \A i \in Id : Integrated(i) => Integrated(i)'
  <2> SUFFICES ASSUME NEW i \in Id, i[2] < state[i[1]] PROVE i[2] < state'[i[1]]
    BY DEF Integrated
  <2>1. i[1] \in Client /\ i[2] \in Nat
    BY ConstantsAssumption DEF Id
  <2> QED BY <2>1, StateRises
<1>2. seen \subseteq Id /\ arriving \subseteq Id
  BY DEF TypeInv, TypeOK
<1>3. SeenKept'
  BY <1>1, <1>2 DEF SeenKept
<1>4. ArrivingKept'
  BY <1>1, <1>2 DEF ArrivingKept
<1> QED BY <1>3, <1>4

\* Popping a queue moves one node out of it.
LEMMA PopMoves ==
    ASSUME NEW u \in Update, NEW c \in Client, NEW n \in u.structs[c], n.client = c
    PROVE  /\ Pop(u, n).pstructs = u.pstructs
           /\ Pop(u, n).structs = [u.structs EXCEPT ![c] = @ \ {n}]
           /\ \A d \in Client : Pop(u, n).structs[d] \subseteq u.structs[d]
           /\ \A i \in Ids(u.structs) : i \in IdsOf(n) \/ i \in Ids(Pop(u, n).structs)
<1>1. /\ Pop(u, n).pstructs = u.pstructs
      /\ Pop(u, n).structs = [u.structs EXCEPT ![c] = @ \ {n}]
  BY DEF Pop, Update
<1>2. \A d \in Client : /\ Pop(u, n).structs[d] \subseteq u.structs[d]
                        /\ u.structs[d] \ {n} \subseteq Pop(u, n).structs[d]
  BY <1>1 DEF Update
<1>3. ASSUME NEW i \in Ids(u.structs), i \notin IdsOf(n)
      PROVE  i \in Ids(Pop(u, n).structs)
  <2>1. PICK d \in Client : \E m \in u.structs[d] : i \in IdsOf(m)
    BY IdsMember
  <2>2. PICK m \in u.structs[d] : i \in IdsOf(m)
    BY <2>1
  <2>3. m \in Pop(u, n).structs[d]
    BY <1>2, <1>3, <2>2
  <2> QED BY <2>2, <2>3, IdsMember
<1> QED BY <1>1, <1>2, <1>3

\* Adding a node to the line.
LEMMA LineAppend ==
    ASSUME NEW line \in Seq(Node), NEW n \in Node
    PROVE  /\ Append(line, n) \in Seq(Node)
           /\ Len(Append(line, n)) = Len(line) + 1 /\ Len(line) \in Nat
           /\ DOMAIN Append(line, n) = 1..Len(line) + 1
           /\ DOMAIN line = 1..Len(line)
           /\ \A k \in 1..Len(line) : Append(line, n)[k] = line[k]
           /\ Append(line, n)[Len(line) + 1] = n
           /\ \A i : i \in LineIds(Append(line, n)) <=> i \in LineIds(line) \/ i \in IdsOf(n)
<1> DEFINE longer == Append(line, n)
<1>1. /\ longer \in Seq(Node)
      /\ Len(longer) = Len(line) + 1 /\ Len(line) \in Nat
      /\ DOMAIN longer = 1..Len(line) + 1
      /\ DOMAIN line = 1..Len(line)
      /\ \A k \in 1..Len(line) : longer[k] = line[k]
      /\ longer[Len(line) + 1] = n
  OBVIOUS
<1> HIDE DEF longer
<1>2. \A k \in DOMAIN line : k \in DOMAIN longer /\ longer[k] = line[k]
  BY <1>1
<1>3. ASSUME NEW i, i \in LineIds(line) PROVE i \in LineIds(longer)
  <2>1. \E k \in DOMAIN line : i \in IdsOf(line[k])
    BY <1>3, LineIdsMember
  <2>2. \E k \in DOMAIN longer : i \in IdsOf(longer[k])
    BY <1>2, <2>1
  <2> QED BY <2>2, LineIdsMember
<1>4. ASSUME NEW i, i \in IdsOf(n) PROVE i \in LineIds(longer)
  <2>1. \E k \in DOMAIN longer : i \in IdsOf(longer[k])
    BY <1>1, <1>4
  <2> QED BY <2>1, LineIdsMember
<1>5. ASSUME NEW i, i \in LineIds(longer), i \notin IdsOf(n)
      PROVE  i \in LineIds(line)
  <2>1. PICK k \in DOMAIN longer : i \in IdsOf(longer[k])
    BY <1>5, LineIdsMember
  <2>2. k \in DOMAIN line /\ longer[k] = line[k]
    BY <1>1, <1>5, <2>1
  <2>3. \E m \in DOMAIN line : i \in IdsOf(line[m])
    BY <2>1, <2>2
  <2> QED BY <2>3, LineIdsMember
<1> QED BY <1>1, <1>3, <1>4, <1>5 DEF longer

-----------------------------------------------------------------------------
(* The next candidate *)

\* The top of the stack becomes the candidate: the line is the same.
LEMMA PopStackKeeps ==
    ASSUME TypeInv, KeptInv, PopStack
    PROVE  KeptInv'
<1>1. /\ stack \in Seq(Node) /\ stack # <<>> /\ cur = <<>> /\ pc = "iter"
      /\ cur' = <<stack[Len(stack)]>>
      /\ stack' = SubSeq(stack, 1, Len(stack) - 1)
      /\ UNCHANGED <<state, deleted, pending, pc, update, retry, seen, received, arriving>>
  BY DEF PopStack, store, history, TypeInv, TypeOK
<1>2. Line' = Line
  <2>1. Line = stack /\ Line' = Append(stack', stack[Len(stack)])
    BY <1>1 DEF Line
  <2> QED BY <1>1, <2>1
<1>3. cur' # <<>>
  BY <1>1
<1>4. Phases'
  BY <1>1 DEF KeptInv, Phases
<1>5. LineWaits'
  BY <1>1, <1>2, <1>3 DEF KeptInv, LineWaits, Contains, Waits
<1>6. QueueBehindLine'
  BY <1>1, <1>2 DEF KeptInv, QueueBehindLine
<1>7. Parked'
  BY <1>1, <1>2 DEF KeptInv, Parked, Gone, InLine, Blocked, Contains
<1>8. SeenKept' /\ ArrivingKept'
  BY <1>1, <1>2 DEF KeptInv, SeenKept, ArrivingKept, InUpdate, Integrated
<1> QED BY <1>4, <1>5, <1>6, <1>7, <1>8 DEF KeptInv

\* What popping node n of client c for the end of the line, and nothing else,
\* leaves true.
LEMMA PopKeeps ==
    ASSUME TypeInv, [Next]_vars, KeptInv, pc = "iter",
           NEW c \in Client, NEW n \in update.structs[c], n \in Front(update.structs[c]),
           update' = Pop(update, n), cur' = <<n>>,
           UNCHANGED <<state, pending, pc, seen, arriving>>,
           Line' = Append(Line, n)
    PROVE  Phases' /\ QueueBehindLine' /\ Parked' /\ SeenKept' /\ ArrivingKept'
<1>1. /\ update \in Update /\ n \in Node /\ n.client = c /\ c \in Client
      /\ n.clock \in Nat
  BY PopType, NodeIsId DEF TypeInv, TypeOK, NodesWellFormed
<1>2. /\ update'.pstructs = update.pstructs
      /\ \A d \in Client : update'.structs[d] \subseteq update.structs[d]
      /\ \A i \in Ids(update.structs) : i \in IdsOf(n) \/ i \in Ids(update'.structs)
  BY <1>1, PopMoves
<1>3. /\ Line \in Seq(Node)
      /\ Len(Line') = Len(Line) + 1 /\ Len(Line) \in Nat
      /\ DOMAIN Line' = 1..Len(Line) + 1 /\ DOMAIN Line = 1..Len(Line)
      /\ \A k \in 1..Len(Line) : Line'[k] = Line[k]
      /\ Line'[Len(Line) + 1] = n
      /\ \A i : i \in LineIds(Line') <=> i \in LineIds(Line) \/ i \in IdsOf(n)
  BY <1>1, LineType, LineAppend
<1>4. Phases'
  BY DEF KeptInv, Phases
<1>5. QueueBehindLine'
  <2> SUFFICES ASSUME NEW i \in DOMAIN Line', NEW m \in update'.structs[Line'[i].client]
               PROVE  Line'[i].clock <= m.clock
    BY DEF QueueBehindLine
  <2>1. CASE i = Len(Line) + 1
    <3>1. Line'[i] = n /\ m \in update.structs[c]
      BY <1>1, <1>2, <1>3, <2>1
    <3> QED BY <3>1 DEF Front
  <2>2. CASE i # Len(Line) + 1
    <3>1. i \in DOMAIN Line /\ Line'[i] = Line[i]
      BY <1>3, <2>2
    <3>2. Line[i].client \in Client
      BY <3>1, LineType, NodeIsId
    <3> QED BY <1>2, <3>1, <3>2 DEF KeptInv, QueueBehindLine
  <2> QED BY <2>1, <2>2
<1>6. Parked'
  <2>1. \A d \in Client : Gone(d) => Gone(d)'
    <3> SUFFICES ASSUME NEW d \in Client, Gone(d) PROVE Gone(d)'
      OBVIOUS
    <3>1. d # c /\ update'.structs[d] = {}
      BY <1>2 DEF Gone
    <3>2. ~ \E i \in DOMAIN Line' : Line'[i].client = d
      BY <1>1, <1>3, <3>1 DEF Gone, InLine
    <3> QED BY <3>1, <3>2 DEF Gone, InLine
  <2> SUFFICES ASSUME NEW d \in Client, NEW m \in update.pstructs[d]
               PROVE  Gone(d)' /\ Blocked(m)'
    BY <1>2 DEF Parked
  <2>2. Gone(d) /\ Blocked(m) /\ m \in Node
    BY DEF KeptInv, Parked, TypeInv, TypeOK, Update
  <2>3. \A j \in DepsOf(IdOf(m)) : j[1] \in Client
    BY <2>2, NodeIsId, DepsAreIds DEF Id
  <2> QED BY <2>1, <2>2, <2>3 DEF Blocked, Contains
<1>7. \A i \in Id : i \in InUpdate => Integrated(i)' \/ i \in InUpdate'
  BY <1>2, <1>3 DEF InUpdate
<1>8. SeenKept' /\ ArrivingKept'
  BY <1>7, MoveKeeps DEF KeptInv
<1> QED BY <1>4, <1>5, <1>6, <1>8

\* The highest client's first node becomes the candidate.
LEMMA PopQueueKeeps ==
    ASSUME TypeInv, [Next]_vars, KeptInv,
           NEW c \in Client, NEW n \in update.structs[c], PopQueue(c, n)
    PROVE  KeptInv'
<1>1. /\ cur = <<>> /\ stack = <<>> /\ pc = "iter"
      /\ n \in Front(update.structs[c])
      /\ update' = Pop(update, n) /\ cur' = <<n>> /\ stack' = <<>>
      /\ UNCHANGED <<state, pending, pc, seen, arriving>>
  BY DEF PopQueue, store, history
<1>2. Line = <<>> /\ Line' = <<n>> /\ cur' # <<>>
  BY <1>1 DEF Line
<1>3. Phases' /\ QueueBehindLine' /\ Parked' /\ SeenKept' /\ ArrivingKept'
  BY <1>1, <1>2, PopKeeps
<1>4. LineWaits'
  BY <1>1, <1>2 DEF LineWaits
<1> QED BY <1>3, <1>4 DEF KeptInv

\* The iterator turns to the client the candidate waits for.
LEMMA TurnKeeps ==
    ASSUME TypeInv, [Next]_vars, KeptInv,
           NEW d \in Client, NEW n \in update.structs[d], TurnToDep(d, n)
    PROVE  KeptInv'
<1>1. /\ cur # <<>> /\ pc = "iter" /\ Contains(cur[1]) /\ d \in MissingClients(cur[1])
      /\ n \in Front(update.structs[d])
      /\ update' = Pop(update, n) /\ cur' = <<n>> /\ stack' = Append(stack, cur[1])
      /\ UNCHANGED <<state, pending, pc, seen, arriving>>
  BY DEF TurnToDep, Iterating, store, history
<1>2. Line = Append(stack, cur[1]) /\ Line' = Append(Line, n) /\ cur' # <<>>
  BY <1>1 DEF Line
<1>3. Phases' /\ QueueBehindLine' /\ Parked' /\ SeenKept' /\ ArrivingKept'
  BY <1>1, <1>2, PopKeeps
<1>4. n \in Node /\ n.client = d
  BY PopType DEF TypeInv, TypeOK, NodesWellFormed
<1>5. Waits(cur[1], n)
  BY <1>1, <1>4 DEF MissingClients, MissingDeps, IsMissing, Waits, DepsOf
<1>6. LineWaits'
  <2>1. /\ Len(Line) \in Nat /\ Len(Line') = Len(Line) + 1
        /\ \A k \in 1..Len(Line) : Line'[k] = Line[k]
        /\ Line'[Len(Line) + 1] = n
    BY <1>2, <1>4, LineType, LineAppend
  <2>2. Len(Line) > 0 /\ Line[Len(Line)] = cur[1]
    BY <1>1, <1>2 DEF TypeInv, TypeOK
  <2> SUFFICES ASSUME NEW k \in 1..Len(Line'), k < Len(Line')
               PROVE  (Contains(Line[k]) /\ Waits(Line[k], Line[k + 1]))'
    BY <1>2 DEF LineWaits
  <2>3. k \in 1..Len(Line) /\ Line'[k] = Line[k]
    BY <2>1
  <2>4. CASE k = Len(Line)
    <3>1. Line'[k] = cur[1] /\ Line'[k + 1] = n
      BY <2>1, <2>2, <2>3, <2>4
    <3> QED BY <1>1, <1>5, <3>1 DEF Contains, Waits
  <2>5. CASE k # Len(Line)
    <3>1. k + 1 \in 1..Len(Line) /\ k < Len(Line)
      BY <2>1, <2>3, <2>5
    <3>2. Line'[k + 1] = Line[k + 1]
      BY <2>1, <3>1
    <3> QED BY <1>1, <2>3, <3>1, <3>2 DEF KeptInv, LineWaits, Contains, Waits
  <2> QED BY <2>4, <2>5
<1> QED BY <1>3, <1>6 DEF KeptInv

-----------------------------------------------------------------------------
(* Parking *)

\* add_stack_to_rest, of a stack that holds no client twice: each client of
\* it has its node and its queue parked, the others keep what they had.
LEMMA StackToRestMoves ==
    ASSUME NEW u \in Update, NEW st \in Seq(Node),
           \A a, b \in DOMAIN st : a < b => st[a].client # st[b].client
    PROVE  /\ \A k \in DOMAIN st :
                  /\ StackToRest(u, st).structs[st[k].client] = {}
                  /\ StackToRest(u, st).pstructs[st[k].client]
                         = {st[k]} \cup u.structs[st[k].client]
           /\ \A c \in Client : (\A k \in DOMAIN st : st[k].client # c) =>
                  /\ StackToRest(u, st).structs[c] = u.structs[c]
                  /\ StackToRest(u, st).pstructs[c] = u.pstructs[c]
<1> DEFINE Last(c) == {st[i] : i \in {i \in StackOf(st, c) : \A j \in StackOf(st, c) : j <= i}}
<1>1. \A c \in Client :
          /\ StackToRest(u, st).structs[c] = IF StackOf(st, c) = {} THEN u.structs[c] ELSE {}
          /\ StackToRest(u, st).pstructs[c] =
                 IF StackOf(st, c) = {} THEN u.pstructs[c]
                 ELSE Last(c) \cup
                      (IF \A i, j \in StackOf(st, c) : i = j THEN u.structs[c] ELSE {})
  BY DEF StackToRest, Update
<1>2. ASSUME NEW k \in DOMAIN st
      PROVE  StackOf(st, st[k].client) = {k} /\ Last(st[k].client) = {st[k]}
  <2>1. DOMAIN st \subseteq Nat
    OBVIOUS
  <2>2. \A b \in DOMAIN st : b # k => st[b].client # st[k].client
    BY <2>1
  <2>3. StackOf(st, st[k].client) = {k}
    BY <2>2 DEF StackOf
  <2> QED BY <2>1, <2>3
<1>3. \A k \in DOMAIN st : st[k].client \in Client
  <2>1. \A k \in DOMAIN st : st[k] \in Node
    OBVIOUS
  <2> QED BY <2>1, NodeIsId
<1>4. ASSUME NEW c \in Client, \A k \in DOMAIN st : st[k].client # c
      PROVE  StackOf(st, c) = {}
  BY <1>4 DEF StackOf
<1> HIDE DEF Last
<1>5. ASSUME NEW k \in DOMAIN st
      PROVE  /\ StackToRest(u, st).structs[st[k].client] = {}
             /\ StackToRest(u, st).pstructs[st[k].client]
                    = {st[k]} \cup u.structs[st[k].client]
  <2> DEFINE c == st[k].client
  <2>1. StackOf(st, c) = {k} /\ Last(c) = {st[k]} /\ c \in Client
    BY <1>2, <1>3
  <2> HIDE DEF c
  <2>2. StackOf(st, c) # {} /\ \A i, j \in StackOf(st, c) : i = j
    BY <2>1
  <2>3. StackToRest(u, st).structs[c] = {} /\ StackToRest(u, st).pstructs[c] = {st[k]} \cup u.structs[c]
    BY <1>1, <2>1, <2>2
  <2> QED BY <2>3 DEF c
<1> QED BY <1>1, <1>4, <1>5

\* No node gets lost on the way from the line and the queues to the rest.
LEMMA ParkLosesNothing ==
    ASSUME NEW u \in Update, NEW st \in Seq(Node),
           \A a, b \in DOMAIN st : a < b => st[a].client # st[b].client,
           \A k \in DOMAIN st : u.pstructs[st[k].client] = {},
           NEW i, i \in Ids(u.structs) \cup Ids(u.pstructs) \cup LineIds(st)
    PROVE  \/ i \in Ids(StackToRest(u, st).structs)
           \/ i \in Ids(StackToRest(u, st).pstructs)
<1> DEFINE w == StackToRest(u, st)
<1>1. /\ \A k \in DOMAIN st : w.pstructs[st[k].client] = {st[k]} \cup u.structs[st[k].client]
      /\ \A c \in Client : (\A k \in DOMAIN st : st[k].client # c) =>
             w.structs[c] = u.structs[c] /\ w.pstructs[c] = u.pstructs[c]
  BY StackToRestMoves
<1> HIDE DEF w
<1> SUFFICES \E c \in Client : \E n \in w.structs[c] \cup w.pstructs[c] : i \in IdsOf(n)
  <2>1. i \in Ids(w.structs) <=> \E c \in Client : \E n \in w.structs[c] : i \in IdsOf(n)
    BY IdsMember
  <2>2. i \in Ids(w.pstructs) <=> \E c \in Client : \E n \in w.pstructs[c] : i \in IdsOf(n)
    BY IdsMember
  <2> QED BY <2>1, <2>2 DEF w
<1>2. CASE i \in LineIds(st)
  <2>1. PICK k \in DOMAIN st : i \in IdsOf(st[k])
    BY <1>2, LineIdsMember
  <2>2. st[k] \in Node /\ st[k] \in w.pstructs[st[k].client]
    BY <1>1
  <2>3. st[k].client \in Client
    BY <2>2, NodeIsId
  <2> QED BY <2>1, <2>2, <2>3
<1>3. ASSUME NEW c \in Client, NEW n \in u.structs[c], i \in IdsOf(n)
      PROVE  n \in w.structs[c] \cup w.pstructs[c]
  <2>1. CASE \E k \in DOMAIN st : st[k].client = c
    <3>1. PICK k \in DOMAIN st : st[k].client = c
      BY <2>1
    <3>2. w.pstructs[c] = {st[k]} \cup u.structs[c]
      BY <1>1, <3>1
    <3> QED BY <3>2
  <2>2. CASE \A k \in DOMAIN st : st[k].client # c
    <3>1. w.structs[c] = u.structs[c]
      BY <1>1, <2>2
    <3> QED BY <3>1
  <2> QED BY <2>1, <2>2
<1>4. ASSUME NEW c \in Client, NEW n \in u.pstructs[c], i \in IdsOf(n)
      PROVE  n \in w.pstructs[c]
  BY <1>1
<1>5. CASE i \in Ids(u.structs)
  <2>1. PICK c \in Client : \E n \in u.structs[c] : i \in IdsOf(n)
    BY <1>5, IdsMember
  <2>2. PICK n \in u.structs[c] : i \in IdsOf(n)
    BY <2>1
  <2>3. n \in w.structs[c] \cup w.pstructs[c]
    BY <1>3, <2>2
  <2> QED BY <2>2, <2>3
<1>6. CASE i \in Ids(u.pstructs)
  <2>1. PICK c \in Client : \E n \in u.pstructs[c] : i \in IdsOf(n)
    BY <1>6, IdsMember
  <2>2. PICK n \in u.pstructs[c] : i \in IdsOf(n)
    BY <2>1
  <2>3. n \in w.structs[c] \cup w.pstructs[c]
    BY <1>4, <2>2
  <2> QED BY <2>2, <2>3
<1> QED BY <1>2, <1>5, <1>6

\* Parking the line, when the candidate leaves a gap or what it waits for is
\* not in the update: every node parked this way is blocked, for a client of
\* which the iterator has nothing left.
LEMMA ParkKeeps ==
    ASSUME Safe, [Next]_vars, Iterating,
           update'.structs = StackToRest(update, Append(stack, cur[1])).structs,
           update'.pstructs = StackToRest(update, Append(stack, cur[1])).pstructs,
           stack' = <<>>, cur' = <<>>,
           UNCHANGED <<state, pending, pc, seen, arriving>>,
           \/ ~Contains(cur[1])
           \/ \E j \in DepsOf(IdOf(cur[1])) :
                 /\ j[1] # cur[1].client /\ state[j[1]] <= j[2]
                 /\ update.structs[j[1]] = {}
    PROVE  KeptInv'
<1>1. /\ Line = Append(stack, cur[1]) /\ Line' = <<>> /\ pc = "iter"
      /\ update'.structs = StackToRest(update, Line).structs
      /\ update'.pstructs = StackToRest(update, Line).pstructs
  BY DEF Line, Iterating
<1>2. TypeInv /\ CausallyClosed /\ KeptInv /\ update \in Update
  BY DEF Safe, TypeInv, TypeOK
<1>3. /\ Line \in Seq(Node) /\ Len(Line) \in Nat /\ DOMAIN Line = 1..Len(Line)
      /\ \A k \in DOMAIN Line : /\ Line[k] \in Node /\ Line[k].client \in Client
                                /\ Line[k].clock \in Nat /\ IdOf(Line[k]) \in Id
  BY <1>2, LineType, NodeIsId
<1>4. \A a, b \in DOMAIN Line : a < b => Line[a].client # Line[b].client
  BY <1>2, LineDistinct DEF KeptInv
<1>5. \A k \in DOMAIN Line : update.pstructs[Line[k].client] = {}
  BY <1>2, <1>3 DEF KeptInv, Parked, Gone, InLine
<1>6. /\ \A k \in DOMAIN Line :
             /\ update'.structs[Line[k].client] = {}
             /\ update'.pstructs[Line[k].client] = {Line[k]} \cup update.structs[Line[k].client]
      /\ \A c \in Client : (\A k \in DOMAIN Line : Line[k].client # c) =>
             /\ update'.structs[c] = update.structs[c]
             /\ update'.pstructs[c] = update.pstructs[c]
  <2> DEFINE w == StackToRest(update, Line)
  <2>1. /\ \A k \in DOMAIN Line :
               /\ w.structs[Line[k].client] = {}
               /\ w.pstructs[Line[k].client] = {Line[k]} \cup update.structs[Line[k].client]
        /\ \A c \in Client : (\A k \in DOMAIN Line : Line[k].client # c) =>
               w.structs[c] = update.structs[c] /\ w.pstructs[c] = update.pstructs[c]
    BY <1>2, <1>3, <1>4, StackToRestMoves
  <2> HIDE DEF w
  <2>2. update'.structs = w.structs /\ update'.pstructs = w.pstructs
    BY <1>1 DEF w
  <2> QED BY <2>1, <2>2
<1>7. \A c \in Client : update.structs[c] = {} => update'.structs[c] = {}
  BY <1>6
<1>8. Phases' /\ LineWaits' /\ QueueBehindLine'
  BY <1>1, <1>2 DEF KeptInv, Phases, LineWaits, QueueBehindLine
<1>9. \A c \in Client : Gone(c)' <=> update'.structs[c] = {}
  BY <1>1 DEF Gone, InLine
<1>10. ASSUME NEW k \in DOMAIN Line
       PROVE  \/ ~Contains(Line[k])
              \/ \E j \in DepsOf(IdOf(Line[k])) :
                    j[1] # Line[k].client /\ state[j[1]] <= j[2] /\ Gone(j[1])'
  <2>1. \A j \in DepsOf(IdOf(Line[k])) : j[1] \in Client
    BY <1>3, DepsAreIds DEF Id
  <2>2. CASE k = Len(Line)
    <3>1. Line[k] = cur[1]
      BY <1>1, <2>2 DEF Iterating, TypeInv, TypeOK
    <3> QED BY <1>7, <1>9, <2>1, <3>1
  <2>3. CASE k # Len(Line)
    <3>1. k \in 1..Len(Line) /\ k < Len(Line) /\ k + 1 \in DOMAIN Line
      BY <1>3, <2>3
    <3>2. PICK j \in DepsOf(IdOf(Line[k])) :
              j[1] = Line[k + 1].client /\ j[1] # Line[k].client /\ state[j[1]] <= j[2]
      BY <1>2, <3>1 DEF KeptInv, LineWaits, Waits
    <3>3. Gone(j[1])'
      BY <1>6, <1>9, <2>1, <3>1, <3>2
    <3> QED BY <3>2, <3>3
  <2> QED BY <2>2, <2>3
<1>11. Parked'
  <2> SUFFICES ASSUME NEW c \in Client, NEW n \in update'.pstructs[c]
               PROVE  (Gone(c) /\ Blocked(n))'
    BY DEF Parked
  <2>1. CASE \A k \in DOMAIN Line : Line[k].client # c
    <3>1. Gone(c) /\ Blocked(n) /\ n \in Node
      BY <1>2, <1>6, <2>1 DEF KeptInv, Parked, Update
    <3>2. \A j \in DepsOf(IdOf(n)) : j[1] \in Client /\ (Gone(j[1]) => Gone(j[1])')
      BY <1>7, <1>9, <3>1, NodeIsId, DepsAreIds DEF Id, Gone
    <3>3. Gone(c)'
      BY <1>7, <1>9, <3>1 DEF Gone
    <3> QED BY <3>1, <3>2, <3>3 DEF Blocked, Contains
  <2>2. ASSUME NEW k \in DOMAIN Line, Line[k].client = c
        PROVE  (Gone(c) /\ Blocked(n))'
    <3> DEFINE p == Line[k]
    <3>1. Gone(c)'
      BY <1>6, <1>9, <2>2
    <3>2. /\ n \in Node /\ n.client = c /\ n.clock \in Nat
          /\ p \in Node /\ p.client = c /\ p.clock \in Nat /\ IdOf(p) = <<c, p.clock>>
          /\ p.clock <= n.clock
      <4>4. p \in Node /\ p.client = c /\ p.clock \in Nat /\ IdOf(p) = <<c, p.clock>>
        BY <1>3, <2>2 DEF IdOf
      <4>1. n = p \/ n \in update.structs[c]
        BY <1>6, <2>2
      <4>2. CASE n = p
        BY <4>4, <4>2
      <4>3. CASE n \in update.structs[c]
        <5>1. n \in Node /\ n.client = c
          BY <1>2, <4>3 DEF TypeInv, NodesWellFormed, WellFiled, Update
        <5>2. p.clock <= n.clock
          BY <1>2, <2>2, <4>3 DEF KeptInv, QueueBehindLine
        <5> QED BY <4>4, <5>1, <5>2, NodeIsId
      <4> HIDE DEF p
      <4> QED BY <4>1, <4>2, <4>3
    <3>3. state[c] \in Nat
      BY <1>2, StateIsNat
    <3>4. CASE ~Contains(p) \/ n.clock > state[c]
      BY <3>1, <3>2, <3>3, <3>4 DEF Blocked, Contains
    <3>5. CASE Contains(p) /\ ~(n.clock > state[c])
      <4>1. PICK j \in DepsOf(IdOf(p)) :
                j[1] # p.client /\ state[j[1]] <= j[2] /\ Gone(j[1])'
        BY <1>10, <3>5
      <4>2. IdOf(p) \in Id /\ j \in Id /\ j[1] \in Client /\ j[2] \in Nat /\ state[j[1]] \in Nat
        <5>1. IdOf(p) \in Id
          BY <1>3
        <5>2. j \in Id
          BY <5>1, DepsAreIds
        <5>3. j[1] \in Client /\ j[2] \in Nat
          BY <5>2, ConstantsAssumption DEF Id
        <5> QED BY <1>2, <5>1, <5>2, <5>3, StateIsNat
      <4>3. ~Integrated(j)
        BY <4>1, <4>2 DEF Integrated
      <4>4. ~Integrated(IdOf(p))
        BY <1>2, <4>1, <4>2, <4>3 DEF CausallyClosed
      <4>5. n.clock = p.clock
        <5>1. ~(p.clock < state[c])
          BY <3>2, <4>4 DEF Integrated
        <5> QED BY <3>2, <3>3, <3>5, <5>1
      <4>6. IdOf(n) = IdOf(p)
        BY <3>2, <4>5 DEF IdOf
      <4> QED BY <3>1, <3>2, <4>1, <4>6 DEF Blocked
    <3> QED BY <3>4, <3>5
  <2> QED BY <2>1, <2>2
<1>12. SeenKept' /\ ArrivingKept'
  <2>1. \A i \in InUpdate : i \in InUpdate'
    <3> SUFFICES ASSUME NEW i \in InUpdate
                 PROVE  i \in Ids(update'.structs) \/ i \in Ids(update'.pstructs)
      BY DEF InUpdate
    <3>1. i \in Ids(update.structs) \cup Ids(update.pstructs) \cup LineIds(Line)
      BY DEF InUpdate
    <3> QED BY <1>1, <1>2, <1>3, <1>4, <1>5, <3>1, ParkLosesNothing
  <2> QED BY <1>1, <1>2, <2>1, MoveKeeps DEF KeptInv
<1> QED BY <1>8, <1>11, <1>12 DEF KeptInv

\* Both ways the iterator parks.
LEMMA ParkingKeeps ==
    ASSUME Safe, [Next]_vars, ParkGap \/ \E d \in Client : ParkMissingDep(d)
    PROVE  KeptInv'
<1> DEFINE w == StackToRest(update, Append(stack, cur[1]))
<1>1. w \in Update
  <2>1. cur[1] \in Node /\ WellFormed(cur[1])
    BY DEF Safe, ParkGap, ParkMissingDep, Iterating, TypeInv, TypeOK, NodesWellFormed
  <2>2. /\ Append(stack, cur[1]) \in Seq(Node)
        /\ \A i \in DOMAIN Append(stack, cur[1]) : WellFormed(Append(stack, cur[1])[i])
    BY <2>1 DEF Safe, TypeInv, TypeOK, NodesWellFormed
  <2> QED BY <2>2, StackToRestType DEF Safe, TypeInv, TypeOK, NodesWellFormed
<1>2. /\ Iterating /\ stack' = <<>> /\ cur' = <<>>
      /\ UNCHANGED <<state, pending, pc, seen, arriving>>
      /\ \E m : update' = [w EXCEPT !.missing = m]
  BY DEF ParkGap, ParkMissingDep, store, history
<1>3. update'.structs = w.structs /\ update'.pstructs = w.pstructs
  <2> HIDE DEF w
  <2> QED BY <1>1, <1>2 DEF Update
<1>4. \/ ~Contains(cur[1])
      \/ \E j \in DepsOf(IdOf(cur[1])) :
             /\ j[1] # cur[1].client /\ state[j[1]] <= j[2]
             /\ update.structs[j[1]] = {}
  <2>1. CASE ParkGap
    BY <2>1 DEF ParkGap
  <2>2. ASSUME NEW d \in Client, ParkMissingDep(d)
        PROVE  \E j \in DepsOf(IdOf(cur[1])) :
                   /\ j[1] # cur[1].client /\ state[j[1]] <= j[2]
                   /\ update.structs[j[1]] = {}
    <3>1. PICK k \in MissingDeps(cur[1]) : d = Deps[IdOf(cur[1])][k][1]
      BY <2>2 DEF ParkMissingDep, MissingClients
    <3> DEFINE j == Deps[IdOf(cur[1])][k]
    <3>2. j \in DepsOf(IdOf(cur[1])) /\ IsMissing(j, cur[1].client)
      BY <3>1 DEF MissingDeps, DepsOf
    <3> QED BY <2>2, <3>1, <3>2 DEF IsMissing, ParkMissingDep
  <2> QED BY <2>1, <2>2
<1> HIDE DEF w
<1> QED BY <1>2, <1>3, <1>4, ParkKeeps DEF w

-----------------------------------------------------------------------------
(* Integrating *)

\* The candidate leaves the line, and the store has all of it: the rest of the
\* line and what is parked waits for other clients.
LEMMA DoneKeeps ==
    ASSUME Safe, [Next]_vars, Iterating, cur' = <<>>,
           UNCHANGED <<update, stack, pending, pc, seen, arriving>>,
           \A c \in Client : c # cur[1].client => state'[c] = state[c],
           End(cur[1]) <= state'[cur[1].client]
    PROVE  KeptInv'
<1> DEFINE n == cur[1]
<1>1. /\ Line = Append(stack, n) /\ Line' = stack /\ pc = "iter"
      /\ TypeInv /\ KeptInv /\ stack \in Seq(Node) /\ n \in Node
  BY DEF Line, Iterating, Safe, TypeInv, TypeOK
<1> HIDE DEF n
<1>2. /\ Len(Line) = Len(stack) + 1 /\ Len(stack) \in Nat
      /\ DOMAIN Line = 1..Len(stack) + 1
      /\ DOMAIN stack = 1..Len(stack)
      /\ \A k \in 1..Len(stack) : Line[k] = stack[k]
      /\ Line[Len(stack) + 1] = n
      /\ \A i : i \in LineIds(Line) <=> i \in LineIds(stack) \/ i \in IdsOf(n)
  BY <1>1, LineAppend
<1>3. \A k \in DOMAIN stack : stack[k].client # n.client /\ stack[k].client \in Client
  <2> SUFFICES ASSUME NEW k \in DOMAIN stack
               PROVE  stack[k].client # n.client /\ stack[k].client \in Client
    OBVIOUS
  <2>1. k \in DOMAIN Line /\ Len(stack) + 1 \in DOMAIN Line /\ k < Len(stack) + 1
    BY <1>2
  <2>2. Line[k].client # Line[Len(stack) + 1].client
    BY <1>1, <2>1, LineDistinct DEF KeptInv
  <2>3. Line[k].client \in Client
    BY <1>1, <2>1, LineType, NodeIsId
  <2> QED BY <1>2, <2>2, <2>3
<1>4. \A c \in Client : state[c] \in Nat /\ state'[c] \in Nat /\ state'[c] >= state[c]
  BY <1>1, StateRises
<1>5. \A c \in Client : c # n.client => state'[c] = state[c]
  BY DEF n
<1>6. Phases'
  BY <1>1 DEF KeptInv, Phases, Iterating
<1>7. LineWaits'
  <2> SUFFICES ASSUME NEW k \in 1..Len(stack)
               PROVE  /\ Contains(stack[k])'
                      /\ k < Len(stack) => Waits(stack[k], stack[k + 1])'
    BY <1>1 DEF LineWaits
  <2>1. /\ Contains(stack[k])
        /\ k < Len(stack) => Waits(stack[k], stack[k + 1])
    BY <1>1, <1>2 DEF KeptInv, LineWaits
  <2>2. Contains(stack[k])'
    <3>1. stack[k].clock \in Nat /\ stack[k].client \in Client
      BY <1>1, <1>2, NodeIsId
    <3> QED BY <1>4, <2>1, <3>1 DEF Contains
  <2>3. ASSUME k < Len(stack) PROVE Waits(stack[k], stack[k + 1])'
    <3>1. state'[stack[k + 1].client] = state[stack[k + 1].client]
      BY <1>2, <1>3, <1>5, <2>3
    <3> QED BY <2>1, <2>3, <3>1 DEF Waits
  <2> QED BY <2>2, <2>3
<1>8. QueueBehindLine'
  BY <1>1, <1>2 DEF KeptInv, QueueBehindLine
<1>9. \A c \in Client : Gone(c) => c # n.client /\ Gone(c)'
  BY <1>1, <1>2 DEF Gone, InLine
<1>10. Parked'
  <2> SUFFICES ASSUME NEW c \in Client, NEW m \in update.pstructs[c]
               PROVE  (Gone(c) /\ Blocked(m))'
    BY DEF Parked
  <2>1. Gone(c) /\ Blocked(m) /\ m \in Node /\ m.client = c
    BY <1>1 DEF KeptInv, Parked, TypeInv, TypeOK, NodesWellFormed, WellFiled, Update
  <2>2. state'[c] = state[c] /\ Gone(c)'
    BY <1>5, <1>9, <2>1
  <2>3. \A j \in DepsOf(IdOf(m)) : j[1] \in Client
    BY <2>1, NodeIsId, DepsAreIds DEF Id
  <2>4. CASE ~Contains(m)
    BY <2>1, <2>2, <2>4 DEF Blocked, Contains
  <2>5. CASE Contains(m)
    <3>1. PICK j \in DepsOf(IdOf(m)) : j[1] # m.client /\ state[j[1]] <= j[2] /\ Gone(j[1])
      BY <2>1, <2>5 DEF Blocked
    <3>2. state'[j[1]] = state[j[1]] /\ Gone(j[1])'
      BY <1>5, <1>9, <2>3, <3>1
    <3> QED BY <2>2, <3>1, <3>2 DEF Blocked
  <2> QED BY <2>4, <2>5
<1>11. \A i \in IdsOf(n) : Integrated(i)'
  <2>1. n.client \in Client /\ n.clock \in Int /\ End(n) \in Int
    BY <1>1, ConstantsAssumption DEF Node, End
  <2>2. End(n) <= state'[n.client] /\ state'[n.client] \in Int
    BY <1>4, <2>1 DEF n
  <2> SUFFICES ASSUME NEW k \in n.clock..End(n) - 1 PROVE k < state'[n.client]
    BY DEF IdsOf, Integrated
  <2> QED BY <2>1, <2>2
<1>12. \A i \in Id : i \in InUpdate => Integrated(i)' \/ i \in InUpdate'
  BY <1>1, <1>2, <1>11 DEF InUpdate
<1>13. SeenKept' /\ ArrivingKept'
  BY <1>1, <1>12, MoveKeeps DEF KeptInv
<1> QED BY <1>6, <1>7, <1>8, <1>10, <1>13 DEF KeptInv

\* Integrate moves its client's clock to the end of the candidate; DropKnown
\* finds it there.
LEMMA IntegratingKeeps ==
    ASSUME Safe, [Next]_vars, Integrate \/ DropKnown
    PROVE  KeptInv'
<1>1. TypeInv /\ state \in [Client -> Clock]
  BY DEF Safe, TypeInv, TypeOK
<1>2. CASE Integrate
  <2>1. cur[1] \in Node /\ cur[1].client \in Client
    BY <1>2, NodeIsId DEF Integrate, Iterating, Safe, TypeInv, TypeOK
  <2>2. End(cur[1]) \in Nat
    BY <2>1, ConstantsAssumption DEF End, Node
  <2> QED BY <1>1, <1>2, <2>1, <2>2, DoneKeeps DEF Integrate, history
<1>3. CASE DropKnown
  <2>1. /\ Iterating /\ Offset(cur[1]) >= cur[1].len
        /\ UNCHANGED <<state, update, stack, pending, pc, seen, arriving>> /\ cur' = <<>>
    BY <1>3 DEF DropKnown, store, history
  <2>2. cur[1] \in Node /\ cur[1].client \in Client
    BY <2>1, NodeIsId DEF Iterating, Safe, TypeInv, TypeOK
  <2>3. state[cur[1].client] \in Nat /\ cur[1].clock \in Nat /\ cur[1].len \in Nat
    <3>1. cur[1].clock \in Nat /\ cur[1].len \in Nat
      BY <2>2, ConstantsAssumption DEF Node
    <3> QED BY <1>1, <2>2, <3>1, StateIsNat
  <2>4. End(cur[1]) <= state'[cur[1].client]
    BY <2>1, <2>3 DEF Offset, End
  <2> QED BY <2>1, <2>4, DoneKeeps
<1> QED BY <1>2, <1>3

-----------------------------------------------------------------------------
(* The rest of the loop body, and outside it *)

\* There is nothing in an empty queue table, nor in an empty line.
LEMMA NothingInEmpty ==
    Ids(NoQueues) = {} /\ LineIds(<<>>) = {} /\ \A c \in Client : NoQueues[c] = {}
<1>1. \A c \in Client : NoQueues[c] = {}
  BY DEF NoQueues
<1>2. Ids(NoQueues) = {}
  BY <1>1, IdsMember
<1>3. LineIds(<<>>) = {}
  BY DEF LineIds
<1> QED BY <1>1, <1>2, <1>3

\* The end of the pass and its deletes leave every node where it is.
LEMMA PassEndKeeps ==
    ASSUME TypeInv, KeptInv, IterEnd \/ ApplyDeletes
    PROVE  KeptInv'
<1>1. /\ UNCHANGED <<state, pending, stack, cur, seen, arriving>>
      /\ update'.structs = update.structs /\ update'.pstructs = update.pstructs
      /\ pc # "idle" /\ pc' \in {"dels", "settle"}
      /\ stack = <<>> /\ cur = <<>> /\ update.structs = NoQueues
  <2>1. CASE IterEnd
    BY <2>1 DEF IterEnd, store, history
  <2>2. CASE ApplyDeletes
    BY <2>2 DEF ApplyDeletes, AfterDeletes, history, KeptInv, Phases, TypeInv, TypeOK, Update
  <2> QED BY <2>1, <2>2
<1>2. Line' = Line /\ Phases'
  BY <1>1 DEF Line, KeptInv, Phases
<1>3. LineWaits' /\ QueueBehindLine'
  BY <1>1, <1>2 DEF KeptInv, LineWaits, QueueBehindLine, Contains, Waits
<1>4. Parked'
  <2>1. \A c : Gone(c)' <=> Gone(c)
    BY <1>1, <1>2 DEF Gone, InLine
  <2>2. \A n : Contains(n)' <=> Contains(n)
    BY <1>1 DEF Contains
  <2>3. \A n : Blocked(n) => Blocked(n)'
    BY <1>1, <2>1, <2>2 DEF Blocked
  <2>4. Parked
    BY DEF KeptInv
  <2> QED BY <1>1, <2>1, <2>3, <2>4 DEF Parked
<1>5. SeenKept' /\ ArrivingKept'
  BY <1>1, <1>2 DEF KeptInv, SeenKept, ArrivingKept, InUpdate, Integrated
<1> QED BY <1>2, <1>3, <1>4, <1>5 DEF KeptInv

\* Settling on an update that holds what was parked and what was pending.
LEMMA SettleKeeps ==
    ASSUME KeptInv, pc = "settle",
           NEW u \in Update, NEW again \in BOOLEAN, Settle(u, again),
           u.pstructs = NoQueues,
           UNCHANGED <<state, stack, cur, seen>>,
           \A i \in Ids(update.pstructs) \cup Ids(pending.structs) : i \in Ids(u.structs)
    PROVE  KeptInv'
<1>1. stack = <<>> /\ cur = <<>> /\ Line = <<>> /\ Line' = <<>> /\ update.structs = NoQueues
  BY DEF KeptInv, Phases, Line
<1>2. \A i : i \in InUpdate => i \in Ids(update.pstructs)
  BY <1>1, NothingInEmpty DEF InUpdate
<1>3. /\ \A i \in seen : Integrated(i) \/ i \in Ids(u.structs)
      /\ \A i \in arriving : Integrated(i) \/ i \in Ids(u.structs)
  BY <1>2 DEF KeptInv, SeenKept, ArrivingKept
<1>4. NoUpdate.structs = NoQueues /\ NoUpdate.pstructs = NoQueues
  BY DEF NoUpdate
<1>5. CASE again
  <2>1. /\ pc' = "iter" /\ update' = u /\ pending' = NoUpdate /\ arriving' = arriving
    BY <1>5 DEF Settle
  <2>2. Phases'
    BY <1>4, <2>1 DEF Phases
  <2>3. LineWaits' /\ QueueBehindLine' /\ Parked'
    BY <1>1, <2>1, NothingInEmpty DEF LineWaits, QueueBehindLine, Parked
  <2>4. SeenKept' /\ ArrivingKept'
    BY <1>3, <2>1 DEF SeenKept, ArrivingKept, InUpdate, Integrated
  <2> QED BY <2>2, <2>3, <2>4 DEF KeptInv
<1>6. CASE ~again
  <2>1. /\ pc' = "idle" /\ update' = NoUpdate /\ arriving' = {}
        /\ pending'.structs = u.structs /\ pending'.pstructs = NoQueues
    BY <1>4, <1>6 DEF Settle, IsEmpty
  <2>2. Phases'
    BY <1>1, <2>1 DEF Phases
  <2>3. LineWaits' /\ QueueBehindLine' /\ Parked'
    BY <1>1, <1>4, <2>1, NothingInEmpty DEF LineWaits, QueueBehindLine, Parked
  <2>4. SeenKept' /\ ArrivingKept'
    BY <1>3, <2>1 DEF SeenKept, ArrivingKept, Integrated
  <2> QED BY <2>2, <2>3, <2>4 DEF KeptInv
<1> QED BY <1>5, <1>6

\* Whatever was pending is merged with what is left of the update.
LEMMA SettlingKeeps ==
    ASSUME TypeInv, KeptInv, TakePending \/ NoPending
    PROVE  KeptInv'
<1>1. /\ update \in Update /\ pending \in Update /\ pc = "settle"
      /\ update.structs = NoQueues /\ pending.pstructs = NoQueues /\ retry \in BOOLEAN
  BY DEF TakePending, NoPending, KeptInv, Phases, TypeInv, TypeOK
<1> DEFINE d == DrainPendingState(update)
           p == AfterDeletes(pending)
<1>2. d \in Update /\ d.structs = update.pstructs /\ d.pstructs = NoQueues
  BY <1>1 DEF DrainPendingState, Update
<1>3. p \in Update /\ p.structs = pending.structs /\ p.pstructs = NoQueues
  BY <1>1 DEF AfterDeletes, Deletable, Update
<1> HIDE DEF d, p
<1>4. CASE NoPending
  <2>1. pending = NoUpdate /\ Settle(d, FALSE) /\ UNCHANGED <<state, stack, cur, seen>>
    BY <1>4 DEF NoPending, d
  <2>2. \A i \in Ids(update.pstructs) \cup Ids(pending.structs) : i \in Ids(d.structs)
    BY <1>2, <2>1, NothingInEmpty DEF NoUpdate
  <2> QED BY <1>1, <1>2, <2>1, <2>2, SettleKeeps
<1>5. CASE TakePending
  <2> DEFINE u == IF IsPendingEmpty(update) THEN p ELSE MergeInto(d, p)
             again == retry \/ NewlyAvailable(pending)
  <2>1. Settle(u, again) /\ UNCHANGED <<state, stack, cur, seen>> /\ again \in BOOLEAN
    BY <1>1, <1>5 DEF TakePending, d, p
  <2>2. /\ u \in Update /\ u.pstructs = NoQueues
        /\ \A i \in Ids(update.pstructs) \cup Ids(pending.structs) : i \in Ids(u.structs)
    <3>1. CASE IsPendingEmpty(update)
      BY <1>3, <3>1, NothingInEmpty DEF IsPendingEmpty
    <3>2. CASE ~IsPendingEmpty(update)
      <4>1. /\ u \in Update /\ u.pstructs = NoQueues
            /\ \A c \in Client : u.structs[c] = d.structs[c] \cup p.structs[c]
        BY <1>2, <1>3, <3>2 DEF MergeInto, Update
      <4> HIDE DEF u
      <4>2. ASSUME NEW i \in Ids(update.pstructs) \cup Ids(pending.structs)
            PROVE  i \in Ids(u.structs)
        <5>1. i \in Ids(d.structs) \/ i \in Ids(p.structs)
          BY <1>2, <1>3
        <5>2. PICK c \in Client : \E n \in d.structs[c] \cup p.structs[c] : i \in IdsOf(n)
          <6>1. \/ \E c \in Client : \E n \in d.structs[c] : i \in IdsOf(n)
                \/ \E c \in Client : \E n \in p.structs[c] : i \in IdsOf(n)
            BY <5>1, IdsMember
          <6> QED BY <6>1
        <5>3. \E n \in u.structs[c] : i \in IdsOf(n)
          BY <4>1, <5>2
        <5> QED BY <5>3, IdsMember
      <4> QED BY <4>1, <4>2
    <3> QED BY <3>1, <3>2
  <2> HIDE DEF u, again
  <2> QED BY <1>1, <2>1, <2>2, SettleKeeps
<1> QED BY <1>4, <1>5

\* An update is received.
LEMMA ReceiveKeeps ==
    ASSUME TypeInv, KeptInv, NEW u \in Updates, ReceiveUpdate(u)
    PROVE  KeptInv'
<1>1. /\ pc = "idle" /\ pc' = "iter" /\ update = NoUpdate /\ stack = <<>> /\ cur = <<>>
      /\ update' = Decode(u) /\ seen' = seen \cup Ids(u.structs) /\ arriving' = Ids(u.structs)
      /\ UNCHANGED <<state, pending, stack, cur>>
  BY DEF ReceiveUpdate, KeptInv, Phases, store
<1>2. update'.structs = u.structs /\ update'.pstructs = NoQueues
  BY <1>1 DEF Decode, NoUpdate
<1>3. Line = <<>> /\ Line' = <<>>
  BY <1>1 DEF Line
<1>4. \A i : i \notin InUpdate
  BY <1>1, <1>3, NothingInEmpty DEF InUpdate, NoUpdate
<1>5. Phases'
  BY <1>1 DEF KeptInv, Phases
<1>6. LineWaits' /\ QueueBehindLine' /\ Parked'
  BY <1>2, <1>3, NothingInEmpty DEF LineWaits, QueueBehindLine, Parked
<1>7. SeenKept' /\ ArrivingKept'
  BY <1>1, <1>2, <1>4 DEF KeptInv, SeenKept, ArrivingKept, InUpdate, Integrated
<1> QED BY <1>5, <1>6, <1>7 DEF KeptInv

\* The document's own transactions.
LEMMA LocalKeeps ==
    ASSUME TypeInv, [Next]_vars, KeptInv, CreateItem \/ \E i \in Id : DeleteItem(i)
    PROVE  KeptInv'
<1>1. /\ pc = "idle" /\ update = NoUpdate /\ stack = <<>> /\ cur = <<>>
      /\ UNCHANGED <<pending, pc, update, stack, cur, arriving>>
      /\ seen \subseteq Id
  BY DEF CreateItem, DeleteItem, KeptInv, Phases, loop, TypeInv, TypeOK
<1>2. Line = <<>> /\ Line' = <<>> /\ update'.pstructs = NoQueues
  BY <1>1 DEF Line, NoUpdate
<1>3. \A i : i \notin InUpdate
  BY <1>1, <1>2, NothingInEmpty DEF InUpdate, NoUpdate
<1>4. Phases' /\ ArrivingKept'
  BY <1>1 DEF KeptInv, Phases, ArrivingKept
<1>5. LineWaits' /\ QueueBehindLine' /\ Parked'
  BY <1>2, NothingInEmpty DEF LineWaits, QueueBehindLine, Parked
<1>6. \A i \in Id : Integrated(i) => Integrated(i)'
  <2> SUFFICES ASSUME NEW i \in Id, i[2] < state[i[1]] PROVE i[2] < state'[i[1]]
    BY DEF Integrated
  <2>1. i[1] \in Client /\ i[2] \in Nat
    BY ConstantsAssumption DEF Id
  <2> QED BY <2>1, StateRises
<1>7. \A i \in seen' : i \in seen \/ Integrated(i)'
  <2>1. CASE CreateItem
    <3>1. /\ seen' = seen \cup {<<Local, state[Local]>>}
          /\ state' = [state EXCEPT ![Local] = @ + 1]
          /\ state \in [Client -> Clock] /\ state[Local] \in Nat
      BY <2>1, StateIsNat, ConstantsAssumption DEF CreateItem, TypeInv, TypeOK
    <3>2. \A i \in {<<Local, state[Local]>>} : Integrated(i)'
      BY <3>1, ConstantsAssumption DEF Integrated
    <3> QED BY <3>1, <3>2
  <2>2. CASE \E i \in Id : DeleteItem(i)
    BY <2>2 DEF DeleteItem
  <2> QED BY <2>1, <2>2
<1>8. SeenKept'
  BY <1>1, <1>3, <1>6, <1>7 DEF KeptInv, SeenKept
<1> QED BY <1>4, <1>5, <1>8 DEF KeptInv

-----------------------------------------------------------------------------
(* What holds of every behaviour *)

\* KeptInv is inductive, given the types and causal closure.
LEMMA NextKept == Safe /\ [Next]_vars => KeptInv'
<1> SUFFICES ASSUME Safe, [Next]_vars PROVE KeptInv'
  OBVIOUS
<1>1. TypeInv /\ KeptInv
  BY DEF Safe
<1>2. CASE UNCHANGED vars
  <2>1. UNCHANGED <<state, pending, pc, update, stack, cur, seen, arriving>>
    BY <1>2 DEF vars, store, loop, history
  <2>2. Line' = Line
    BY <2>1 DEF Line
  <2> QED BY <1>1, <2>1, <2>2
        DEF KeptInv, Phases, LineWaits, Contains, Waits, QueueBehindLine, Parked, Gone,
            InLine, Blocked, SeenKept, ArrivingKept, InUpdate, Integrated
<1>3. CASE \E u \in Updates : ReceiveUpdate(u)
  BY <1>1, <1>3, ReceiveKeeps
<1>4. CASE CreateItem \/ \E i \in Id : DeleteItem(i)
  BY <1>1, <1>4, LocalKeeps
<1>5. CASE PopStack
  BY <1>1, <1>5, PopStackKeeps
<1>6. CASE \E c \in Client : \E n \in update.structs[c] : PopQueue(c, n)
  BY <1>1, <1>6, PopQueueKeeps
<1>7. CASE \E d \in Client : \E n \in update.structs[d] : TurnToDep(d, n)
  BY <1>1, <1>7, TurnKeeps
<1>8. CASE ParkGap \/ \E d \in Client : ParkMissingDep(d)
  BY <1>8, ParkingKeeps
<1>9. CASE Integrate \/ DropKnown
  BY <1>9, IntegratingKeeps
<1>10. CASE IterEnd \/ ApplyDeletes
  BY <1>1, <1>10, PassEndKeeps
<1>11. CASE TakePending \/ NoPending
  BY <1>1, <1>11, SettlingKeeps
<1> QED BY <1>2, <1>3, <1>4, <1>5, <1>6, <1>7, <1>8, <1>9, <1>10, <1>11 DEF Next, ApplyUpdate

\* A document starts with nothing to lose.
LEMMA InitKept == Init => KeptInv
<1> SUFFICES ASSUME Init PROVE KeptInv
  OBVIOUS
<1>1. /\ Line = <<>> /\ pending.pstructs = NoQueues /\ update = NoUpdate
      /\ update.pstructs = NoQueues /\ pc = "idle" /\ stack = <<>> /\ cur = <<>>
      /\ seen = {} /\ arriving = {}
  BY DEF Init, Line, NoUpdate
<1>2. LineWaits /\ QueueBehindLine /\ Parked
  BY <1>1, NothingInEmpty DEF LineWaits, QueueBehindLine, Parked
<1> QED BY <1>1, <1>2 DEF KeptInv, Phases, SeenKept, ArrivingKept

\* The invariant of the loop of apply_update holds throughout.
THEOREM KeptThroughout == Spec => []Safe
<1>1. Init => KeptInv
  BY InitKept
<1>2. TypeInv /\ CausallyClosed /\ KeptInv /\ [Next]_vars => KeptInv'
  BY NextKept DEF Safe
<1>3. TypeInv /\ CausallyClosed /\ KeptInv => Safe
  BY DEF Safe
<1> QED BY <1>1, <1>2, <1>3, TypeCorrect, Closed, PTL DEF Spec

\* Between updates, every node that ever arrived is integrated or pending.
THEOREM NothingLost == Spec => []NodesKept
<1>1. Safe => NodesKept
  <2> SUFFICES ASSUME Safe, pc = "idle", NEW i \in seen
               PROVE  Integrated(i) \/ i \in Ids(pending.structs)
    BY DEF NodesKept
  <2>1. update = NoUpdate /\ Line = <<>>
    BY DEF Safe, KeptInv, Phases, Line
  <2>2. i \notin InUpdate
    BY <2>1, NothingInEmpty DEF InUpdate, NoUpdate
  <2> QED BY <2>2 DEF Safe, KeptInv, SeenKept
<1> QED BY <1>1, KeptThroughout, PTL

\* The first of the arriving nodes that is not here would be parked, with
\* everything it could wait for here.
LEMMA CompleteAbsorbed ==
    ASSUME Safe, pc = "dels", Complete(arriving), NEW i \in arriving
    PROVE  Integrated(i)
<1> SUFFICES ASSUME ~Integrated(i) PROVE FALSE
  OBVIOUS
<1>1. /\ TypeInv /\ CausallyClosed /\ KeptInv
      /\ arriving \subseteq Id /\ update \in Update /\ WellFiled(update.pstructs)
      /\ stack = <<>> /\ cur = <<>> /\ update.structs = NoQueues
  BY DEF Safe, TypeInv, TypeOK, NodesWellFormed, KeptInv, Phases
<1> DEFINE S == {x \in arriving : ~Integrated(x)}
<1>2. PICK x \in S : Requires(x) \cap S = {}
  <2>1. S \in SUBSET Id /\ S # {}
    BY <1>1
  <2> HIDE DEF S
  <2> QED BY <2>1, HistoryIsAcyclic
<1>3. /\ x \in arriving /\ x \in Id /\ ~Integrated(x)
      /\ x[1] \in Client /\ x[2] \in Nat /\ x = <<x[1], x[2]>> /\ state[x[1]] \in Nat
  <2>1. x \in arriving /\ x \in Id /\ ~Integrated(x)
    BY <1>1
  <2>2. x[1] \in Client /\ x[2] \in Nat /\ x = <<x[1], x[2]>>
    BY <2>1, ConstantsAssumption DEF Id
  <2> QED BY <1>1, <2>1, <2>2, StateIsNat
<1>4. \A y \in Requires(x) : Integrated(y)
  <2>1. \A y \in Requires(x) : y \notin S
    BY <1>2
  <2>2. \A y \in Requires(x) : Integrated(y) \/ y \in arriving
    <3>1. \A j \in DepsOf(x) : Integrated(j) \/ j \in arriving
      BY <1>3 DEF Complete
    <3>2. ASSUME NEW k \in 0..x[2] - 1
          PROVE  Integrated(<<x[1], k>>) \/ <<x[1], k>> \in arriving
      <4>1. k \in 0..x[2]
        BY <1>3
      <4> QED BY <1>3, <4>1 DEF Complete
    <3> QED BY <3>1, <3>2 DEF Requires
  <2> QED BY <2>1, <2>2
<1> HIDE DEF S
<1>5. state[x[1]] = x[2]
  <2>1. ~(x[2] < state[x[1]])
    BY <1>3 DEF Integrated
  <2>2. CASE x[2] > 0
    <3>1. <<x[1], x[2] - 1>> \in Requires(x)
      BY <1>3, <2>2 DEF Requires
    <3>2. x[2] - 1 < state[x[1]]
      BY <1>4, <3>1 DEF Integrated
    <3> QED BY <1>3, <2>1, <3>2
  <2>3. CASE ~(x[2] > 0)
    BY <1>3, <2>1, <2>3
  <2> QED BY <2>2, <2>3
<1>6. PICK c \in Client : \E n \in update.pstructs[c] : x \in IdsOf(n)
  <2>1. x \in InUpdate /\ Line = <<>>
    BY <1>1, <1>3 DEF KeptInv, ArrivingKept, Line
  <2>2. x \in Ids(update.pstructs)
    BY <1>1, <2>1, NothingInEmpty DEF InUpdate
  <2> QED BY <2>2, IdsMember
<1>7. PICK n \in update.pstructs[c] : x \in IdsOf(n)
  BY <1>6
<1>8. n \in Node /\ n.client = x[1] /\ n.clock \in Nat /\ n.clock <= x[2]
  <2>1. n \in Node
    BY <1>1 DEF Update
  <2>2. n.client \in Client /\ n.clock \in Nat /\ End(n) \in Int
    BY <2>1, ConstantsAssumption DEF Node, End
  <2> QED BY <1>7, <2>1, <2>2 DEF IdsOf
<1>9. PICK j \in DepsOf(IdOf(n)) : j[1] # n.client /\ state[j[1]] <= j[2]
  <2>1. Contains(n)
    BY <1>5, <1>8 DEF Contains
  <2> QED BY <1>1, <2>1 DEF KeptInv, Parked, Blocked
<1>10. Integrated(j)
  <2>1. CASE n.clock = x[2]
    <3>1. IdOf(n) = x
      BY <1>3, <1>8, <2>1 DEF IdOf
    <3> QED BY <1>4, <3>1 DEF Requires
  <2>2. CASE n.clock # x[2]
    <3>1. n.clock \in 0..x[2] - 1
      BY <1>3, <1>8, <2>2
    <3>2. IdOf(n) \in Requires(x) /\ IdOf(n) \in Id
      BY <1>8, <3>1, NodeIsId DEF IdOf, Requires
    <3> QED BY <1>1, <1>4, <3>2 DEF CausallyClosed
  <2> QED BY <2>1, <2>2
<1>11. j[1] \in Client /\ j[2] \in Nat /\ state[j[1]] \in Nat
  <2>1. IdOf(n) \in Id
    BY <1>8, NodeIsId
  <2>2. j \in Id
    BY <2>1, DepsAreIds
  <2>3. j[1] \in Client /\ j[2] \in Nat
    BY <2>2, ConstantsAssumption DEF Id
  <2> QED BY <1>1, <2>3, StateIsNat
<1> QED BY <1>9, <1>10, <1>11 DEF Integrated

\* An update that brings everything its nodes need is absorbed whole, whatever
\* order its clients depend on one another in and whatever is pending.
THEOREM WholeUpdateAbsorbed == Spec => []CompleteUpdateIsAbsorbed
<1>1. Safe => CompleteUpdateIsAbsorbed
  BY CompleteAbsorbed DEF CompleteUpdateIsAbsorbed
<1> QED BY <1>1, KeptThroughout, PTL
=============================================================================
