------------------------------ MODULE DocUpdate ------------------------------
(***************************************************************************)
(* How one document of jwst-codec absorbs updates: Doc::apply_update       *)
(* (document.rs) driving UpdateIterator, DeleteSetIterator and merge_into  *)
(* (codec/update.rs) over the DocStore (store.rs).  Updates of a fixed     *)
(* history reach the document in any order, any number of times, or never, *)
(* interleaved with the document's own transactions.                       *)
(*                                                                         *)
(* apply_update holds the store's write lock from its first line to its    *)
(* last; pc # "idle" is that critical section, and one action is one turn  *)
(* of a loop inside it.  Items are immutable, so the store is its state    *)
(* vector plus the set of deleted ids, and UpdateIterator.state (a copy of *)
(* the vector that advances with every integrated node) is the same        *)
(* variable.  A queue of nodes is kept sorted by clock by the code and is  *)
(* a set here; Skip nodes, which the iterator passes over, are left out.   *)
(***************************************************************************)
EXTENDS Integers, Sequences, FiniteSets

CONSTANTS
    Client,       \* client ids (naturals: the iterator visits the highest first)
    Local,        \* the id this document creates its own nodes with
    MaxClock,     \* bound: clocks each client hands out
    Deps,         \* id -> its origin left, origin right and parent, those it has
    Updates,      \* the updates the rest of the world may send
    MaxReceived   \* bound: how many updates arrive

Clock == 0..MaxClock
Id == Client \X (0..MaxClock - 1)

\* A run of len consecutive ids of one client, the unit the codec ships.
Node == [client : Client, clock : 0..MaxClock - 1, len : 1..MaxClock]

IdOf(n) == <<n.client, n.clock>>
End(n) == n.clock + n.len
IdsOf(n) == {n.client} \X (n.clock..End(n) - 1)
Ids(queues) == UNION {UNION {IdsOf(n) : n \in queues[c]} : c \in Client}

ASSUME ConstantsAssumption ==
    /\ Client \subseteq Nat
    /\ Local \in Client
    /\ MaxClock \in Nat \ {0}
    /\ MaxReceived \in Nat

ASSUME HistoryAssumption ==
    /\ Deps \in [Id -> Seq(Id)]
    /\ Updates \subseteq [structs : [Client -> SUBSET Node], dels : SUBSET Id]

DepsOf(i) == {Deps[i][k] : k \in DOMAIN Deps[i]}

\* The later ids of a run continue the run and share the right origin of its
\* first id (Item::split_at, Node::merge).
WellFormed(n) ==
    /\ End(n) <= MaxClock
    /\ \A i \in IdsOf(n) : \A j \in DepsOf(i) :
          j[1] # n.client => j \in DepsOf(IdOf(n))

\* What every sender guarantees: a node is filed under its own client.
WellFiled(queues) ==
    \A c \in Client : \A n \in queues[c] : n.client = c /\ WellFormed(n)

ASSUME UpdatesWellFormed == \A u \in Updates : WellFiled(u.structs)

\* An item refers back: of its own client, only to lower clocks.
ASSUME DepsPointBack ==
    \A i \in Id : \A j \in DepsOf(i) : j[1] = i[1] => j[2] < i[2]

\* History has an order: an item comes after its origins, its parent and the
\* earlier items of its client, so some item of any set waits for none of it.
Requires(i) == DepsOf(i) \cup {<<i[1], k>> : k \in 0..i[2] - 1}
ASSUME HistoryIsAcyclic ==
    \A S \in SUBSET Id : S # {} => \E i \in S : Requires(i) \cap S = {}

VARIABLES
    state,     \* DocStore::get_state_vector
    deleted,   \* ids whose item is deleted
    pending,   \* DocStore::pending, NoUpdate for None
    pc,        \* where apply_update is
    update,    \* its local `update`
    stack,     \* UpdateIterator.stack
    cur,       \* the iterator's current candidate, <<>> or <<node>>
    retry,     \* its local `retry`
    seen,      \* history: ids of every node received or created
    received,  \* history: number of updates received
    arriving   \* history: ids of the nodes of the update being applied

store == <<state, deleted, pending>>
loop == <<pc, update, stack, cur, retry>>
history == <<seen, received, arriving>>
vars == <<store, loop, history>>

-----------------------------------------------------------------------------
(* Update *)

NoClock == MaxClock + 1     \* an absent entry of missing_state
NoQueues == [c \in Client |-> {}]
NoMissing == [c \in Client |-> NoClock]

Update == [structs : [Client -> SUBSET Node], dels : SUBSET Id,
           pstructs : [Client -> SUBSET Node], pdels : SUBSET Id,
           missing : [Client -> 0..NoClock]]

NoUpdate == [structs |-> NoQueues, dels |-> {}, pstructs |-> NoQueues,
             pdels |-> {}, missing |-> NoMissing]

IsEmpty(u) == u.structs = NoQueues /\ u.dels = {}
IsPendingEmpty(u) == u.pstructs = NoQueues /\ u.pdels = {}

Decode(u) == [NoUpdate EXCEPT !.structs = u.structs, !.dels = u.dels]

\* Swaps two pairs of fields; missing_state stays.
DrainPendingState(u) ==
    [u EXCEPT !.structs = u.pstructs, !.pstructs = u.structs,
              !.dels = u.pdels, !.pdels = u.dels]

\* Mutant: the other update's nodes replace those of the same client.
MergeIntoReplaces(target, u) ==
    [target EXCEPT !.structs = [c \in Client |-> IF u.structs[c] = {} THEN @[c] ELSE u.structs[c]],
                   !.dels = @ \cup u.dels]

\* merge_into reads two fields of the other update and no more: the nodes
\* (sorted again, equal ones once) and the delete set.
MergeInto(target, u) ==
    [target EXCEPT !.structs = [c \in Client |-> @[c] \cup u.structs[c]],
                   !.dels = @ \cup u.dels]

\* StateVector::set_min on missing_state.
SetMin(missing, c, k) ==
    [missing EXCEPT ![c] = IF k < @ THEN k ELSE @]

\* DeleteSetIterator: what is below the state vector is deleted, the rest is
\* moved to pending_delete_set.
Deletable(dels) == {i \in dels : i[2] < state[i[1]]}
AfterDeletes(u) ==
    [u EXCEPT !.dels = {}, !.pdels = @ \cup (u.dels \ Deletable(u.dels))]

-----------------------------------------------------------------------------
(* UpdateIterator *)

\* The nodes pop_front may return.
Front(queue) == {n \in queue : \A m \in queue : n.clock <= m.clock}

\* next_client: the highest client with nodes left.
NextClients == {c \in Client : update.structs[c] # {}
                    /\ \A d \in Client : update.structs[d] # {} => d <= c}

Pop(u, n) == [u EXCEPT !.structs[n.client] = @ \ {n}]

\* Mutant: the first id that is not here counts as here.
IsMissingOffByOne(id, c) == id[1] # c /\ id[2] > state[id[1]]

\* get_missing_dep looks at the dependencies in order and returns the client
\* of the first one that is not here; its own client is never looked at.
IsMissing(id, c) == id[1] # c /\ id[2] >= state[id[1]]
MissingDeps(n) == {k \in DOMAIN Deps[IdOf(n)] : IsMissing(Deps[IdOf(n)][k], n.client)}
MissingClients(n) ==
    {Deps[IdOf(n)][k][1] : k \in {k \in MissingDeps(n) : \A j \in MissingDeps(n) : k <= j}}

\* add_stack_to_rest: every node of the stack, oldest first, takes what is
\* left of its client's queue with it; a second insert replaces the first.
StackOf(st, c) == {i \in DOMAIN st : st[i].client = c}
StackToRest(u, st) ==
    [u EXCEPT
        !.structs = [c \in Client |-> IF StackOf(st, c) = {} THEN @[c] ELSE {}],
        !.pstructs = [c \in Client |->
            IF StackOf(st, c) = {} THEN @[c]
            ELSE {st[i] : i \in {i \in StackOf(st, c) : \A j \in StackOf(st, c) : j <= i}}
                 \cup (IF \A i, j \in StackOf(st, c) : i = j THEN u.structs[c] ELSE {})]]

-----------------------------------------------------------------------------
Init ==
    /\ state = [c \in Client |-> 0]
    /\ deleted = {}
    /\ pending = NoUpdate
    /\ pc = "idle"
    /\ update = NoUpdate
    /\ stack = <<>>
    /\ cur = <<>>
    /\ retry = FALSE
    /\ seen = {}
    /\ received = 0
    /\ arriving = {}

\* Nobody refers to a node of this document before it exists.
LocalIds(u) ==
    {i \in Ids(u.structs) \cup u.dels
        \cup UNION {DepsOf(i) : i \in Ids(u.structs)} :
        i[1] = Local}

\* apply_update_from_binary_v1: the lock is taken and the loop entered.
ReceiveUpdate(u) ==
    /\ pc = "idle"
    /\ received < MaxReceived
    /\ \A i \in LocalIds(u) : i[2] < state[Local]
    /\ update' = Decode(u)
    /\ retry' = FALSE
    /\ pc' = "iter"
    /\ seen' = seen \cup Ids(u.structs)
    /\ received' = received + 1
    /\ arriving' = Ids(u.structs)
    /\ UNCHANGED <<store, stack, cur>>

\* A transaction of this document: create_item at the end of its own clock
\* and integrate; the types it edits are already here.
CreateItem ==
    /\ pc = "idle"
    /\ state[Local] < MaxClock
    /\ LET i == <<Local, state[Local]>> IN
         /\ \A j \in DepsOf(i) : j[2] < state[j[1]]
         /\ seen' = seen \cup {i}
    /\ state' = [state EXCEPT ![Local] = @ + 1]
    /\ UNCHANGED <<deleted, pending, loop, received, arriving>>

DeleteItem(i) ==
    /\ pc = "idle"
    /\ i[2] < state[i[1]]
    /\ i \notin deleted
    /\ deleted' = deleted \cup {i}
    /\ UNCHANGED <<state, pending, loop, seen, received, arriving>>

-----------------------------------------------------------------------------
(* UpdateIterator::next, one turn of its loop per action *)

Iterating == pc = "iter" /\ cur # <<>>

\* next_candidate: the stack goes before the queues.
PopStack ==
    /\ pc = "iter" /\ cur = <<>> /\ stack # <<>>
    /\ cur' = <<stack[Len(stack)]>>
    /\ stack' = SubSeq(stack, 1, Len(stack) - 1)
    /\ UNCHANGED <<store, pc, update, retry, history>>

PopQueue(c, n) ==
    /\ pc = "iter" /\ cur = <<>> /\ stack = <<>>
    /\ c \in NextClients
    /\ n \in Front(update.structs[c])
    /\ cur' = <<n>>
    /\ update' = Pop(update, n)
    /\ UNCHANGED <<store, pc, stack, retry, history>>

\* Mutant: the next clock of a client counts as a gap.
ContainsStrictly(n) == n.clock < state[n.client]

\* The candidate leaves a gap after what its client has here.
Contains(n) == n.clock <= state[n.client]

ParkGap ==
    /\ Iterating
    /\ ~Contains(cur[1])
    /\ update' = [StackToRest(update, Append(stack, cur[1])) EXCEPT
                     !.missing = SetMin(@, cur[1].client, cur[1].clock - 1)]
    /\ stack' = <<>>
    /\ cur' = <<>>
    /\ UNCHANGED <<store, pc, retry, history>>

\* A dependency is missing and the update holds more of that client.
TurnToDep(d, n) ==
    /\ Iterating
    /\ Contains(cur[1])
    /\ d \in MissingClients(cur[1])
    /\ n \in Front(update.structs[d])
    /\ stack' = Append(stack, cur[1])
    /\ cur' = <<n>>
    /\ update' = Pop(update, n)
    /\ UNCHANGED <<store, pc, retry, history>>

\* Mutant: the queue of the missing client is not looked into.
ParkWithoutLooking(d) ==
    /\ Iterating
    /\ Contains(cur[1])
    /\ d \in MissingClients(cur[1])
    /\ update' = [StackToRest(update, Append(stack, cur[1])) EXCEPT
                     !.missing = SetMin(@, d, state[d])]
    /\ stack' = <<>>
    /\ cur' = <<>>
    /\ UNCHANGED <<store, pc, retry, history>>

\* A dependency is missing and the update holds no more of that client.
ParkMissingDep(d) ==
    /\ Iterating
    /\ Contains(cur[1])
    /\ d \in MissingClients(cur[1])
    /\ update.structs[d] = {}
    /\ update' = [StackToRest(update, Append(stack, cur[1])) EXCEPT
                     !.missing = SetMin(@, d, state[d])]
    /\ stack' = <<>>
    /\ cur' = <<>>
    /\ UNCHANGED <<store, pc, retry, history>>

\* The first offset ids of the candidate may be here already.
Applicable(n) == Contains(n) /\ MissingDeps(n) = {}
Offset(n) == state[n.client] - n.clock

\* Mutant: a node that is here already is integrated again.
IntegrateKnown ==
    /\ Iterating
    /\ Applicable(cur[1])
    /\ state' = [state EXCEPT ![cur[1].client] = End(cur[1])]
    /\ cur' = <<>>
    /\ UNCHANGED <<deleted, pending, pc, update, stack, retry, history>>

Integrate ==
    /\ Iterating
    /\ Applicable(cur[1])
    /\ Offset(cur[1]) = 0 \/ Offset(cur[1]) < cur[1].len
    /\ state' = [state EXCEPT ![cur[1].client] = End(cur[1])]
    /\ cur' = <<>>
    /\ UNCHANGED <<deleted, pending, pc, update, stack, retry, history>>

DropKnown ==
    /\ Iterating
    /\ Applicable(cur[1])
    /\ Offset(cur[1]) # 0 /\ Offset(cur[1]) >= cur[1].len
    /\ cur' = <<>>
    /\ UNCHANGED <<store, pc, update, stack, retry, history>>

IterEnd ==
    /\ pc = "iter" /\ cur = <<>> /\ stack = <<>>
    /\ update.structs = NoQueues
    /\ pc' = "dels"
    /\ UNCHANGED <<store, update, stack, cur, retry, history>>

-----------------------------------------------------------------------------
(* The rest of apply_update's loop body *)

ApplyDeletes ==
    /\ pc = "dels"
    /\ deleted' = deleted \cup Deletable(update.dels)
    /\ update' = AfterDeletes(update)
    /\ pc' = "settle"
    /\ UNCHANGED <<state, pending, stack, cur, retry, history>>

\* Mutant: the loop goes on until nothing is left.
SettleWhenEmpty(u, again) ==
    /\ pc' = IF again \/ ~IsEmpty(u) THEN "iter" ELSE "idle"
    /\ update' = u
    /\ retry' = again
    /\ pending' = NoUpdate
    /\ UNCHANGED arriving

\* Another turn with u, or leave with u as the pending update.
Settle(u, again) ==
    IF again
    THEN /\ pc' = "iter"
         /\ update' = u
         /\ retry' = TRUE
         /\ pending' = NoUpdate
         /\ UNCHANGED arriving
    ELSE /\ pc' = "idle"
         /\ update' = NoUpdate
         /\ retry' = FALSE
         /\ pending' = IF IsEmpty(u) THEN NoUpdate ELSE u
         /\ arriving' = {}

NewlyAvailable(u) == \E c \in Client : u.missing[c] < state[c]

\* store.pending.take() returned an update.
TakePending ==
    /\ pc = "settle"
    /\ pending # NoUpdate
    /\ deleted' = deleted \cup Deletable(pending.dels)
    /\ Settle(IF IsPendingEmpty(update)
              THEN AfterDeletes(pending)
              ELSE MergeInto(DrainPendingState(update), AfterDeletes(pending)),
              retry \/ NewlyAvailable(pending))
    /\ UNCHANGED <<state, stack, cur, seen, received>>

\* There was none: save what is left, if anything is.
NoPending ==
    /\ pc = "settle"
    /\ pending = NoUpdate
    /\ Settle(DrainPendingState(update), FALSE)
    /\ UNCHANGED <<state, deleted, stack, cur, seen, received>>

ApplyUpdate ==
    \/ PopStack
    \/ \E c \in Client : \E n \in update.structs[c] : PopQueue(c, n)
    \/ ParkGap
    \/ \E d \in Client : \E n \in update.structs[d] : TurnToDep(d, n)
    \/ \E d \in Client : ParkMissingDep(d)
    \/ Integrate
    \/ DropKnown
    \/ IterEnd
    \/ ApplyDeletes
    \/ TakePending
    \/ NoPending

Next ==
    \/ \E u \in Updates : ReceiveUpdate(u)
    \/ CreateItem
    \/ \E i \in Id : DeleteItem(i)
    \/ ApplyUpdate

\* apply_update is a loop of one thread under a lock: it runs on.
Spec == Init /\ [][Next]_vars /\ WF_vars(ApplyUpdate)

-----------------------------------------------------------------------------
(* Properties *)

Integrated(i) == i[2] < state[i[1]]

\* Types, and the lock: outside apply_update its locals are gone.
TypeOK ==
    /\ state \in [Client -> Clock]
    /\ deleted \subseteq Id
    /\ pending \in Update
    /\ update \in Update
    /\ stack \in Seq(Node)
    /\ cur \in {<<>>} \cup {<<n>> : n \in Node}
    /\ retry \in BOOLEAN
    /\ pc \in {"idle", "iter", "dels", "settle"}
    /\ seen \subseteq Id
    /\ received \in 0..MaxReceived
    /\ arriving \subseteq Id

\* No causal hole: whatever is integrated, its origins and its parent are too,
\* so DocStore::repair always finds them (apply_update never returns
\* StructSequenceNotExists half way).
CausallyClosed ==
    \A i \in Id : Integrated(i) => \A j \in DepsOf(i) : Integrated(j)

\* No node is ever lost: between updates every node that arrived is in the
\* store or in store.pending, whatever was parked, stacked, drained or merged.
NodesKept ==
    pc = "idle" => \A i \in seen : Integrated(i) \/ i \in Ids(pending.structs)

\* An update that brings everything its nodes need is absorbed whole, however
\* its clients depend on one another and whatever is pending: the answer to a
\* sync step 1 always brings the document up to date.
Complete(ids) ==
    \A i \in ids : /\ \A k \in 0..i[2] : Integrated(<<i[1], k>>) \/ <<i[1], k>> \in ids
                   /\ \A j \in DepsOf(i) : Integrated(j) \/ j \in ids
CompleteUpdateIsAbsorbed ==
    pc = "dels" /\ Complete(arriving) => \A i \in arriving : Integrated(i)

\* The state vector, which peers are told, never goes back.
StateGrows == [][\A c \in Client : state'[c] >= state[c]]_vars

\* apply_update returns: the retry loop ends, with the lock released.
ApplyUpdateReturns == pc # "idle" ~> pc = "idle"
=============================================================================
