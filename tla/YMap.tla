-------------------------------- MODULE YMap --------------------------------
(***************************************************************************)
(* One key of a map type of jwst-codec, set and removed on several         *)
(* replicas: MapType::_insert, _remove and _get (types/map.rs) over        *)
(* DocStore::integrate (store.rs) for items with a parent_sub.  The items  *)
(* of a key are linked by left and right; parent.map holds its entry.      *)
(* Items arrive in any causal order, deletions in any order.               *)
(***************************************************************************)
EXTENDS Conflict

VARIABLES
    origin,   \* every item created -> its origin_left_id; none has a right origin
    left,     \* per replica: item -> the item on its left
    right,    \* per replica: item -> the item on its right
    entry,    \* per replica: parent.map.get(key), None before the first
    keyRemovals  \* history: calls of _remove that found a live entry

links == <<left, right, entry>>
mapVars == <<origin, links, deleted, keyRemovals>>

Held(r) == DOMAIN right[r]

-----------------------------------------------------------------------------
\* The items the conflict loop may visit: from the right of the origin or,
\* without an origin, from the entry, along right.
Siblings(r, o) ==
    LET first == IF o = None THEN entry[r] ELSE right[r][o]
        upTo[n \in 0..Cardinality(Id)] ==
          IF n = 0 THEN <<>>
          ELSE LET before == upTo[n - 1]
                   i == CASE before = <<>> -> IF n = 1 THEN first ELSE None
                          [] before # <<>> -> right[r][Last(before)]
               IN  IF i = None THEN before ELSE Append(before, i)
    IN  upTo[Cardinality(Id)]

\* Node::head steps to `left` as long as there is one.  The left of the leftmost
\* item is a Node::Item of a null reference, an item too, where the walk ends.
HeadOf(r, e) ==
    LET at[n \in 0..Cardinality(Id)] ==
          IF n = 0 THEN e
          ELSE IF at[n - 1] = None THEN None ELSE left[r][at[n - 1]]
    IN  at[Cardinality(Id)]

\* Mutant: the item on the right keeps its old left.
LeftLinksOld(r, this, l, rt) ==
    [i \in Held(r) \cup {this} |-> IF i = this THEN l ELSE left[r][i]]

\* The links after `this` goes between l and rt.
LeftLinks(r, this, l, rt) ==
    [i \in Held(r) \cup {this} |->
        IF i = this THEN l ELSE IF i = rt THEN this ELSE left[r][i]]
RightLinks(r, this, l, rt) ==
    [i \in Held(r) \cup {this} |->
        IF i = this THEN rt ELSE IF i = l THEN this ELSE right[r][i]]

\* Mutants: only the first item becomes the entry; the new item is deleted
\* instead of the one on its left.
EntryIsFirst(r, this, l, rt) == IF l = None THEN this ELSE entry[r]
DeletesItself(r, this, l, rt) == IF l = None /\ rt = None THEN {} ELSE {this}

\* The last item is the entry and deletes the one on its left; any other item
\* is deleted itself.
EntryAfter(r, this, l, rt) == IF rt = None THEN this ELSE entry[r]
DeletedBy(r, this, l, rt) == IF rt = None THEN {l} \ {None} ELSE {this}

\* integrate of item `this`, with og the origins including its own.
IntegrateKey(r, this, og) ==
    LET l == LeftAfterConflicts(this, Siblings(r, og[this]), og,
                                [i \in DOMAIN og |-> None])
        rt == IF l = None THEN HeadOf(r, entry[r]) ELSE right[r][l]
    IN  /\ left' = [left EXCEPT ![r] = LeftLinks(r, this, l, rt)]
        /\ right' = [right EXCEPT ![r] = RightLinks(r, this, l, rt)]
        /\ entry' = [entry EXCEPT ![r] = EntryAfter(r, this, l, rt)]
        /\ deleted' = [deleted EXCEPT ![r] = @ \cup DeletedBy(r, this, l, rt)]

-----------------------------------------------------------------------------
MapInit ==
    /\ origin = <<>>
    /\ left = [r \in Client |-> <<>>]
    /\ right = [r \in Client |-> <<>>]
    /\ entry = [r \in Client |-> None]
    /\ deleted = [r \in Client |-> {}]
    /\ keyRemovals = 0

KeyClock(r) == Cardinality({i \in Held(r) : i[1] = r})

\* _insert: the entry becomes the origin of the new item.
InsertKey(r) ==
    /\ KeyClock(r) < MaxClock[r]
    /\ LET this == <<r, KeyClock(r)>>
           og == [i \in DOMAIN origin \cup {this} |-> IF i = this THEN entry[r] ELSE origin[i]]
       IN  /\ origin' = og
           /\ IntegrateKey(r, this, og)
    /\ UNCHANGED keyRemovals

\* _remove.
RemoveKey(r) ==
    /\ keyRemovals < MaxRemovals
    /\ entry[r] # None
    /\ entry[r] \notin deleted[r]
    /\ deleted' = [deleted EXCEPT ![r] = @ \cup {entry[r]}]
    /\ keyRemovals' = keyRemovals + 1
    /\ UNCHANGED <<origin, links>>

\* An item of another client arrives, after its origin and its client's earlier
\* items.
DeliverItem(r, i) ==
    /\ i \notin Held(r)
    /\ origin[i] \in Held(r) \cup {None}
    /\ \A k \in 0..i[2] - 1 : <<i[1], k>> \in Held(r)
    /\ IntegrateKey(r, i, origin)
    /\ UNCHANGED <<origin, keyRemovals>>

\* A deletion made on s, by hand or by an integration, reaches r.
DeliverDelete(r, s, i) ==
    /\ i \in Held(r) \cap (deleted[s] \ deleted[r])
    /\ deleted' = [deleted EXCEPT ![r] = @ \cup {i}]
    /\ UNCHANGED <<origin, links, keyRemovals>>

MapNext ==
    \E r \in Client :
        \/ InsertKey(r)
        \/ RemoveKey(r)
        \/ \E i \in DOMAIN origin : DeliverItem(r, i)
        \/ \E s \in Client : \E i \in deleted[s] : DeliverDelete(r, s, i)

MapSpec == MapInit /\ [][MapNext]_mapVars

-----------------------------------------------------------------------------
(* Properties *)

\* _get: the item whose value is read, if any.
Get(r) == IF entry[r] \in deleted[r] THEN None ELSE entry[r]

\* The items one was written over, directly or through others.
WrittenOver(r, i) ==
    LET upTo[n \in 0..Cardinality(Id)] ==
          IF n = 0 THEN {origin[i]}
          ELSE upTo[n - 1] \cup {origin[j] : j \in upTo[n - 1] \ {None}}
    IN  upTo[Cardinality(Id)] \ {None}

\* Types, and a replica that holds an item has an entry.
MapTypeOK ==
    \A r \in Client :
        /\ left[r] \in [Held(r) -> Held(r) \cup {None}]
        /\ right[r] \in [Held(r) -> Held(r) \cup {None}]
        /\ Held(r) \subseteq DOMAIN origin
        /\ deleted[r] \subseteq Held(r)
        /\ entry[r] = None <=> Held(r) = {}

\* A value that a replica knows to have been written over is never the entry
\* again, whatever arrives late.
OverwrittenStaysHidden ==
    \A r \in Client : \A i \in Held(r) : entry[r] \notin WrittenOver(r, i)

\* The links agree in both directions: deleting or walking from either end
\* meets the same items.
LinksAgree ==
    \A r \in Client : \A i, j \in Held(r) :
        (right[r][i] = j) = (left[r][j] = i)

\* A client reads its own write: a set is never lost to an earlier concurrent
\* one that arrived first.
ReadYourWrite ==
    [][\A r \in Client : \A i \in Held(r)' \ Held(r) :
          i[1] = r => Get(r)' = i]_mapVars

\* "CRDT is a distributed data structure that ensures eventual consistency"
\* (homepage docs, introduction.md): replicas with the same items and the same
\* deletions read the same value.
MapsConverge ==
    \A r, s \in Client :
        Held(r) = Held(s) /\ deleted[r] = deleted[s] => Get(r) = Get(s)
=============================================================================
