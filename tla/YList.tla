-------------------------------- MODULE YList --------------------------------
(***************************************************************************)
(* A list type (text, array) of jwst-codec edited on several replicas:     *)
(* ListType::insert_at and remove_at (types/list/mod.rs), DocStore::repair,*)
(* integrate, split_node_at and delete_range (store.rs).                   *)
(*                                                                         *)
(* A node is a run of ids, typed in one go or left over from a split.  The *)
(* chain of nodes linked by left and right is kept id by id as a sequence, *)
(* with the set of ids at which a node starts.  Runs and deletes reach the *)
(* other replicas in any causal order, which DocUpdate establishes.        *)
(***************************************************************************)
EXTENDS Conflict

CONSTANT
    MaxLen       \* bound: length of a run, and of a removal

ASSUME YListAssumption == MaxLen \in Nat \ {0}

VARIABLES
    runs,     \* first id of every run created -> its length and its origins
    chain,    \* per replica: its ids from parent.start to the last
    starts,   \* per replica: the ids a node starts at
    removals, \* every deletion made, as the set of ids in its delete set
    applied   \* per replica: the deletions it has made or received

replicas == <<chain, starts, deleted>>
listVars == <<runs, replicas, removals, applied>>

Run(len, left, right) == [len |-> len, left |-> left, right |-> right]
RunIds(h, len) == {h[1]} \X (h[2]..h[2] + len - 1)
Pos(ch, i) == IF i = None THEN 0 ELSE CHOOSE p \in DOMAIN ch : ch[p] = i
Next1(i) == <<i[1], i[2] + 1>>

\* The elements of s that are in T, in order.
Among(s, T) ==
    LET upTo[n \in 0..Len(s)] ==
          IF n = 0 THEN <<>>
          ELSE IF s[n] \in T THEN Append(upTo[n - 1], s[n]) ELSE upTo[n - 1]
    IN  upTo[Len(s)]

\* The rest of i's node from i on.
NodeFrom(ch, st, i) ==
    {j \in ToSet(ch) : /\ j[1] = i[1] /\ j[2] >= i[2]
                       /\ \A k \in i[2] + 1..j[2] : <<i[1], k>> \notin st}
NodeOf(ch, st, i) ==
    NodeFrom(ch, st, CHOOSE s \in st : s[1] = i[1] /\ i \in NodeFrom(ch, st, s))

\* The origins of the node that starts at i, the same on every replica: those
\* its author saw or, right of a split, the end of the left part and the same
\* right origin.
OriginLeft(rs, i) == IF i \in DOMAIN rs THEN rs[i].left ELSE <<i[1], i[2] - 1>>
OriginRight(rs, i) == rs[CHOOSE h \in DOMAIN rs : i \in RunIds(h, rs[h].len)].right

-----------------------------------------------------------------------------
(* split_node_at: a node is made to start at i.  Item::split_at builds the  *)
(* right part without the deleted flag of the node it comes from.           *)

Revived(ch, st, i) ==
    IF i = None \/ i \notin ToSet(ch) \/ i \in st THEN {} ELSE NodeFrom(ch, st, i)
\* Mutant: no cut is made.
SplitNothing(ch, st, i) == st

Split(ch, st, i) ==
    IF i = None \/ i \notin ToSet(ch) THEN st ELSE st \cup {i}

\* The id behind which split_at_and_get_left cuts.
AfterLeft(left, ch) ==
    IF left = None \/ Next1(left) \notin ToSet(ch) THEN None ELSE Next1(left)

\* integrate's loop over the nodes that start at the given ids.
Resolve(this, siblings, rs) ==
    LET nodes == ToSet(siblings) \cup {this} IN
    LeftAfterConflicts(this, siblings, [i \in nodes |-> OriginLeft(rs, i)],
                       [i \in nodes |-> OriginRight(rs, i)])

\* Mutant: the new run goes right behind its origin.
PlaceAtOrigin(ch, st, rs, this) == rs[this].left

\* Mutant: the loop runs past the right origin.
PlaceAnywhere(ch, st, rs, this) ==
    Resolve(this, Among(SubSeq(ch, Pos(ch, rs[this].left) + 1, Len(ch)), st), rs)

\* The node `this` goes after, by its first id or, if it is the origin, by the
\* origin; the siblings looked at lie between the two origins.
PlaceAfter(ch, st, rs, this) ==
    LET left == rs[this].left
        right == rs[this].right
        to == IF right = None THEN Len(ch) ELSE Pos(ch, right) - 1
        siblings == Among(SubSeq(ch, Pos(ch, left) + 1, to), st)
    IN  Resolve(this, siblings, rs)

\* The last id of the node the new run is linked behind.
EndOf(ch, st, i) ==
    IF i = None \/ i \notin st THEN i
    ELSE CHOOSE j \in NodeFrom(ch, st, i) : Next1(j) \notin NodeFrom(ch, st, i)

\* repair, then integrate, of the run that starts at `this`.
Integrate(r, this, rs) ==
    LET ch == chain[r]
        cut == AfterLeft(rs[this].left, ch)
        st1 == Split(ch, starts[r], cut)
        st2 == Split(ch, st1, rs[this].right)
        after == PlaceAfter(ch, st2, rs, this)
        p == Pos(ch, IF after = rs[this].left THEN after ELSE EndOf(ch, st2, after))
        new == [k \in 1..rs[this].len |-> <<this[1], this[2] + k - 1>>]
    IN  /\ chain' = [chain EXCEPT ![r] = SubSeq(ch, 1, p) \o new \o SubSeq(ch, p + 1, Len(ch))]
        /\ starts' = [starts EXCEPT ![r] = st2 \cup {this}]
        /\ deleted' = [deleted EXCEPT ![r] =
              (@ \ Revived(ch, starts[r], cut)) \ Revived(ch, st1, rs[this].right)]

-----------------------------------------------------------------------------
ListInit ==
    /\ runs = <<>>
    /\ chain = [r \in Client |-> <<>>]
    /\ starts = [r \in Client |-> {}]
    /\ deleted = [r \in Client |-> {}]
    /\ removals = {}
    /\ applied = [r \in Client |-> {}]

Clock(r) == Cardinality({i \in ToSet(chain[r]) : i[1] = r})

\* insert_at: find_pos stops between two neighbours, behind a deleted node if a
\* search marker leads it there; inside a node only if the node is not deleted.
Insert(r, p, len) ==
    /\ Clock(r) + len <= MaxClock[r]
    /\ LET ch == chain[r]
           this == <<r, Clock(r)>>
           left == IF p = 0 THEN None ELSE ch[p]
           right == IF p = Len(ch) THEN None ELSE ch[p + 1]
           rs == [h \in DOMAIN runs \cup {this} |->
                    IF h = this THEN Run(len, left, right)
                    ELSE runs[h]]
       IN  /\ right # None /\ right \notin starts[r] => right \notin deleted[r]
           /\ runs' = rs
           /\ Integrate(r, this, rs)
    /\ UNCHANGED <<removals, applied>>

Ready(r, h) ==
    LET here == ToSet(chain[r]) IN
    /\ h \notin here
    /\ {runs[h].left, runs[h].right} \subseteq here \cup {None}
    /\ \A k \in 0..h[2] - 1 : <<h[1], k>> \in here

Deliver(r, h) ==
    /\ Ready(r, h)
    /\ Integrate(r, h, runs)
    /\ UNCHANGED <<runs, removals, applied>>

\* remove_at: n live ids from the one at p on; the nodes the removal begins and
\* ends in are cut.
RemoveRange(r, p, n) ==
    /\ Cardinality(removals) < MaxRemovals
    /\ chain[r][p] \notin deleted[r]
    /\ LET ch == chain[r]
           live == Among(SubSeq(ch, p, Len(ch)), ToSet(ch) \ deleted[r])
           ids == ToSet(SubSeq(live, 1, n))
       IN  /\ n <= Len(live)
           /\ starts' = [starts EXCEPT ![r] = @ \cup ({live[1], Next1(live[n])} \cap ToSet(ch))]
           /\ deleted' = [deleted EXCEPT ![r] = @ \cup ids]
           /\ removals' = removals \cup {ids}
           /\ applied' = [applied EXCEPT ![r] = @ \cup {ids}]
    /\ UNCHANGED <<runs, chain>>

\* Mutant: the last id of a range is left alone.
DeleteRangeShort(r, ids) ==
    /\ deleted' = [deleted EXCEPT ![r] = @ \cup {i \in ids : Next1(i) \in ids}]
    /\ UNCHANGED starts

\* Mutant: the node a range ends in is deleted uncut.
DeleteRangeUncut(r, ids) ==
    /\ deleted' = [deleted EXCEPT ![r] =
          @ \cup UNION {NodeOf(chain[r], starts[r], i) : i \in ids}]
    /\ UNCHANGED starts

\* delete_range cuts the live nodes the range begins or ends in, and flags
\* the live nodes inside.
DeleteRange(r, ids) ==
    LET ch == chain[r]
        live == ids \ deleted[r]
        cuts == {i \in ids : <<i[1], i[2] - 1>> \notin ids}
                \cup {Next1(i) : i \in {j \in ids : Next1(j) \notin ids}}
    IN  /\ starts' = [starts EXCEPT ![r] =
               @ \cup {i \in cuts \cap ToSet(ch) : NodeOf(ch, starts[r], i) \cap deleted[r] = {}}]
        /\ deleted' = [deleted EXCEPT ![r] = @ \cup live]

DeliverRemoval(r, ids) ==
    /\ ids \notin applied[r]
    /\ ids \subseteq ToSet(chain[r])
    /\ DeleteRange(r, ids)
    /\ applied' = [applied EXCEPT ![r] = @ \cup {ids}]
    /\ UNCHANGED <<runs, chain, removals>>

ListNext ==
    \E r \in Client :
        \/ \E p \in 0..Len(chain[r]), len \in 1..MaxLen : Insert(r, p, len)
        \/ \E h \in DOMAIN runs : Deliver(r, h)
        \/ \E p \in DOMAIN chain[r], n \in 1..MaxLen : RemoveRange(r, p, n)
        \/ \E ids \in removals : DeliverRemoval(r, ids)

ListSpec == ListInit /\ [][ListNext]_listVars

-----------------------------------------------------------------------------
(* Properties *)

\* Types, and every replica's chain holds each of its ids once.
ListTypeOK ==
    \A r \in Client :
        /\ ToSet(chain[r]) \subseteq Id
        /\ Len(chain[r]) = Cardinality(ToSet(chain[r]))
        /\ starts[r] \cup deleted[r] \subseteq ToSet(chain[r])
        /\ applied[r] \subseteq removals

\* Typed one id at a time.  The conflict loop looks for the last id of an
\* origin among the first ids of nodes: of a run of two, an item typed behind it
\* and one typed at its place, two replicas put the last two in different
\* orders.  And a cut of a deleted node revives its right part.  So the three
\* properties that name this do not hold of longer runs.
OneByOne == \A h \in DOMAIN runs : runs[h].len = 1

\* Replicas with the same items hold them in the same order, whatever the order
\* they arrived in (integrate's conflict loop).
ListsConverge ==
    OneByOne => \A r, s \in Client :
        ToSet(chain[r]) = ToSet(chain[s]) => chain[r] = chain[s]

\* On every replica an item stays between the neighbours its author saw.
OriginsKept ==
    OneByOne => \A r \in Client : \A p \in DOMAIN chain[r] :
        LET i == chain[r][p] IN
        /\ Pos(chain[r], OriginLeft(runs, i)) < p
        /\ OriginRight(runs, i) # None => p < Pos(chain[r], OriginRight(runs, i))

\* A node stays in one piece: nothing is linked inside it unless it is cut first,
\* and it is deleted as a whole or not at all.
NodesWhole ==
    \A r \in Client : \A p \in DOMAIN chain[r] :
        LET i == chain[r][p]  before == <<i[1], i[2] - 1>> IN
        i \notin starts[r] =>
            /\ p > 1 /\ chain[r][p - 1] = before
            /\ i \in deleted[r] <=> before \in deleted[r]

\* What is deleted was removed by somebody: cutting a range never takes the ids
\* next to it along.
DeletedWereRemoved ==
    \A r \in Client : deleted[r] \subseteq UNION applied[r]

\* Replicas with the same items and the same deletions show the same content
\* (delete_range on one, remove_at on the other).
Visible(r) == Among(chain[r], ToSet(chain[r]) \ deleted[r])
ContentConverges ==
    OneByOne => \A r, s \in Client :
        (ToSet(chain[r]) = ToSet(chain[s]) /\ applied[r] = applied[s]) =>
            Visible(r) = Visible(s)
=============================================================================
