----------------------------- MODULE DeleteSets -----------------------------
(***************************************************************************)
(* The delete set a document keeps of one client (codec/delete_set.rs), on *)
(* both sides of a connection.  A store adds what it deletes, in the order *)
(* it walks the lists and not in clock order; its publisher tells          *)
(* subscribers what was deleted since it looked last; an update carries    *)
(* the clocks deleted to a peer, which applies those it has the items of   *)
(* and keeps the others for later.                                         *)
(***************************************************************************)
EXTENDS OrderRange, FiniteSets

CONSTANTS
  MaxItems,    \* bound: the client made the items 0 .. MaxItems - 1
  MaxBatch,    \* bound on the items one call of delete_item deletes
  Arrivals,    \* bound: the numbers of items the peer can have
  Vacant       \* no entry for the client

ASSUME DeleteSetsAssumption ==
  /\ MaxItems \in Nat /\ MaxBatch \in Nat /\ Arrivals \subseteq 1..MaxItems
  /\ Vacant \notin [frag : BOOLEAN, list : Seq((0..MaxItems) \X (0..MaxItems))]

VARIABLES
  gone,        \* the clocks whose items the store has marked deleted
  set,         \* DocStore.delete_set, its entry for the client
  last,        \* the publisher's last_deletes
  inbox,       \* the peer: the delete set of the update it is applying
  pending,     \* the peer: pending_delete_set
  have,        \* the peer: the clocks it has the items of are those below
  erased,      \* the peer: the clocks it has deleted
  shipped      \* ghost: the clocks the updates the peer got had deleted

setsVars == <<gone, set, last, inbox, pending, have, erased, shipped>>

-----------------------------------------------------------------------------
(* DeleteSet.                                                              *)

CoversOf(v) == IF v = Vacant THEN {} ELSE Covers(v)
IsNormal(v) == v = Vacant \/ Normal(v)

\* add and add_range.
AddRange(v, r) == IF v = Vacant \/ IsEmpty(v) THEN {Single(r)} ELSE Push(v, r)

\* batch_add_ranges: the first batch is taken as it comes.
BatchAdd(v, rs) == IF v = Vacant THEN {Fragment(rs)} ELSE Extend(v, rs)

\* merge, of the other's entry for the client.
Merge(v, w) == IF v = Vacant THEN {w}
               ELSE IF w = Vacant THEN {v}
               ELSE Extend(v, w.list)

AddAll(v, rs) == FoldLeft(LAMBDA vs, r : UNION {AddRange(u, r) : u \in vs}, {v}, rs)

\* What is read of what was written: a list of one range is a Range.
Transcoded(v) == IF v = Vacant THEN Vacant
                 ELSE IF Len(v.list) = 1 THEN Single(v.list[1]) ELSE Fragment(v.list)

\* generate_delete_set: an update names the clocks of the deleted nodes,
\* added in clock order.
Generated(s) == AddAll(Vacant, [i \in 1..Cardinality(s) |->
                  LET c == CHOOSE x \in s : Cardinality({y \in s : y < x}) = i - 1
                  IN <<c, c + 1>>])

-----------------------------------------------------------------------------
(* The store and its publisher.                                            *)

\* What delete_item can be asked to delete: an item with all it contains,
\* each a range of clocks that are not deleted yet, in the order of the
\* lists that hold them.
Ranges == {r \in (0..MaxItems) \X (0..MaxItems) : r[1] < r[2]}
Batches == UNION {[1..n -> Ranges] : n \in 1..MaxBatch}
Deletable == {b \in Batches : /\ \A i \in DOMAIN b : Clocks(b[i]) \cap gone = {}
                              /\ \A i, j \in DOMAIN b : i # j => Clocks(b[i]) \cap Clocks(b[j]) = {}}

DeleteItem ==
  \E b \in Deletable :
    /\ set' \in BatchAdd(set, b)
    /\ gone' = gone \cup UNION {Clocks(b[i]) : i \in DOMAIN b}
    /\ UNCHANGED <<last, inbox, pending, have, erased, shipped>>

\* parse_delete_sets: the clocks reported as deleted between two looks.
Reported(before, now) ==
  IF before = Vacant THEN CoversOf(now) ELSE UNION {Clocks(r) : r \in DiffRange(before, now)}

\* One turn of the publisher: what Reported(last, set) says goes to the
\* subscribers.
Observe ==
  /\ set # last
  /\ last' = set
  /\ UNCHANGED <<gone, set, inbox, pending, have, erased, shipped>>

-----------------------------------------------------------------------------
(* The peer.                                                               *)

\* An update of the store's state arrives and is merged with what is there
\* (Update::merge_into).
Receive ==
  /\ gone # shipped
  /\ \E g \in Generated(gone) : inbox' \in Merge(inbox, Transcoded(g))
  /\ shipped' = gone
  /\ UNCHANGED <<gone, set, last, pending, have, erased>>

\* The items arrive.
ItemsArrive ==
  /\ \E n \in Arrivals : n > have /\ have' = n
  /\ UNCHANGED <<gone, set, last, inbox, pending, erased, shipped>>

\* DeleteSetIterator: of every range what the state covers is erased and
\* the rest is added to the pending set.
Missing(r) == IF r[2] <= have /\ r[1] < have THEN <<>>
              ELSE IF r[1] < have THEN <<<<have, r[2]>>>> ELSE <<r>>
IterateDeletes ==
  /\ inbox # Vacant
  /\ LET ranges == IF IsEmpty(inbox) THEN <<>> ELSE inbox.list
     IN /\ erased' = erased \cup UNION {Clocks(ranges[i]) \cap 0..(have - 1) : i \in DOMAIN ranges}
        /\ pending' \in AddAll(pending, FlattenSeq([i \in DOMAIN ranges |-> Missing(ranges[i])]))
  /\ inbox' = Vacant
  /\ UNCHANGED <<gone, set, last, have, shipped>>

\* drain_pending_state: what was kept is the delete set to apply again.
Drain ==
  /\ pending # Vacant /\ inbox = Vacant
  /\ inbox' = pending /\ pending' = Vacant
  /\ UNCHANGED <<gone, set, last, have, erased, shipped>>

-----------------------------------------------------------------------------
SetsInit ==
  /\ gone = {} /\ set = Vacant /\ last = Vacant
  /\ inbox = Vacant /\ pending = Vacant /\ have = 0 /\ erased = {} /\ shipped = {}

SetsNext == DeleteItem \/ Observe \/ Receive \/ ItemsArrive \/ IterateDeletes \/ Drain

SetsSpec == SetsInit /\ [][SetsNext]_setsVars

-----------------------------------------------------------------------------
\* No delete is lost and none is made up, whatever the order of the batches,
\* the merges and the arrivals, and although the lists need not be in order:
\* the store's set names what it deleted, and what the peer received is
\* erased or kept (range.rs push, merge; update.rs DeleteSetIterator).
DeletesKept ==
  /\ CoversOf(set) = gone
  /\ erased \cup CoversOf(inbox) \cup CoversOf(pending) = shipped

\* A set in order and apart stays so when a range is added that touches at
\* most two of its fragments: the merged fragment meets neither neighbour.
\* (A range that bridges three leaves overlapping fragments behind.)  The set
\* an update carries, added in clock order, is always in order.
AddingKeepsOrder ==
  /\ \A v \in {set, inbox, pending} \ {Vacant} : \A r \in Ranges :
       Normal(v) /\ Cardinality(Found(v.list, r)) <= 2 => \A u \in AddRange(v, r) : Normal(u)
  /\ \A g \in Generated(gone) : IsNormal(g)

\* The publisher's report names the clocks deleted since the last one, where
\* the set was in order at both times.
ReportsTheDifference ==
  [][last' # last /\ IsNormal(last) /\ IsNormal(last') => Reported(last, last') = CoversOf(last') \ CoversOf(last)]_setsVars
=============================================================================
