------------------------------ MODULE Conflict ------------------------------
(***************************************************************************)
(* What the list and the map types share: the replicas, their items and    *)
(* which of them are deleted, and the conflict loop of DocStore::integrate *)
(* (store.rs), which decides behind which of its siblings a new item goes. *)
(***************************************************************************)
EXTENDS Integers, FiniteSets, SequencesExt

CONSTANTS
    Client,      \* one client id per replica (naturals: ids break ties)
    MaxClock,    \* bound: client -> items it creates
    MaxRemovals  \* bound: deletions made by hand

ASSUME ConflictAssumption ==
    /\ Client \subseteq Nat /\ IsFiniteSet(Client)
    /\ MaxClock \in [Client -> Nat]
    /\ MaxRemovals \in Nat

Id == UNION {{c} \X (0..MaxClock[c] - 1) : c \in Client}

VARIABLE
    deleted      \* per replica: its deleted items

\* "no item": Somr::none(), or an absent origin.
None == <<>>

\* One turn of the loop, at the node whose first id is c.  The two sets hold
\* the first ids of nodes; originLeft[c] is the last id of one.
Turn(this, originLeft, originRight, acc, c) ==
    LET before == acc.before \cup {c}
        conflicting == acc.conflicting \cup {c}
        pass == [acc EXCEPT !.before = before, !.conflicting = conflicting]
        goAfter == [pass EXCEPT !.left = c, !.conflicting = {}]
        stop == [pass EXCEPT !.stopped = TRUE]
        left == originLeft[c]
        sameLeft == left = originLeft[this]
        behindOne == left \in before /\ left \notin conflicting
    IN  CASE acc.stopped -> acc
          [] ~acc.stopped /\ sameLeft /\ c[1] < this[1] -> goAfter
          [] ~acc.stopped /\ sameLeft /\ c[1] >= this[1] ->
               IF originRight[c] = originRight[this] THEN stop ELSE pass
          [] ~acc.stopped /\ ~sameLeft /\ left # None ->
               IF behindOne THEN goAfter ELSE pass
          [] ~acc.stopped /\ ~sameLeft /\ left = None -> stop

\* The loop's `left` when it ends; it starts as the origin of `this`.
LeftAfterConflicts(this, siblings, originLeft, originRight) ==
    FoldLeft(LAMBDA acc, c : Turn(this, originLeft, originRight, acc, c),
             [left |-> originLeft[this], before |-> {}, conflicting |-> {}, stopped |-> FALSE],
             siblings).left
=============================================================================
