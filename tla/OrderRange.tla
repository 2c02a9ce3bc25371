----------------------------- MODULE OrderRange -----------------------------
(***************************************************************************)
(* OrderRange (common/range.rs), the sets of clocks a delete set keeps for *)
(* a client: either one half-open range, or a list of fragments meant to   *)
(* be in order and apart, searched by bisection.  Operators return the set *)
(* of outcomes the code can have: bisection of a list that is not in       *)
(* order, or that holds several equal elements, may end anywhere the       *)
(* library's contract allows.                                              *)
(***************************************************************************)
EXTENDS Integers, Sequences, SequencesExt

\* A range is a pair <<start, end>>; OrderRange::Range is a list of one range
\* that is not `frag`, OrderRange::Fragment any list that is.
Single(r) == [frag |-> FALSE, list |-> <<r>>]
Fragment(l) == [frag |-> TRUE, list |-> l]

Clocks(r) == r[1]..(r[2] - 1)
Covers(o) == UNION {Clocks(o.list[i]) : i \in DOMAIN o.list}

IsEmpty(o) == IF o.frag THEN o.list = <<>> ELSE o.list[1][1] >= o.list[1][2]

\* is_continuous_range: they overlap or touch.
Continuous(l, r) == l[2] >= r[1] /\ l[1] <= r[2]

Hull(l, r) == <<IF l[1] < r[1] THEN l[1] ELSE r[1], IF l[2] > r[2] THEN l[2] ELSE r[2]>>

\* The list without its element i + 1, which is merged into element i.
MergeNextToEnd(l, i) == RemoveAt(ReplaceAt(l, i, <<l[i][1], l[i + 1][2]>>), i + 1)
MergeNext(l, i) == RemoveAt(ReplaceAt(l, i, Hull(l[i], l[i + 1])), i + 1)

\* squash_around: element i is merged with the one before it and with the one
\* after it; when the first is done, i names the element after the merged
\* one, and what is compared then is that one and its successor.
SquashBefore(l, i) ==
  IF i > 1 /\ Continuous(l[i - 1], l[i]) THEN MergeNext(l, i - 1) ELSE l

SquashAround(l, i) ==
  LET l1 == IF i > 1 /\ Continuous(l[i - 1], l[i]) THEN MergeNext(l, i - 1) ELSE l
  IN IF i < Len(l1) /\ Continuous(l1[i], l1[i + 1]) THEN MergeNext(l1, i) ELSE l1

\* The comparison binary_search_by makes, and what it may answer: any equal
\* element, or the place to insert, when the list is in order for `r`;
\* anything of the right form when it is not.
Compared(l, r) == IF Continuous(l, r) THEN 0 ELSE IF l[2] < r[1] THEN -1 ELSE 1
InOrderFor(l, r) == \A i, j \in DOMAIN l : i < j => Compared(l[i], r) <= Compared(l[j], r)
Found(l, r) == {i \in DOMAIN l : Compared(l[i], r) = 0}
InsertPlaces(l, r) ==
  IF ~InOrderFor(l, r) THEN 1..(Len(l) + 1)
  ELSE IF Found(l, r) # {} THEN {}
  ELSE {i \in 1..(Len(l) + 1) : \A j \in DOMAIN l : (Compared(l[j], r) = -1) <=> j < i}

\* push_inner.
PushInner(l, r) ==
  IF l = <<>> THEN {<<r>>}
  ELSE {SquashAround(ReplaceAt(l, i, Hull(l[i], r)), i) : i \in Found(l, r)}
       \cup {SquashAround(InsertAt(l, i, r), i) : i \in InsertPlaces(l, r)}

MakeSingle(l) == IF Len(l) = 1 THEN Single(l[1]) ELSE Fragment(l)

Push(o, r) ==
  IF o.frag
  THEN IF o.list = <<>> THEN {Single(r)} ELSE {MakeSingle(l) : l \in PushInner(o.list, r)}
  ELSE LET old == o.list[1]
       IN {IF old[1] = old[2] THEN Single(r)
           ELSE IF Continuous(old, r) THEN Single(Hull(old, r))
           ELSE Fragment(IF old[1] < r[1] THEN <<old, r>> ELSE <<r, old>>)}

\* extend, with make_fragment before it: also `merge`, of another's ranges.
Extend(o, rs) ==
  LET start == IF ~o.frag /\ IsEmpty(o) THEN <<>> ELSE o.list
  IN {MakeSingle(l) : l \in FoldLeft(LAMBDA ls, r : UNION {PushInner(l, r) : l \in ls}, {start}, rs)}

\* The list is in order and its ranges are apart and not empty: what the
\* bisection and diff_range take for granted.
Normal(o) == /\ \A i \in DOMAIN o.list : o.list[i][1] < o.list[i][2]
             /\ \A i \in 1..(Len(o.list) - 1) : o.list[i][2] < o.list[i + 1][1]

-----------------------------------------------------------------------------
(* diff_range: what `new` has beyond `old`.                                *)

\* check_range_covered walks both lists once: the k-th old range has to lie
\* in the first new one from where the walk stands.  The walk stands at
\* Len(new) + 1 when it failed.
CoveredAt(old, new) ==
  LET at[k \in 0..Len(old)] ==
        IF k = 0 THEN 1
        ELSE LET fits == {n \in at[k - 1]..Len(new) : new[n][1] <= old[k][1] /\ old[k][2] <= new[n][2]}
             IN IF fits = {} THEN Len(new) + 1 ELSE CHOOSE n \in fits : \A m \in fits : n <= m
  IN at[Len(old)]
CheckRangeCovered(old, new) == new = <<>> \/ CoveredAt(old, new) <= Len(new)

\* How many old ranges have been consumed after the n-th new one: each takes
\* those that start no later than it ends.
Consumed(old, new) ==
  LET upto[n \in 0..Len(new)] ==
        IF n = 0 THEN 0
        ELSE CHOOSE k \in upto[n - 1]..Len(old) :
               /\ \A j \in (upto[n - 1] + 1)..k : old[j][1] <= new[n][2]
               /\ k < Len(old) => old[k + 1][1] > new[n][2]
  IN upto

\* The gaps the old ranges from `lo` to `hi` leave in the new range `r`.
GapsBefore(old, lo, hi, r) ==
  IF lo > hi THEN {r}
  ELSE {g \in {<<r[1], old[lo][1]>>} \cup {<<old[j][2], old[j + 1][1]>> : j \in lo..(hi - 1)} :
          g[1] < g[2]}
Gaps(old, lo, hi, r) ==
  IF lo > hi THEN {r}
  ELSE {g \in {<<r[1], old[lo][1]>>, <<old[hi][2], r[2]>>}
              \cup {<<old[j][2], old[j + 1][1]>> : j \in lo..(hi - 1)} : g[1] < g[2]}

DiffRange(o, n) ==
  IF ~CheckRangeCovered(o.list, n.list) THEN {}
  ELSE LET upto == Consumed(o.list, n.list)
       IN UNION {Gaps(o.list, upto[i - 1] + 1, upto[i], n.list[i]) : i \in DOMAIN n.list}
=============================================================================
