---------------------------- MODULE TypesProofs ----------------------------
(***************************************************************************)
(* Proofs about the types of jwst-codec, for any clients and any number of *)
(* items and removals.                                                     *)
(*                                                                         *)
(* YMap: the links of a key's items agree in both directions, a value      *)
(* written over is never the entry again, and a client reads its own write.*)
(*                                                                         *)
(* YList: nothing is linked inside a node, nothing but what somebody       *)
(* removed is deleted, and, of items typed one at a time, every one stays  *)
(* between its origins and replicas with the same items have the same      *)
(* order and the same content.                                             *)
(*                                                                         *)
(* DeleteSets: no deletion is lost or made up, adding keeps a list in      *)
(* order where at most two fragments meet, and the publisher reports       *)
(* exactly what is new.                                                    *)
(***************************************************************************)
EXTENDS YMap, YList, DeleteSets, FiniteSetTheorems, WellFoundedInduction, TLAPS

-----------------------------------------------------------------------------
(* Induction over the naturals, for a set of numbers in place of a         *)
(* predicate, and the recursion that it justifies.                         *)

\* A set of naturals that is not empty has a least element.
LEMMA LeastOf ==
  ASSUME NEW S, S \subseteq Nat, S # {}
  PROVE  \E n \in S : \A m \in S : n <= m
PROOF
<1>1. PICK R : R = OpToRel(<, Nat)
  OBVIOUS
<1>2. R = {ss \in Nat \X Nat : ss[1] < ss[2]}
  BY <1>1 DEF OpToRel
<1>3. IsWellFoundedOn(R, Nat)
  BY <1>1, NatLessThanWellFounded
<1>4. PICK n \in S : \A m \in S : ~(<<m, n>> \in R)
  BY <1>3, WFMin
<1>5. ASSUME NEW m \in S PROVE n <= m
  <2>1. m \in Nat /\ n \in Nat /\ (m < n => <<m, n>> \in R)
    BY <1>2
  <2>2. QED BY <2>1, <1>4
<1>6. QED BY <1>5

\* A set that holds 0 and, with a number, the next one holds them all.
LEMMA Induction ==
  ASSUME NEW S, 0 \in S, \A n \in Nat : n \in S => n + 1 \in S
  PROVE  Nat \subseteq S
PROOF
<1> SUFFICES ASSUME Nat \ S # {} PROVE FALSE
  OBVIOUS
<1>1. PICK n \in Nat \ S : \A m \in Nat \ S : n <= m
  <2>1. Nat \ S \subseteq Nat
    OBVIOUS
  <2>2. QED BY <2>1, LeastOf
<1>2. n - 1 \in Nat /\ n - 1 \in S
  BY <1>1
<1>3. (n - 1) + 1 \in S
  BY <1>2
<1>4. QED BY <1>1, <1>3

\* g starts at a and takes the given step at each number up to N.
Computes(g, N, S, a, step) ==
  g \in [0..N -> S] /\ g[0] = a /\ \A n \in 1..N : g[n] = step[n][g[n - 1]]

\* There is such a function: what the folds and the walks below are defined by.
LEMMA Recursion ==
  ASSUME NEW N \in Nat, NEW S, NEW a \in S, NEW step \in [1..N -> [S -> S]]
  PROVE  \E g : Computes(g, N, S, a, step)
PROOF
<1> DEFINE Upto(k, g) == /\ g \in [0..N -> S] /\ g[0] = a
                         /\ \A n \in 1..N : n <= k => g[n] = step[n][g[n - 1]]
           T == {k \in Nat : \E g : Upto(k, g)}
<1>1. 0 \in T
  <2>1. Upto(0, [n \in 0..N |-> a])
    OBVIOUS
  <2> HIDE DEF Upto
  <2>2. QED BY <2>1
<1>2. ASSUME NEW k \in Nat, k \in T PROVE k + 1 \in T
  <2>1. PICK g : Upto(k, g)
    BY <1>2
  <2>2. CASE k + 1 \in 1..N
    <3>1. PICK v : v = step[k + 1][g[k]]
      OBVIOUS
    <3>2. g[k] \in S /\ v \in S
      BY <2>1, <2>2, <3>1
    <3>3. PICK h : h = [n \in 0..N |-> IF n = k + 1 THEN v ELSE g[n]]
      OBVIOUS
    <3>4. h \in [0..N -> S] /\ h[0] = a
      BY <2>1, <3>2, <3>3
    <3>5. ASSUME NEW n \in 1..N, n <= k + 1 PROVE h[n] = step[n][h[n - 1]]
      <4>1. n - 1 \in 0..N /\ h[n - 1] = g[n - 1]
        BY <3>3, <3>5
      <4>2. CASE n = k + 1
        BY <4>1, <4>2, <3>1, <3>3
      <4>3. CASE n # k + 1
        <5>1. n <= k /\ h[n] = g[n] /\ g[n] = step[n][g[n - 1]]
          BY <4>3, <3>3, <3>5, <2>1
        <5>2. QED BY <5>1, <4>1
      <4>4. QED BY <4>2, <4>3
    <3>6. Upto(k + 1, h)
      BY <3>4, <3>5
    <3> HIDE DEF Upto
    <3>7. QED BY <3>6
  <2>3. CASE k + 1 \notin 1..N
    <3>1. Upto(k + 1, g)
      BY <2>1, <2>3
    <3> HIDE DEF Upto
    <3>2. QED BY <3>1
  <2>4. QED BY <2>2, <2>3
<1>3. N \in T
  <2> HIDE DEF T
  <2>1. QED BY <1>1, <1>2, Induction
<1>4. QED BY <1>3 DEF Computes

Acc(a) == a = [left |-> a.left, before |-> a.before, conflicting |-> a.conflicting,
               stopped |-> a.stopped]

\* A turn of the conflict loop leaves `left` alone or moves it to the item seen.
LEMMA TurnOnce ==
  ASSUME NEW this, NEW oL, NEW oR, NEW a, Acc(a), a.stopped \in BOOLEAN, NEW c,
         c[1] \in Int, this[1] \in Int
  PROVE  /\ Acc(Turn(this, oL, oR, a, c)) /\ Turn(this, oL, oR, a, c).stopped \in BOOLEAN
         /\ Turn(this, oL, oR, a, c).left \in {a.left, c}
PROOF
<1>1. PICK l, b, g, s : a = [left |-> l, before |-> b, conflicting |-> g, stopped |-> s]
  BY DEF Acc
<1>2. PICK b2, g2 : b2 = b \cup {c} /\ g2 = g \cup {c}
  OBVIOUS
<1>3. a.stopped \in BOOLEAN /\ a.left = l
  BY <1>1
<1>4. PICK p : p = [a EXCEPT !.before = a.before \cup {c}, !.conflicting = a.conflicting \cup {c}]
  OBVIOUS
<1>5. p = [left |-> l, before |-> b2, conflicting |-> g2, stopped |-> s]
  BY <1>1, <1>2, <1>4
<1>6. PICK q : q = [p EXCEPT !.left = c, !.conflicting = {}]
  OBVIOUS
<1>7. q = [left |-> c, before |-> b2, conflicting |-> {}, stopped |-> s]
  BY <1>5, <1>6
<1>8. PICK x : x = [p EXCEPT !.stopped = TRUE]
  OBVIOUS
<1>9. x = [left |-> l, before |-> b2, conflicting |-> g2, stopped |-> TRUE]
  BY <1>5, <1>8
<1>10. Turn(this, oL, oR, a, c) \in {a, p, q, x}
  BY <1>3, <1>4, <1>6, <1>8 DEF Turn
<1>11. \A y \in {a, p, q, x} : Acc(y) /\ y.left \in {a.left, c}
  BY <1>1, <1>3, <1>5, <1>7, <1>9 DEF Acc
<1>12. s = a.stopped /\ p.stopped = s /\ q.stopped = s /\ x.stopped = TRUE
  BY <1>1, <1>5, <1>7, <1>9
<1>13. \A y \in {a, p, q, x} : y.stopped \in BOOLEAN
  BY <1>3, <1>12
<1>14. QED BY <1>10, <1>11, <1>13

\* What the loop of integrate has found after each item it visits.
Unrolled(this, sib, oL, oR, acc) ==
  /\ acc[0] = [left |-> oL[this], before |-> {}, conflicting |-> {}, stopped |-> FALSE]
  /\ \A k \in 1..Len(sib) : acc[k] = Turn(this, oL, oR, acc[k - 1], sib[k])
  /\ LeftAfterConflicts(this, sib, oL, oR) = acc[Len(sib)].left

\* The loop of integrate, turn by turn.
LEMMA LoopUnrolled ==
  ASSUME NEW this, NEW sib, NEW Set, sib \in Seq(Set), NEW oL, NEW oR
  PROVE  \E acc : Unrolled(this, sib, oL, oR, acc)
PROOF
<1> DEFINE D == DOMAIN sib
           base == [left |-> oL[this], before |-> {}, conflicting |-> {}, stopped |-> FALSE]
           F(g) == [s \in SUBSET D |-> IF s = {} THEN base
                      ELSE LET x == Max(s) IN Turn(this, oL, oR, g[s \ {x}], sib[x])]
           it == CHOOSE g : g = F(g)
<1>1. LeftAfterConflicts(this, sib, oL, oR) = it[D].left
  BY DEF LeftAfterConflicts, FoldLeft, MapThenFoldSet
<1>2. D \in SUBSET Nat /\ IsFiniteSet(D) /\ \A x \in D : sib[x] \in Set
  BY FS_Interval
<1>3. \A s \in SUBSET D : s # {} => Max(s) \in s
  <2> SUFFICES ASSUME NEW s \in SUBSET D, s # {} PROVE Max(s) \in s
    OBVIOUS
  <2>1. \E n \in s : \A m \in s : n >= m
    <3>1. PICK k \in Nat : D = 1..k
      OBVIOUS
    <3>2. {k - n : n \in s} \subseteq Nat /\ {k - n : n \in s} # {}
      BY <3>1
    <3>3. PICK j \in {k - n : n \in s} : \A i \in {k - n : n \in s} : j <= i
      BY <3>2, LeastOf
    <3>4. k - j \in s /\ \A m \in s : j <= k - m
      BY <3>1, <3>3
    <3>5. QED BY <3>1, <3>3, <3>4
  <2>2. QED BY <2>1 DEF Max
<1>4. \A s \in SUBSET D : /\ IsFiniteSet(s) /\ Cardinality(s) \in Nat
                          /\ s # {} => /\ s \ {Max(s)} \in SUBSET D
                                       /\ Cardinality(s \ {Max(s)}) = Cardinality(s) - 1
                          /\ Cardinality(s) = 0 <=> s = {}
  BY <1>2, <1>3, FS_Subset, FS_CardinalityType, FS_RemoveElement, FS_EmptySet
<1> DEFINE Upto(k) == {s \in SUBSET D : Cardinality(s) <= k}
           T == {k \in Nat : \E g : \A s \in Upto(k) : g[s] = F(g)[s]}
<1>5. 0 \in T
  <2>1. \A s \in Upto(0) : s = {}
    <3> HIDE DEF D
    <3>1. ASSUME NEW s \in Upto(0) PROVE s = {}
      <4>1. Cardinality(s) \in Nat /\ (Cardinality(s) = 0 <=> s = {})
        BY <1>4
      <4>2. QED BY <4>1
    <3>2. QED BY <3>1
  <2>2. \A s \in Upto(0) : [x \in SUBSET D |-> base][s] = F([x \in SUBSET D |-> base])[s]
    <3> HIDE DEF base
    <3>1. QED BY <2>1
  <2>3. QED BY <2>2
<1>6. ASSUME NEW k \in Nat, k \in T PROVE k + 1 \in T
  <2>1. PICK g : \A s \in Upto(k) : g[s] = F(g)[s]
    BY <1>6
  <2>2. ASSUME NEW s \in Upto(k + 1) PROVE F(g)[s] = F(F(g))[s]
    <3>1. CASE s = {}
      <4> HIDE DEF base
      <4>1. QED BY <3>1
    <3>2. CASE s # {}
      <4>1. s \ {Max(s)} \in Upto(k)
        <5> HIDE DEF D
        <5>1. s \in SUBSET D /\ Cardinality(s) <= k + 1
          OBVIOUS
        <5>2. /\ s \ {Max(s)} \in SUBSET D /\ Cardinality(s) \in Nat
              /\ Cardinality(s \ {Max(s)}) = Cardinality(s) - 1
          BY <3>2, <5>1, <1>4
        <5>3. QED BY <5>1, <5>2
      <4>2. F(g)[s \ {Max(s)}] = g[s \ {Max(s)}]
        BY <4>1, <2>1
      <4> HIDE DEF base
      <4>3. s \in SUBSET D
        OBVIOUS
      <4>4. F(g)[s] = Turn(this, oL, oR, g[s \ {Max(s)}], sib[Max(s)])
        <5> HIDE DEF D
        <5>1. QED BY <3>2, <4>3
      <4>5. F(F(g))[s] = Turn(this, oL, oR, F(g)[s \ {Max(s)}], sib[Max(s)])
        <5> HIDE DEF D
        <5>1. QED BY <3>2, <4>3
      <4>6. QED BY <4>2, <4>4, <4>5
    <3>3. QED BY <3>1, <3>2
  <2> HIDE DEF F, Upto
  <2>3. \E h : \A s \in Upto(k + 1) : h[s] = F(h)[s]
    BY <2>2
  <2>4. QED BY <2>3
<1>7. \E g : \A s \in SUBSET D : g[s] = F(g)[s]
  <2>1. Nat \subseteq T
    <3> HIDE DEF T
    <3>1. QED BY <1>5, <1>6, Induction
  <2>2. Cardinality(D) \in Nat /\ Upto(Cardinality(D)) = SUBSET D
    <3> HIDE DEF D
    <3>1. \A s \in SUBSET D : Cardinality(s) <= Cardinality(D)
      BY <1>2, FS_Subset
    <3>2. QED BY <3>1, <1>4
  <2> HIDE DEF F, Upto, D
  <2>3. QED BY <2>1, <2>2
<1>8. it = F(it)
  <2>1. PICK g : \A s \in SUBSET D : g[s] = F(g)[s]
    BY <1>7
  <2>2. F(F(g)) = F(g)
    <3>1. \A s \in SUBSET D : F(g)[s] = g[s]
      BY <2>1
    <3>2. \A s \in SUBSET D : s # {} => F(g)[s \ {Max(s)}] = g[s \ {Max(s)}]
      <4> HIDE DEF F, D
      <4>1. QED BY <3>1, <1>4
    <3>3. \A s \in SUBSET D : F(F(g))[s] = F(g)[s]
      <4> HIDE DEF D, base
      <4>1. QED BY <3>2
    <3>4. F(g) = [s \in SUBSET D |-> F(g)[s]] /\ F(F(g)) = [s \in SUBSET D |-> F(F(g))[s]]
      OBVIOUS
    <3> HIDE DEF F, D
    <3>5. QED BY <3>3, <3>4
  <2> HIDE DEF F
  <2>3. QED BY <2>2
<1>9. \A s \in SUBSET D :
        it[s] = IF s = {} THEN base
                ELSE Turn(this, oL, oR, it[s \ {Max(s)}], sib[Max(s)])
  <2>1. PICK h : h = it
    OBVIOUS
  <2>2. h = F(h)
    BY <1>8, <2>1
  <2> HIDE DEF it, base, D
  <2>3. QED BY <2>1, <2>2
<1> HIDE DEF it
<1>10. PICK n \in Nat : n = Len(sib) /\ D = 1..n
  OBVIOUS
<1> HIDE DEF base, D
<1>11. PICK acc : acc = [k \in 0..n |-> it[1..k]]
  OBVIOUS
<1>12. acc[0] = base
  <2>1. 1..0 = {} /\ 0 \in 0..n /\ {} \in SUBSET D
    OBVIOUS
  <2>2. acc[0] = it[{}]
    BY <1>11, <2>1
  <2>3. QED BY <2>1, <2>2, <1>9
<1>13. ASSUME NEW k \in 1..n
      PROVE  acc[k] = Turn(this, oL, oR, acc[k - 1], sib[k])
  <2>1. k - 1 \in 0..n /\ k \in 0..n /\ 1..k \in SUBSET D /\ 1..k # {}
    <3>1. k \in 1..k /\ 1..k \subseteq 1..n /\ k - 1 \in 0..n /\ k \in 0..n
      OBVIOUS
    <3>2. QED BY <3>1, <1>10
  <2>2. (1..k) \ {k} = 1..k - 1
    OBVIOUS
  <2>3. Max(1..k) = k
    <3>1. k \in 1..k /\ \A m \in 1..k : k >= m
      OBVIOUS
    <3>2. PICK S : S = 1..k
      OBVIOUS
    <3>3. Max(S) \in S /\ \A m \in S : Max(S) >= m
      BY <3>1, <3>2 DEF Max
    <3>4. QED BY <3>1, <3>2, <3>3
  <2>4. it[1..k] = Turn(this, oL, oR, it[(1..k) \ {Max(1..k)}], sib[Max(1..k)])
    BY <2>1, <1>9
  <2>5. QED BY <2>1, <2>2, <2>3, <2>4, <1>11
<1>14. LeftAfterConflicts(this, sib, oL, oR) = acc[Len(sib)].left
  <2>1. acc[n] = it[1..n]
    BY <1>11, <1>10
  <2>2. QED BY <2>1, <1>1, <1>10
<1>15. QED
  <2>1. Unrolled(this, sib, oL, oR, acc)
    BY <1>10, <1>12, <1>13, <1>14 DEF base, Unrolled
  <2>2. QED BY <2>1

\* So the loop of integrate ends behind the item's own origin or behind one of
\* the items it visited.
LEMMA BackToSibling ==
  ASSUME NEW this, NEW sib, NEW Set, sib \in Seq(Set), NEW oL, NEW oR,
         this[1] \in Int, \A c \in Set : c[1] \in Int
  PROVE  /\ LeftAfterConflicts(this, sib, oL, oR) \in {oL[this]} \cup Set
         /\ sib = <<>> => LeftAfterConflicts(this, sib, oL, oR) = oL[this]
PROOF
<1>1. PICK acc : Unrolled(this, sib, oL, oR, acc)
  BY LoopUnrolled
<1> DEFINE Good(a) == Acc(a) /\ a.stopped \in BOOLEAN /\ a.left \in {oL[this]} \cup Set
           W == {k \in Nat : k <= Len(sib) => Good(acc[k])}
<1>2. acc[0].left = oL[this]
  BY <1>1 DEF Unrolled
<1>3. 0 \in W
  <2>1. Good(acc[0])
    BY <1>1 DEF Acc, Unrolled
  <2> HIDE DEF Good
  <2>2. QED BY <2>1
<1>4. ASSUME NEW k \in Nat, k \in W PROVE k + 1 \in W
  <2> SUFFICES ASSUME k + 1 <= Len(sib) PROVE Good(acc[k + 1])
    OBVIOUS
  <2>1. Len(sib) \in Nat /\ k + 1 \in 1..Len(sib) /\ (k + 1) - 1 = k /\ sib[k + 1] \in Set
    OBVIOUS
  <2>2. acc[k + 1] = Turn(this, oL, oR, acc[k], sib[k + 1])
    BY <2>1, <1>1 DEF Unrolled
  <2>3. Good(acc[k])
    BY <2>1, <1>4
  <2>4. QED BY <2>1, <2>2, <2>3, TurnOnce
<1>5. Good(acc[Len(sib)])
  <2>1. Nat \subseteq W
    <3> HIDE DEF W
    <3>1. QED BY <1>3, <1>4, Induction
  <2>2. Len(sib) \in Nat
    OBVIOUS
  <2>3. QED BY <2>1, <2>2
<1>6. QED BY <1>1, <1>2, <1>5 DEF Unrolled

-----------------------------------------------------------------------------
(* The items there may be, and those of one client.                        *)

\* As many items as clocks.
LEMMA RowSize ==
  ASSUME NEW c, NEW n \in Nat
  PROVE  IsFiniteSet({c} \X (0..n - 1)) /\ Cardinality({c} \X (0..n - 1)) = n
PROOF
<1>1. IsFiniteSet({c}) /\ Cardinality({c}) = 1
  BY FS_Singleton
<1>2. IsFiniteSet(0..n - 1) /\ Cardinality(0..n - 1) = n
  BY FS_Interval
<1>3. /\ IsFiniteSet({c} \X (0..n - 1))
      /\ Cardinality({c} \X (0..n - 1)) = Cardinality({c}) * Cardinality(0..n - 1)
  BY <1>1, <1>2, FS_Product
<1>4. QED BY <1>1, <1>2, <1>3

\* There are finitely many, which is what bounds the walks.
LEMMA IdFinite == IsFiniteSet(Id) /\ Cardinality(Id) \in Nat
PROOF
<1> DEFINE row == [c \in Client |-> {c} \X (0..MaxClock[c] - 1)]
           Rows == {row[c] : c \in Client}
<1>1. IsFiniteSet(Client) /\ MaxClock \in [Client -> Nat]
  BY ConflictAssumption
<1>2. row \in Surjection(Client, Rows)
  BY DEF Surjection
<1>3. IsFiniteSet(Rows)
  <2> HIDE DEF Rows, row
  <2>1. QED BY <1>1, <1>2, FS_Surjection
<1>4. ASSUME NEW S \in Rows PROVE IsFiniteSet(S)
  <2>1. PICK c \in Client : S = row[c]
    OBVIOUS
  <2>2. MaxClock[c] \in Nat /\ S = {c} \X (0..MaxClock[c] - 1)
    BY <1>1, <2>1
  <2>3. QED BY <2>2, RowSize
<1>5. Id = UNION Rows
  BY DEF Id
<1>6. IsFiniteSet(UNION Rows)
  <2> HIDE DEF Rows
  <2>1. QED BY <1>3, <1>4, FS_UNION
<1>7. QED BY <1>5, <1>6, FS_CardinalityType

\* An item is its client and its clock, and None is no item.
LEMMA Ids ==
  /\ None \notin Id
  /\ \A i \in Id : i[1] \in Client /\ i[1] \in Int /\ i[2] \in Nat /\ i = <<i[1], i[2]>>
  /\ \A c \in Client, n \in Nat : n < MaxClock[c] => <<c, n>> \in Id
PROOF
<1>1. Client \subseteq Nat /\ MaxClock \in [Client -> Nat]
  BY ConflictAssumption
<1>2. ASSUME NEW i \in Id
      PROVE  i # None /\ i[1] \in Client /\ i[1] \in Int /\ i[2] \in Nat /\ i = <<i[1], i[2]>>
  <2>1. PICK c \in Client : i \in {c} \X (0..MaxClock[c] - 1)
    BY DEF Id
  <2>2. PICK k \in 0..MaxClock[c] - 1 : i = <<c, k>>
    BY <2>1
  <2>3. QED BY <1>1, <2>2 DEF None
<1>3. ASSUME NEW c \in Client, NEW n \in Nat, n < MaxClock[c] PROVE <<c, n>> \in Id
  <2>1. MaxClock[c] \in Nat /\ n \in 0..MaxClock[c] - 1
    BY <1>1, <1>3
  <2>2. QED BY <2>1 DEF Id
<1>4. QED BY <1>2, <1>3

-----------------------------------------------------------------------------
(* The walk over the items of a key.                                       *)

\* The items visited are held, and there are none when nothing is to the right.
LEMMA SiblingsHeld ==
  ASSUME NEW r \in Client, right[r] \in [Held(r) -> Held(r) \cup {None}],
         NEW o \in Held(r) \cup {None}, entry[r] \in Held(r) \cup {None},
         Cardinality(Id) \in Nat
  PROVE  /\ Siblings(r, o) \in Seq(Held(r))
         /\ (IF o = None THEN entry[r] ELSE right[r][o]) = None => Siblings(r, o) = <<>>
PROOF
<1> DEFINE N == Cardinality(Id)
           H == Held(r)
           first == IF o = None THEN entry[r] ELSE right[r][o]
           G(n, before) == LET i == CASE before = <<>> -> IF n = 1 THEN first ELSE None
                                      [] before # <<>> -> right[r][Last(before)]
                           IN  IF i = None THEN before ELSE Append(before, i)
           F(g) == [n \in 0..N |-> IF n = 0 THEN <<>> ELSE G(n, g[n - 1])]
           it == CHOOSE g : g = F(g)
<1>1. Siblings(r, o) = it[N]
  BY DEF Siblings
<1>2. N \in Nat /\ first \in H \cup {None}
  OBVIOUS
<1> HIDE DEF N
<1>3. ASSUME NEW n \in 1..N, NEW s \in Seq(H) PROVE G(n, s) \in Seq(H)
  <2>1. CASE s = <<>>
    BY <2>1, <1>2
  <2>2. CASE s # <<>>
    <3>1. Last(s) \in H
      BY <2>2 DEF Last
    <3>2. QED BY <3>1, <2>2
  <2>3. QED BY <2>1, <2>2
<1>4. \E g : g = F(g)
  <2> DEFINE step == [n \in 1..N |-> [s \in Seq(H) |-> G(n, s)]]
  <2>1. step \in [1..N -> [Seq(H) -> Seq(H)]]
    <3> HIDE DEF G, H
    <3>1. QED BY <1>3
  <2>2. PICK g : Computes(g, N, Seq(H), <<>>, step)
    <3> HIDE DEF step, H
    <3>1. N \in Nat /\ <<>> \in Seq(H)
      BY <1>2
    <3>2. QED BY <3>1, <2>1, Recursion
  <2>3. /\ g \in [0..N -> Seq(H)] /\ g[0] = <<>>
        /\ \A n \in 1..N : g[n] = step[n][g[n - 1]]
    BY <2>2 DEF Computes
  <2>4. ASSUME NEW n \in 0..N PROVE g[n] = IF n = 0 THEN <<>> ELSE G(n, g[n - 1])
    <3>1. CASE n = 0
      BY <3>1, <2>3
    <3>2. CASE n # 0
      <4>1. n \in 1..N /\ n - 1 \in 0..N
        BY <3>2, <1>2
      <4>2. g[n - 1] \in Seq(H) /\ g[n] = step[n][g[n - 1]]
        <5> HIDE DEF step
        <5>1. QED BY <4>1, <2>3
      <4> HIDE DEF G, H
      <4>3. QED BY <3>2, <4>1, <4>2
    <3>3. QED BY <3>1, <3>2
  <2> HIDE DEF G
  <2>5. QED BY <2>3, <2>4
<1>5. it = F(it)
  <2> HIDE DEF F
  <2>1. QED BY <1>4
<1>6. \A n \in 0..N : it[n] = IF n = 0 THEN <<>> ELSE G(n, it[n - 1])
  <2>1. PICK h : h = it
    OBVIOUS
  <2>2. h = F(h)
    <3> HIDE DEF it, F
    <3>1. QED BY <1>5, <2>1
  <2> HIDE DEF it, G
  <2>3. QED BY <2>1, <2>2
<1> HIDE DEF it
<1> DEFINE W == {k \in Nat : k \in 0..N => /\ it[k] \in Seq(H)
                                           /\ first = None => it[k] = <<>>}
<1>7. 0 \in W
  <2>1. 0 \in 0..N
    BY <1>2
  <2>2. it[0] = <<>>
    <3> HIDE DEF G
    <3>1. QED BY <2>1, <1>6
  <2>3. it[0] \in Seq(H)
    <3>1. <<>> \in Seq(H)
      OBVIOUS
    <3>2. QED BY <2>2, <3>1
  <2> HIDE DEF H, first
  <2>4. QED BY <2>2, <2>3
<1>8. ASSUME NEW k \in Nat, k \in W PROVE k + 1 \in W
  <2> SUFFICES ASSUME k + 1 \in 0..N
               PROVE  it[k + 1] \in Seq(H) /\ (first = None => it[k + 1] = <<>>)
    OBVIOUS
  <2>1. it[k] \in Seq(H) /\ (first = None => it[k] = <<>>) /\ it[k + 1] = G(k + 1, it[k])
    <3>1. k \in 0..N /\ (k + 1) - 1 = k /\ k + 1 # 0
      BY <1>2
    <3>2. it[k] \in Seq(H) /\ (first = None => it[k] = <<>>)
      BY <3>1, <1>8
    <3> HIDE DEF G
    <3>3. it[k + 1] = G(k + 1, it[k])
      BY <3>1, <1>6
    <3>4. QED BY <3>2, <3>3
  <2>2. PICK s : s = it[k]
    OBVIOUS
  <2>3. s \in Seq(H) /\ (first = None => s = <<>>)
    BY <2>1, <2>2
  <2>4. CASE s = <<>>
    BY <2>1, <2>2, <2>3, <2>4, <1>2
  <2>5. CASE s # <<>>
    <3>1. Last(s) \in H
      BY <2>3, <2>5 DEF Last
    <3>2. PICK i : i = right[r][Last(s)]
      OBVIOUS
    <3>3. i \in H \cup {None}
      BY <3>1, <3>2
    <3>4. G(k + 1, s) = IF i = None THEN s ELSE Append(s, i)
      BY <2>5, <3>2
    <3> HIDE DEF G
    <3>5. it[k + 1] = IF i = None THEN s ELSE Append(s, i)
      BY <2>1, <2>2, <3>4
    <3>6. it[k + 1] \in Seq(H)
      BY <2>3, <3>3, <3>5
    <3>7. first # None
      BY <2>3, <2>5
    <3>8. QED BY <3>6, <3>7
  <2>6. QED BY <2>4, <2>5
<1>9. N \in W
  <2> HIDE DEF W
  <2>1. QED BY <1>2, <1>7, <1>8, Induction
<1>10. QED BY <1>1, <1>2, <1>9

\* The walk of Node::head along left ends at no item, wherever it starts: every
\* step is to an item further left, and there are fewer than the walk has steps.
LEMMA HeadEnds ==
  ASSUME NEW r \in Client, left[r] \in [Held(r) -> Held(r) \cup {None}],
         NEW e \in Held(r) \cup {None}, Cardinality(Id) \in Nat,
         NEW rank \in [Held(r) -> Nat],
         \A i \in Held(r) : /\ left[r][i] # None => rank[left[r][i]] < rank[i]
                            /\ rank[i] < Cardinality(Id)
  PROVE  HeadOf(r, e) = None
PROOF
<1> DEFINE N == Cardinality(Id)
           H == Held(r)
           G(x) == IF x = None THEN None ELSE left[r][x]
           F(g) == [n \in 0..N |-> IF n = 0 THEN e
                                   ELSE IF g[n - 1] = None THEN None ELSE left[r][g[n - 1]]]
           it == CHOOSE g : g = F(g)
<1>1. HeadOf(r, e) = it[N]
  BY DEF HeadOf
<1>2. N \in Nat /\ \A x \in H \cup {None} : G(x) \in H \cup {None}
  OBVIOUS
<1>3. \A i \in H : /\ left[r][i] # None => rank[left[r][i]] < rank[i]
                   /\ rank[i] < N /\ rank[i] \in Nat
  OBVIOUS
<1> HIDE DEF N
<1>4. \E g : g = F(g)
  <2> DEFINE S == H \cup {None}
             step == [n \in 1..N |-> [x \in S |-> G(x)]]
  <2>1. step \in [1..N -> [S -> S]]
    <3> HIDE DEF G, S
    <3>1. \A x \in S : G(x) \in S
      BY <1>2 DEF S
    <3>2. QED BY <3>1
  <2>2. PICK g : Computes(g, N, S, e, step)
    <3>1. N \in Nat /\ e \in S
      BY <1>2
    <3> HIDE DEF step, S
    <3>2. QED BY <3>1, <2>1, Recursion
  <2>3. g \in [0..N -> S] /\ g[0] = e /\ \A n \in 1..N : g[n] = step[n][g[n - 1]]
    <3> HIDE DEF S, step
    <3>1. QED BY <2>2 DEF Computes
  <2>4. ASSUME NEW n \in 1..N PROVE g[n] = G(g[n - 1])
    <3>1. n - 1 \in 0..N
      BY <1>2
    <3>2. g[n - 1] \in S /\ g[n] = step[n][g[n - 1]]
      <4> HIDE DEF step, S
      <4>1. QED BY <3>1, <2>3
    <3> HIDE DEF G, S
    <3>3. QED BY <3>2
  <2>5. g = [n \in 0..N |-> g[n]]
    <3> HIDE DEF S, step
    <3>1. QED BY <2>3
  <2>6. \A n \in 0..N : g[n] = F(g)[n]
    <3> HIDE DEF S, step
    <3>1. QED BY <2>3, <2>4, <1>2
  <2>7. F(g) = [n \in 0..N |-> F(g)[n]]
    OBVIOUS
  <2> HIDE DEF F
  <2>8. g = F(g)
    BY <2>5, <2>6, <2>7
  <2>9. QED BY <2>8
<1>5. it = F(it)
  <2> HIDE DEF F
  <2>1. QED BY <1>4
<1>6. it[0] = e /\ \A n \in 1..N : it[n] = G(it[n - 1])
  <2>1. PICK h : h = it
    OBVIOUS
  <2>2. h = F(h)
    <3> HIDE DEF it, F
    <3>1. QED BY <1>5, <2>1
  <2>3. F(h) = [n \in 0..N |-> IF n = 0 THEN e ELSE G(h[n - 1])]
    OBVIOUS
  <2>4. \A n \in 0..N : h[n] = IF n = 0 THEN e ELSE G(h[n - 1])
    <3> HIDE DEF it, F, G
    <3>1. QED BY <2>2, <2>3
  <2> HIDE DEF it, F, G
  <2>5. QED BY <2>1, <2>4, <1>2
<1> HIDE DEF it
<1> DEFINE W == {k \in Nat : k \in 0..N => it[k] = None \/ (it[k] \in H /\ rank[it[k]] + k < N)}
<1>7. 0 \in W
  <2>1. it[0] = None \/ (it[0] \in H /\ rank[it[0]] \in Nat /\ rank[it[0]] < N)
    BY <1>3, <1>6
  <2>2. QED BY <2>1, <1>2
<1>8. ASSUME NEW k \in Nat, k \in W PROVE k + 1 \in W
  <2> SUFFICES ASSUME k + 1 \in 0..N
               PROVE  it[k + 1] = None \/ (it[k + 1] \in H /\ rank[it[k + 1]] + (k + 1) < N)
    OBVIOUS
  <2>1. k \in 0..N /\ k + 1 \in 1..N /\ (k + 1) - 1 = k
    BY <1>2
  <2>2. it[k] = None \/ (it[k] \in H /\ rank[it[k]] + k < N)
    BY <2>1, <1>8
  <2>3. it[k + 1] = G(it[k])
    BY <2>1, <1>6
  <2>4. PICK x, y : x = it[k] /\ y = it[k + 1]
    OBVIOUS
  <2>5. CASE x = None
    BY <2>3, <2>4, <2>5
  <2>6. CASE x # None
    <3>1. x \in H /\ rank[x] + k < N /\ y = left[r][x]
      BY <2>2, <2>3, <2>4, <2>6
    <3>2. y \in H \cup {None}
      BY <3>1
    <3>3. y # None => rank[y] < rank[x] /\ rank[y] \in Nat /\ rank[x] \in Nat
      BY <3>1, <3>2, <1>3
    <3>4. QED BY <3>1, <3>2, <3>3, <2>4, <1>2
  <2>7. QED BY <2>5, <2>6
<1>9. N \in W
  <2> HIDE DEF W
  <2>1. QED BY <1>2, <1>7, <1>8, Induction
<1>10. it[N] # None => rank[it[N]] \in Nat /\ rank[it[N]] + N < N
  BY <1>2, <1>3, <1>9
<1>11. QED BY <1>1, <1>2, <1>10

\* What an item was written over was written over by an item held.
LEMMA AncestorsAreOrigins ==
  ASSUME NEW r \in Client, NEW i \in Held(r), Cardinality(Id) \in Nat,
         \A j \in Held(r) : origin[j] \in Held(r) \cup {None}
  PROVE  WrittenOver(r, i) \subseteq {origin[j] : j \in Held(r)}
PROOF
<1> DEFINE N == Cardinality(Id)
           H == Held(r)
           S == SUBSET {origin[j] : j \in H}
           G(x) == x \cup {origin[j] : j \in x \ {None}}
           F(g) == [n \in 0..N |-> IF n = 0 THEN {origin[i]}
                                   ELSE g[n - 1] \cup {origin[j] : j \in g[n - 1] \ {None}}]
           it == CHOOSE g : g = F(g)
<1>1. WrittenOver(r, i) = it[N] \ {None}
  BY DEF WrittenOver
<1>2. N \in Nat /\ {origin[i]} \in S /\ \A x \in S : G(x) \in S
  OBVIOUS
<1> HIDE DEF N, S
<1>3. \E g : g = F(g)
  <2> DEFINE step == [n \in 1..N |-> [x \in S |-> G(x)]]
  <2>1. step \in [1..N -> [S -> S]]
    <3> HIDE DEF G
    <3>1. QED BY <1>2
  <2>2. PICK g : Computes(g, N, S, {origin[i]}, step)
    <3> HIDE DEF step
    <3>1. QED BY <1>2, <2>1, Recursion
  <2>3. g \in [0..N -> S] /\ g[0] = {origin[i]} /\ \A n \in 1..N : g[n] = step[n][g[n - 1]]
    <3> HIDE DEF step
    <3>1. QED BY <2>2 DEF Computes
  <2>4. ASSUME NEW n \in 1..N PROVE g[n] = G(g[n - 1])
    <3>1. n - 1 \in 0..N
      BY <1>2
    <3>2. g[n - 1] \in S /\ g[n] = step[n][g[n - 1]]
      <4> HIDE DEF step
      <4>1. QED BY <3>1, <2>3
    <3> HIDE DEF G
    <3>3. QED BY <3>2
  <2>5. \A n \in 0..N : g[n] = IF n = 0 THEN {origin[i]} ELSE G(g[n - 1])
    <3> HIDE DEF step, G
    <3>1. QED BY <2>3, <2>4, <1>2
  <2>6. g = [n \in 0..N |-> IF n = 0 THEN {origin[i]} ELSE G(g[n - 1])]
    <3> HIDE DEF step, G
    <3>1. QED BY <2>3, <2>5
  <2>7. F(g) = [n \in 0..N |-> IF n = 0 THEN {origin[i]} ELSE G(g[n - 1])]
    OBVIOUS
  <2> HIDE DEF F
  <2>8. g = F(g)
    BY <2>6, <2>7
  <2>9. QED BY <2>8
<1>4. it = F(it)
  <2> HIDE DEF F
  <2>1. QED BY <1>3
<1>5. \A n \in 0..N : it[n] = IF n = 0 THEN {origin[i]} ELSE G(it[n - 1])
  <2>1. PICK h : h = it
    OBVIOUS
  <2>2. h = F(h)
    <3> HIDE DEF it, F
    <3>1. QED BY <1>4, <2>1
  <2>3. F(h) = [n \in 0..N |-> IF n = 0 THEN {origin[i]} ELSE G(h[n - 1])]
    OBVIOUS
  <2> HIDE DEF it, F, G
  <2>4. QED BY <2>1, <2>2, <2>3
<1> HIDE DEF it, G
<1> DEFINE W == {k \in Nat : k \in 0..N => it[k] \in S}
<1>6. 0 \in W
  BY <1>2, <1>5
<1>7. ASSUME NEW k \in Nat, k \in W PROVE k + 1 \in W
  <2> SUFFICES ASSUME k + 1 \in 0..N PROVE it[k + 1] \in S
    OBVIOUS
  <2>1. k \in 0..N /\ k + 1 # 0 /\ (k + 1) - 1 = k
    BY <1>2
  <2>2. it[k] \in S /\ it[k + 1] = G(it[k])
    BY <2>1, <1>5, <1>7
  <2>3. QED BY <2>2, <1>2
<1>8. N \in W
  <2> HIDE DEF W
  <2>1. QED BY <1>2, <1>6, <1>7, Induction
<1>9. QED BY <1>1, <1>2, <1>8 DEF S

-----------------------------------------------------------------------------
(* The invariant of a map.                                                 *)

\* Every item but those without a left has its left before it.
Ranked(r) ==
  \E rank \in [Held(r) -> Nat] :
    \A i \in Held(r) : /\ left[r][i] # None => rank[left[r][i]] < rank[i]
                       /\ rank[i] < Cardinality(Held(r))

\* The links, and the entry, which has nothing to its right.
Linked(r) ==
  /\ right[r] \in [Held(r) -> Held(r) \cup {None}]
  /\ left[r] \in [Held(r) -> Held(r) \cup {None}]
  /\ Held(r) \subseteq Id /\ entry[r] \in Held(r) \cup {None} /\ deleted[r] \subseteq Held(r)
  /\ Held(r) # {} => entry[r] # None
  /\ entry[r] # None => right[r][entry[r]] = None
  /\ \A i, j \in Held(r) : right[r][i] = j <=> left[r][j] = i
  /\ Ranked(r)

\* What an item was written over is there, and has something to its right.
Causal(r) ==
  /\ Held(r) \subseteq DOMAIN origin
  /\ \A i \in Held(r) : /\ origin[i] \in Held(r) \cup {None}
                        /\ origin[i] # None => right[r][origin[i]] # None

\* A client's items are numbered without a gap, and it holds them.
OwnItems(r) == {i \in DOMAIN origin : i[1] = r}
Own(r) == /\ OwnItems(r) \subseteq Held(r)
          /\ \E n \in Nat : OwnItems(r) = {r} \X (0..n - 1)

\* The inductive invariant.
MapInv ==
  /\ left = [r \in Client |-> left[r]] /\ right = [r \in Client |-> right[r]]
  /\ entry = [r \in Client |-> entry[r]] /\ deleted = [r \in Client |-> deleted[r]]
  /\ DOMAIN origin \subseteq Id
  /\ \A r \in Client : Linked(r) /\ Causal(r) /\ Own(r)

\* The number of the next item.
LEMMA NextClock ==
  ASSUME MapInv, NEW r \in Client
  PROVE  /\ KeyClock(r) \in Nat /\ OwnItems(r) = {r} \X (0..KeyClock(r) - 1)
         /\ <<r, KeyClock(r)>> \notin DOMAIN origin
PROOF
<1>1. PICK n \in Nat : OwnItems(r) = {r} \X (0..n - 1)
  BY DEF MapInv, Own
<1>2. {i \in Held(r) : i[1] = r} = OwnItems(r)
  BY DEF MapInv, Own, OwnItems, Causal
<1>3. KeyClock(r) = n
  <2>1. KeyClock(r) = Cardinality({r} \X (0..n - 1))
    BY <1>1, <1>2 DEF KeyClock
  <2>2. QED BY <2>1, RowSize
<1>4. <<r, n>> \notin {r} \X (0..n - 1)
  OBVIOUS
<1>5. <<r, n>> \notin DOMAIN origin
  BY <1>1, <1>4 DEF OwnItems
<1>6. QED BY <1>1, <1>3, <1>5

-----------------------------------------------------------------------------
(* An item is integrated.                                                  *)

\* Where it goes: behind its origin or a sibling, or at the left end, and what
\* is there on its right.
LEMMA Between ==
  ASSUME MapInv, NEW r \in Client, NEW this \in Id, NEW og,
         og[this] \in Held(r) \cup {None}, IntegrateKey(r, this, og)
  PROVE  \E l, rt \in Held(r) \cup {None} :
           /\ rt = IF l = None THEN None ELSE right[r][l]
           /\ (IF og[this] = None THEN entry[r] ELSE right[r][og[this]]) = None => l = og[this]
           /\ og[this] # None => l # None
           /\ left' = [left EXCEPT ![r] = LeftLinks(r, this, l, rt)]
           /\ right' = [right EXCEPT ![r] = RightLinks(r, this, l, rt)]
           /\ entry' = [entry EXCEPT ![r] = EntryAfter(r, this, l, rt)]
           /\ deleted' = [deleted EXCEPT ![r] = deleted[r] \cup DeletedBy(r, this, l, rt)]
PROOF
<1>1. Linked(r) /\ Cardinality(Id) \in Nat /\ None \notin Held(r)
      /\ deleted = [s \in Client |-> deleted[s]]
  BY IdFinite, Ids DEF MapInv, Linked
<1>2. PICK sib : sib = Siblings(r, og[this])
  OBVIOUS
<1>3. /\ sib \in Seq(Held(r))
      /\ (IF og[this] = None THEN entry[r] ELSE right[r][og[this]]) = None => sib = <<>>
  <2>1. right[r] \in [Held(r) -> Held(r) \cup {None}] /\ entry[r] \in Held(r) \cup {None}
    BY <1>1 DEF Linked
  <2>2. QED BY <2>1, <1>1, <1>2, SiblingsHeld
<1>4. PICK oR : oR = [i \in DOMAIN og |-> None]
  OBVIOUS
<1>5. PICK l : l = LeftAfterConflicts(this, sib, og, oR)
  OBVIOUS
<1>6. l \in {og[this]} \cup Held(r) /\ (sib = <<>> => l = og[this])
  <2>1. this[1] \in Int /\ \A c \in Held(r) : c[1] \in Int
    BY <1>1, Ids DEF Linked
  <2>2. QED BY <2>1, <1>3, <1>5, BackToSibling
<1>7. PICK rt : rt = IF l = None THEN HeadOf(r, entry[r]) ELSE right[r][l]
  OBVIOUS
<1>8. HeadOf(r, entry[r]) = None
  <2>1. PICK rank \in [Held(r) -> Nat] :
          \A i \in Held(r) : /\ left[r][i] # None => rank[left[r][i]] < rank[i]
                             /\ rank[i] < Cardinality(Held(r))
    BY <1>1 DEF Linked, Ranked
  <2>2. Held(r) \subseteq Id /\ left[r] \in [Held(r) -> Held(r) \cup {None}]
        /\ entry[r] \in Held(r) \cup {None}
    BY <1>1 DEF Linked
  <2>3. Cardinality(Held(r)) <= Cardinality(Id) /\ Cardinality(Held(r)) \in Nat
    BY <2>2, IdFinite, FS_Subset, FS_CardinalityType
  <2>4. \A i \in Held(r) : rank[i] \in Nat /\ rank[i] < Cardinality(Id)
    BY <2>1, <2>3, <1>1
  <2>5. QED BY <2>1, <2>2, <2>4, <1>1, HeadEnds
<1>9. l \in Held(r) \cup {None} /\ rt \in Held(r) \cup {None}
      /\ rt = IF l = None THEN None ELSE right[r][l]
  BY <1>1, <1>6, <1>7, <1>8 DEF Linked
<1>10. /\ left' = [left EXCEPT ![r] = LeftLinks(r, this, l, rt)]
       /\ right' = [right EXCEPT ![r] = RightLinks(r, this, l, rt)]
       /\ entry' = [entry EXCEPT ![r] = EntryAfter(r, this, l, rt)]
       /\ deleted' = [deleted EXCEPT ![r] = deleted[r] \cup DeletedBy(r, this, l, rt)]
  BY <1>2, <1>4, <1>5, <1>7 DEF IntegrateKey
<1>11. og[this] # None => l # None
  BY <1>1, <1>6
<1>12. QED BY <1>3, <1>6, <1>9, <1>10, <1>11

\* It is linked in there.
LEMMA IntegrateLinks ==
  ASSUME MapInv, NEW r \in Client, NEW this \in Id, this \notin Held(r), NEW og,
         og[this] \in Held(r) \cup {None}, IntegrateKey(r, this, og)
  PROVE  /\ left' = [s \in Client |-> left'[s]] /\ right' = [s \in Client |-> right'[s]]
         /\ entry' = [s \in Client |-> entry'[s]] /\ deleted' = [s \in Client |-> deleted'[s]]
         /\ \A s \in Client : s # r => /\ left'[s] = left[s] /\ right'[s] = right[s]
                                       /\ entry'[s] = entry[s] /\ deleted'[s] = deleted[s]
         /\ Held(r)' = Held(r) \cup {this} /\ Linked(r)'
         /\ \A i \in Held(r) : right[r][i] # None => right'[r][i] # None
         /\ og[this] # None => right'[r][og[this]] # None
         /\ og[this] = entry[r] => entry'[r] = this /\ this \notin deleted'[r]
PROOF
<1> DEFINE H == Held(r)
<1>1. PICK l \in H \cup {None}, rt \in H \cup {None} :
           /\ rt = IF l = None THEN None ELSE right[r][l]
           /\ (IF og[this] = None THEN entry[r] ELSE right[r][og[this]]) = None => l = og[this]
           /\ og[this] # None => l # None
           /\ left' = [left EXCEPT ![r] = LeftLinks(r, this, l, rt)]
           /\ right' = [right EXCEPT ![r] = RightLinks(r, this, l, rt)]
           /\ entry' = [entry EXCEPT ![r] = EntryAfter(r, this, l, rt)]
           /\ deleted' = [deleted EXCEPT ![r] = deleted[r] \cup DeletedBy(r, this, l, rt)]
  BY Between
<1>2. /\ left = [s \in Client |-> left[s]] /\ right = [s \in Client |-> right[s]]
      /\ entry = [s \in Client |-> entry[s]] /\ deleted = [s \in Client |-> deleted[s]]
      /\ Linked(r) /\ this # None /\ None \notin H
  BY Ids DEF MapInv, Linked
<1>3. /\ left'[r] = LeftLinks(r, this, l, rt) /\ right'[r] = RightLinks(r, this, l, rt)
      /\ entry'[r] = EntryAfter(r, this, l, rt)
      /\ deleted'[r] = deleted[r] \cup DeletedBy(r, this, l, rt)
  BY <1>1, <1>2
<1>4. /\ left' = [s \in Client |-> left'[s]] /\ right' = [s \in Client |-> right'[s]]
      /\ entry' = [s \in Client |-> entry'[s]] /\ deleted' = [s \in Client |-> deleted'[s]]
      /\ \A s \in Client : s # r => /\ left'[s] = left[s] /\ right'[s] = right[s]
                                    /\ entry'[s] = entry[s] /\ deleted'[s] = deleted[s]
  BY <1>1, <1>2
<1>5. Held(r)' = H \cup {this}
  BY <1>3 DEF Held, RightLinks
<1>6. /\ right[r] \in [H -> H \cup {None}] /\ left[r] \in [H -> H \cup {None}]
      /\ H \subseteq Id /\ entry[r] \in H \cup {None} /\ deleted[r] \subseteq H
      /\ entry[r] # None => right[r][entry[r]] = None
      /\ \A i, j \in H : right[r][i] = j <=> left[r][j] = i
      /\ Ranked(r)
  BY <1>2 DEF Linked
<1>7. /\ right'[r] = [i \in H \cup {this} |-> IF i = this THEN rt
                                              ELSE IF i = l THEN this ELSE right[r][i]]
      /\ left'[r] = [i \in H \cup {this} |-> IF i = this THEN l
                                             ELSE IF i = rt THEN this ELSE left[r][i]]
  BY <1>3 DEF RightLinks, LeftLinks
<1>8. entry'[r] = IF rt = None THEN this ELSE entry[r]
  BY <1>3 DEF EntryAfter
<1>9. deleted'[r] \subseteq H \cup {this} /\ (rt = None => this \notin deleted'[r])
  BY <1>3, <1>6 DEF DeletedBy
<1> HIDE DEF H
<1>10. /\ right'[r] \in [H \cup {this} -> H \cup {this, None}]
       /\ left'[r] \in [H \cup {this} -> H \cup {this, None}]
  BY <1>6, <1>7
<1>11. entry'[r] # None => right'[r][entry'[r]] = None
  <2>1. CASE rt = None
    BY <2>1, <1>7, <1>8
  <2>2. CASE rt # None
    <3>1. l # None /\ right[r][l] # None /\ l # entry[r]
      BY <2>2, <1>1, <1>6
    <3>2. this \notin H
      BY DEF H
    <3>3. QED BY <2>2, <3>1, <3>2, <1>6, <1>7, <1>8
  <2>3. QED BY <2>1, <2>2
<1>12. \A i, j \in H \cup {this} : right'[r][i] = j <=> left'[r][j] = i
  <2> SUFFICES ASSUME NEW i \in H \cup {this}, NEW j \in H \cup {this}
               PROVE  right'[r][i] = j <=> left'[r][j] = i
    OBVIOUS
  <2>1. this \notin H /\ rt # this /\ l # this /\ i # None /\ j # None
    BY <1>1, <1>2 DEF H
  <2>2. l # None => (\A k \in H : left[r][k] = l <=> k = rt)
    BY <1>1, <1>2, <1>6
  <2>3. CASE i = this
    BY <2>1, <2>3, <1>6, <1>7
  <2>4. CASE i # this /\ j = this
    BY <2>1, <2>4, <1>6, <1>7
  <2>5. CASE i # this /\ j # this
    <3>1. i \in H /\ j \in H /\ (right[r][i] = j <=> left[r][j] = i)
      BY <2>5, <1>6
    <3>2. right'[r][i] = (IF i = l THEN this ELSE right[r][i])
          /\ left'[r][j] = (IF j = rt THEN this ELSE left[r][j])
      BY <2>5, <3>1, <1>7
    <3>3. CASE i = l
      BY <3>1, <3>2, <3>3, <2>1, <2>2, <2>5
    <3>4. CASE i # l
      <4>1. j = rt => right[r][i] # j
        BY <3>1, <3>4, <2>1, <1>1, <1>6
      <4>2. QED BY <4>1, <3>1, <3>2, <3>4, <2>1
    <3>5. QED BY <3>3, <3>4
  <2>6. QED BY <2>3, <2>4, <2>5
<1>13. Ranked(r)'
  <2>1. PICK rank \in [H -> Nat] :
          \A i \in H : /\ left[r][i] # None => rank[left[r][i]] < rank[i]
                       /\ rank[i] < Cardinality(H)
    BY <1>6 DEF Ranked, H
  <2>2. IsFiniteSet(H) /\ Cardinality(H) \in Nat /\ Cardinality(H \cup {this}) = Cardinality(H) + 1
    <3>1. IsFiniteSet(H)
      BY <1>6, IdFinite, FS_Subset
    <3>2. this \notin H
      BY DEF H
    <3>3. QED BY <3>1, <3>2, FS_CardinalityType, FS_AddElement
  <2>3. PICK new : new = [i \in H \cup {this} |->
           IF i = this THEN (IF l = None THEN 0 ELSE rank[l] + 1)
           ELSE IF l # None /\ rank[i] > rank[l] THEN rank[i] + 1 ELSE rank[i]]
    OBVIOUS
  <2>4. this \notin H /\ rt # this /\ l # this
    BY <1>1, <1>2 DEF H
  <2>5. l # None => rank[l] \in Nat /\ rank[l] < Cardinality(H)
    BY <2>1, <1>1
  <2>6. new \in [H \cup {this} -> Nat]
    BY <2>1, <2>3, <2>5
  <2>7. \A i \in H \cup {this} : new[i] < Cardinality(H \cup {this})
    BY <2>1, <2>2, <2>3, <2>5
  <2>8. ASSUME NEW i \in H \cup {this}, left'[r][i] # None
        PROVE  new[left'[r][i]] < new[i]
    <3>1. CASE i = this
      BY <3>1, <2>3, <2>4, <2>5, <2>8, <1>1, <1>7
    <3>2. CASE i # this /\ i = rt
      <4>1. i \in H /\ l # None /\ left[r][i] = l
        BY <3>2, <1>1, <1>2, <1>6
      <4>2. rank[l] < rank[i] /\ rank[l] \in Nat /\ rank[i] \in Nat
        BY <4>1, <2>1, <2>5
      <4>3. new[this] = rank[l] + 1 /\ new[i] = rank[i] + 1 /\ left'[r][i] = this
        BY <3>2, <4>1, <4>2, <2>3, <1>7
      <4>4. QED BY <4>2, <4>3
    <3>3. CASE i # this /\ i # rt
      <4>1. PICK j : j = left[r][i]
        OBVIOUS
      <4>2. i \in H /\ left'[r][i] = j /\ j # None /\ j \in H
        BY <3>3, <4>1, <2>8, <1>6, <1>7
      <4>3. rank[j] < rank[i] /\ rank[j] \in Nat /\ rank[i] \in Nat
        BY <4>1, <4>2, <2>1
      <4>4. /\ new[i] = IF l # None /\ rank[i] > rank[l] THEN rank[i] + 1 ELSE rank[i]
            /\ new[j] = IF l # None /\ rank[j] > rank[l] THEN rank[j] + 1 ELSE rank[j]
        BY <3>3, <4>2, <2>3, <2>4
      <4>5. QED BY <4>2, <4>3, <4>4, <2>5
    <3>4. QED BY <3>1, <3>2, <3>3
  <2>9. \E x \in [H \cup {this} -> Nat] :
          \A i \in H \cup {this} : /\ left'[r][i] # None => x[left'[r][i]] < x[i]
                                   /\ x[i] < Cardinality(H \cup {this})
    BY <2>6, <2>7, <2>8
  <2>10. QED BY <2>9, <1>5 DEF Ranked
<1>14. Linked(r)'
  <2>1. /\ entry'[r] \in H \cup {this, None} /\ entry'[r] # None
        /\ H \cup {this} \subseteq Id
    <3>1. rt # None => entry[r] # None
      BY <1>1, <1>2 DEF Linked, H
    <3>2. QED BY <3>1, <1>2, <1>6, <1>8
  <2>2. QED BY <2>1, <1>5, <1>9, <1>10, <1>11, <1>12, <1>13 DEF Linked
<1>15. \A i \in H : right[r][i] # None => right'[r][i] # None
  BY <1>2, <1>7 DEF H
<1>16. og[this] # None => right'[r][og[this]] # None
  <2>1. CASE og[this] # None /\ right[r][og[this]] = None
    BY <2>1, <1>1, <1>2, <1>7 DEF H
  <2>2. CASE og[this] # None /\ right[r][og[this]] # None
    BY <2>2, <1>15 DEF H
  <2>3. QED BY <2>1, <2>2
<1>17. og[this] = entry[r] => entry'[r] = this /\ this \notin deleted'[r]
  <2>1. og[this] = entry[r] => rt = None
    BY <1>1, <1>6
  <2>2. QED BY <2>1, <1>8, <1>9
<1>18. QED BY <1>4, <1>5, <1>14, <1>15, <1>16, <1>17 DEF H

-----------------------------------------------------------------------------
(* The steps keep the invariant.                                           *)

\* What is integrated at r leaves the other replicas' items alone.
LEMMA IntegrateKeeps ==
  ASSUME MapInv, NEW r \in Client, NEW this \in Id, this \notin Held(r),
         this \in DOMAIN origin',
         origin'[this] \in Held(r) \cup {None}, IntegrateKey(r, this, origin'),
         DOMAIN origin' \subseteq Id, DOMAIN origin \subseteq DOMAIN origin',
         \A i \in DOMAIN origin : origin'[i] = origin[i],
         \A s \in Client : OwnItems(s)' \subseteq Held(s)',
         \A s \in Client : \E n \in Nat : OwnItems(s)' = {s} \X (0..n - 1)
  PROVE  MapInv'
PROOF
<1>1. /\ left' = [s \in Client |-> left'[s]] /\ right' = [s \in Client |-> right'[s]]
      /\ entry' = [s \in Client |-> entry'[s]] /\ deleted' = [s \in Client |-> deleted'[s]]
      /\ \A s \in Client : s # r => /\ left'[s] = left[s] /\ right'[s] = right[s]
                                    /\ entry'[s] = entry[s] /\ deleted'[s] = deleted[s]
      /\ Held(r)' = Held(r) \cup {this} /\ Linked(r)'
      /\ \A i \in Held(r) : right[r][i] # None => right'[r][i] # None
      /\ origin'[this] # None => right'[r][origin'[this]] # None
  BY IntegrateLinks
<1>2. ASSUME NEW s \in Client PROVE Linked(s)' /\ Causal(s)' /\ Own(s)'
  <2>1. Linked(s) /\ Causal(s)
    BY DEF MapInv
  <2>2. Own(s)'
    BY DEF Own
  <2>3. CASE s = r
    <3>1. Held(r)' \subseteq DOMAIN origin'
      BY <2>1, <2>3, <1>1 DEF Causal
    <3>2. ASSUME NEW i \in Held(r)'
          PROVE  /\ origin'[i] \in Held(r)' \cup {None}
                 /\ origin'[i] # None => right'[r][origin'[i]] # None
      <4>1. CASE i = this
        BY <4>1, <1>1
      <4>2. CASE i # this
        <5>1. i \in Held(r) /\ origin'[i] = origin[i]
          BY <4>2, <3>2, <2>1, <2>3, <1>1 DEF Causal
        <5>2. /\ origin[i] \in Held(r) \cup {None}
              /\ origin[i] # None => right[r][origin[i]] # None
          BY <5>1, <2>1, <2>3 DEF Causal
        <5>3. QED BY <5>1, <5>2, <1>1
      <4>3. QED BY <4>1, <4>2
    <3>3. Causal(r)'
      BY <3>1, <3>2 DEF Causal
    <3>4. QED BY <3>3, <2>2, <2>3, <1>1
  <2>4. CASE s # r
    <3>1. left'[s] = left[s] /\ right'[s] = right[s] /\ entry'[s] = entry[s]
          /\ deleted'[s] = deleted[s] /\ Held(s)' = Held(s)
      BY <2>4, <1>1 DEF Held
    <3>2. Linked(s)'
      BY <3>1, <2>1 DEF Linked, Ranked
    <3>3. Causal(s)'
      BY <3>1, <2>1 DEF Causal
    <3>4. QED BY <3>2, <3>3, <2>2
  <2>5. QED BY <2>3, <2>4
<1>3. QED BY <1>1, <1>2 DEF MapInv

\* A set: its item has the entry for its origin, goes behind it, and is read.
LEMMA MapInsertKeeps ==
  ASSUME MapInv, NEW r \in Client, InsertKey(r)
  PROVE  MapInv' /\ \A i \in Held(r)' \ Held(r) : Get(r)' = i
PROOF
<1>1. PICK n : n = KeyClock(r)
  OBVIOUS
<1>2. PICK this : this = <<r, n>>
  OBVIOUS
<1>3. /\ n < MaxClock[r] /\ IntegrateKey(r, this, origin')
      /\ origin' = [i \in DOMAIN origin \cup {this} |-> IF i = this THEN entry[r] ELSE origin[i]]
  BY <1>1, <1>2 DEF InsertKey
<1>4. n \in Nat /\ OwnItems(r) = {r} \X (0..n - 1) /\ this \notin DOMAIN origin
  BY <1>1, <1>2, NextClock
<1>5. this \in Id /\ this[1] = r
  BY <1>2, <1>3, <1>4, Ids
<1>6. Held(r) \subseteq DOMAIN origin /\ entry[r] \in Held(r) \cup {None} /\ DOMAIN origin \subseteq Id
  BY DEF MapInv, Linked, Causal
<1>7. /\ this \notin Held(r) /\ this \in DOMAIN origin' /\ origin'[this] = entry[r]
      /\ DOMAIN origin' = DOMAIN origin \cup {this}
      /\ \A i \in DOMAIN origin : origin'[i] = origin[i]
  BY <1>3, <1>4, <1>6
<1>8. /\ Held(r)' = Held(r) \cup {this} /\ \A s \in Client : s # r => right'[s] = right[s]
      /\ entry'[r] = this /\ this \notin deleted'[r]
  BY <1>3, <1>5, <1>6, <1>7, IntegrateLinks
<1>9. ASSUME NEW s \in Client
      PROVE  OwnItems(s)' \subseteq Held(s)' /\ \E m \in Nat : OwnItems(s)' = {s} \X (0..m - 1)
  <2>1. Own(s)
    BY DEF MapInv
  <2>2. CASE s = r
    <3>1. OwnItems(r)' = OwnItems(r) \cup {this}
      BY <1>5, <1>7 DEF OwnItems
    <3>2. OwnItems(r)' = {r} \X (0..(n + 1) - 1)
      BY <3>1, <1>2, <1>4
    <3>3. QED BY <3>1, <3>2, <2>1, <2>2, <1>4, <1>8 DEF Own
  <2>3. CASE s # r
    <3>1. OwnItems(s)' = OwnItems(s) /\ Held(s)' = Held(s)
      BY <2>3, <1>5, <1>7, <1>8 DEF OwnItems, Held
    <3>2. QED BY <3>1, <2>1 DEF Own
  <2>4. QED BY <2>2, <2>3
<1>10. MapInv'
  BY <1>3, <1>5, <1>6, <1>7, <1>9, IntegrateKeeps
<1>11. Get(r)' = this
  BY <1>8 DEF Get
<1>12. QED BY <1>8, <1>10, <1>11

\* An item that arrives is another client's.
LEMMA MapDeliverKeeps ==
  ASSUME MapInv, NEW r \in Client, NEW i \in DOMAIN origin, DeliverItem(r, i)
  PROVE  MapInv' /\ Held(r)' = Held(r) \cup {i} /\ i[1] # r
PROOF
<1>1. /\ i \notin Held(r) /\ origin[i] \in Held(r) \cup {None} /\ IntegrateKey(r, i, origin)
      /\ origin' = origin
  BY DEF DeliverItem
<1>2. i \in Id /\ DOMAIN origin \subseteq Id
  BY DEF MapInv
<1>3. /\ Held(r)' = Held(r) \cup {i} /\ \A s \in Client : s # r => right'[s] = right[s]
  BY <1>1, <1>2, IntegrateLinks
<1>4. ASSUME NEW s \in Client
      PROVE  OwnItems(s)' \subseteq Held(s)' /\ \E m \in Nat : OwnItems(s)' = {s} \X (0..m - 1)
  <2>1. Own(s) /\ OwnItems(s)' = OwnItems(s)
    BY <1>1 DEF MapInv, OwnItems
  <2>2. Held(s) \subseteq Held(s)'
    BY <1>3 DEF Held
  <2>3. QED BY <2>1, <2>2 DEF Own
<1>5. MapInv'
  BY <1>1, <1>2, <1>4, IntegrateKeeps
<1>6. i[1] # r
  BY <1>1 DEF MapInv, Own, OwnItems
<1>7. QED BY <1>3, <1>5, <1>6

\* A deletion leaves the links alone.
LEMMA MapDeletionKeeps ==
  ASSUME MapInv, NEW r \in Client, NEW i \in Held(r), UNCHANGED <<origin, links>>,
         deleted' = [deleted EXCEPT ![r] = deleted[r] \cup {i}]
  PROVE  MapInv' /\ \A s \in Client : Held(s)' = Held(s)
PROOF
<1>1. /\ left' = left /\ right' = right /\ entry' = entry /\ origin' = origin
      /\ \A s \in Client : Held(s)' = Held(s)
  BY DEF links, Held
<1>2. deleted = [s \in Client |-> deleted[s]]
  BY DEF MapInv
<1>3. /\ deleted' = [s \in Client |-> deleted'[s]]
      /\ \A s \in Client : deleted'[s] = deleted[s] \/ (s = r /\ deleted'[s] = deleted[s] \cup {i})
  BY <1>2
<1>4. ASSUME NEW s \in Client PROVE Linked(s)' /\ Causal(s)' /\ Own(s)'
  <2>1. Linked(s) /\ Causal(s) /\ Own(s)
    BY DEF MapInv
  <2>2. deleted'[s] \subseteq Held(s)
    BY <2>1, <1>3 DEF Linked
  <2>3. Linked(s)'
    BY <2>1, <2>2, <1>1 DEF Linked, Ranked
  <2>4. Causal(s)'
    BY <2>1, <1>1 DEF Causal
  <2>5. Own(s)'
    BY <2>1, <1>1 DEF Own, OwnItems
  <2>6. QED BY <2>3, <2>4, <2>5
<1>5. QED BY <1>1, <1>3, <1>4 DEF MapInv

\* No items.
LEMMA MapInitInv == MapInit => MapInv
PROOF
<1> SUFFICES ASSUME MapInit PROVE MapInv
  OBVIOUS
<1>1. /\ origin = <<>> /\ left = [r \in Client |-> <<>>] /\ right = [r \in Client |-> <<>>]
      /\ entry = [r \in Client |-> None] /\ deleted = [r \in Client |-> {}]
  BY DEF MapInit
<1>2. DOMAIN <<>> = {} /\ \A S : <<>> \in [{} -> S]
  OBVIOUS
<1>3. \A r \in Client : Held(r) = {} /\ left[r] = <<>> /\ right[r] = <<>>
  BY <1>1, <1>2 DEF Held
<1>4. ASSUME NEW r \in Client PROVE Linked(r) /\ Causal(r) /\ Own(r)
  <2>1. Ranked(r)
    <3>1. \E rank : rank \in [{} -> Nat]
      BY <1>2
    <3>2. QED BY <3>1, <1>3 DEF Ranked
  <2>2. Linked(r)
    BY <2>1, <1>1, <1>2, <1>3 DEF Linked
  <2>3. Causal(r)
    BY <1>3 DEF Causal
  <2>4. Own(r)
    <3>1. OwnItems(r) = {}
      BY <1>1, <1>2 DEF OwnItems
    <3>2. {r} \X (0..0 - 1) = {}
      OBVIOUS
    <3>3. QED BY <3>1, <3>2 DEF Own
  <2>5. QED BY <2>2, <2>3, <2>4
<1>5. QED BY <1>1, <1>2, <1>4 DEF MapInv

\* Every step, and that a client's own new item is what it reads.
LEMMA MapNextInv ==
  ASSUME MapInv, [MapNext]_mapVars
  PROVE  /\ MapInv'
         /\ \A r \in Client : \A i \in Held(r)' \ Held(r) : i[1] = r => Get(r)' = i
PROOF
<1>1. ASSUME NEW r \in Client, InsertKey(r)
      PROVE  /\ MapInv'
             /\ \A s \in Client : \A i \in Held(s)' \ Held(s) : i[1] = s => Get(s)' = i
  <2>1. MapInv' /\ \A i \in Held(r)' \ Held(r) : Get(r)' = i
    BY <1>1, MapInsertKeeps
  <2>2. \A s \in Client : s # r => Held(s)' = Held(s)
    BY <1>1 DEF InsertKey, IntegrateKey, Held, MapInv
  <2>3. QED BY <2>1, <2>2
<1>2. ASSUME NEW r \in Client, NEW i \in DOMAIN origin, DeliverItem(r, i)
      PROVE  /\ MapInv'
             /\ \A s \in Client : \A j \in Held(s)' \ Held(s) : j[1] = s => Get(s)' = j
  <2>1. MapInv' /\ Held(r)' = Held(r) \cup {i} /\ i[1] # r
    BY <1>2, MapDeliverKeeps
  <2>2. \A s \in Client : s # r => Held(s)' = Held(s)
    BY <1>2 DEF DeliverItem, IntegrateKey, Held, MapInv
  <2>3. QED BY <2>1, <2>2
<1>3. ASSUME NEW r \in Client, RemoveKey(r)
      PROVE  MapInv' /\ \A s \in Client : Held(s)' = Held(s)
  <2>1. entry[r] \in Held(r)
    BY <1>3 DEF RemoveKey, MapInv, Linked
  <2>2. QED BY <1>3, <2>1, MapDeletionKeeps DEF RemoveKey
<1>4. ASSUME NEW r \in Client, NEW s \in Client, NEW i \in deleted[s], DeliverDelete(r, s, i)
      PROVE  MapInv' /\ \A c \in Client : Held(c)' = Held(c)
  BY <1>4, MapDeletionKeeps DEF DeliverDelete
<1>5. CASE UNCHANGED mapVars
  <2>1. \A s \in Client : Held(s)' = Held(s)
    BY <1>5 DEF mapVars, links, Held
  <2>2. MapInv'
    <3>1. /\ left' = left /\ right' = right /\ entry' = entry /\ deleted' = deleted
          /\ origin' = origin
      BY <1>5 DEF mapVars, links
    <3>2. ASSUME NEW s \in Client PROVE Linked(s)' /\ Causal(s)' /\ Own(s)'
      <4>1. Linked(s) /\ Causal(s) /\ Own(s)
        BY DEF MapInv
      <4>2. Linked(s)'
        BY <4>1, <3>1, <2>1 DEF Linked, Ranked
      <4>3. Causal(s)' /\ Own(s)'
        BY <4>1, <3>1, <2>1 DEF Causal, Own, OwnItems
      <4>4. QED BY <4>2, <4>3
    <3>3. QED BY <3>1, <3>2 DEF MapInv
  <2>3. QED BY <2>1, <2>2
<1>6. CASE MapNext
  BY <1>6, <1>1, <1>2, <1>3, <1>4 DEF MapNext
<1>7. QED BY <1>5, <1>6

-----------------------------------------------------------------------------
(* What follows for a map.                                                 *)

\* The inductive invariant holds throughout.
LEMMA MapInvHolds == MapSpec => []MapInv
PROOF BY MapInitInv, MapNextInv, PTL DEF MapSpec

\* The type invariant; a replica that holds an item of the key has an entry.
THEOREM MapTypesHold == MapSpec => []MapTypeOK
PROOF
<1>1. MapInv => MapTypeOK
  <2> SUFFICES ASSUME MapInv, NEW r \in Client
               PROVE  /\ left[r] \in [Held(r) -> Held(r) \cup {None}]
                      /\ right[r] \in [Held(r) -> Held(r) \cup {None}]
                      /\ Held(r) \subseteq DOMAIN origin
                      /\ deleted[r] \subseteq Held(r)
                      /\ entry[r] = None <=> Held(r) = {}
    BY DEF MapTypeOK
  <2>1. None \notin Held(r)
    BY Ids DEF MapInv, Linked
  <2>2. QED BY <2>1 DEF MapInv, Linked, Causal
<1>2. QED BY <1>1, MapInvHolds, PTL

\* The links that integrate sets agree in both directions, whatever the conflict
\* loop decides and in whatever order items arrive (store.rs, integrate).
THEOREM LinksHold == MapSpec => []LinksAgree
PROOF
<1>1. MapInv => LinksAgree
  <2> SUFFICES ASSUME MapInv, NEW r \in Client, NEW i \in Held(r), NEW j \in Held(r)
               PROVE  (right[r][i] = j) = (left[r][j] = i)
    BY DEF LinksAgree
  <2>1. right[r][i] = j <=> left[r][j] = i
    BY DEF MapInv, Linked
  <2>2. CASE right[r][i] = j
    <3>1. (right[r][i] = j) = TRUE /\ (left[r][j] = i) = TRUE
      BY <2>1, <2>2
    <3>2. QED BY <3>1
  <2>3. CASE right[r][i] # j
    <3>1. (right[r][i] = j) = FALSE /\ (left[r][j] = i) = FALSE
      BY <2>1, <2>3
    <3>2. QED BY <3>1
  <2>4. QED BY <2>2, <2>3
<1>2. QED BY <1>1, MapInvHolds, PTL

\* The entry of parent.map is never an item that another one was written over.
THEOREM OverwrittenIsHidden == MapSpec => []OverwrittenStaysHidden
PROOF
<1>1. MapInv => OverwrittenStaysHidden
  <2> SUFFICES ASSUME MapInv, NEW r \in Client, NEW i \in Held(r), entry[r] \in WrittenOver(r, i)
               PROVE  FALSE
    BY DEF OverwrittenStaysHidden
  <2>1. Linked(r) /\ Causal(r)
    BY DEF MapInv
  <2>2. WrittenOver(r, i) \subseteq {origin[j] : j \in Held(r)}
    BY <2>1, IdFinite, AncestorsAreOrigins DEF Causal
  <2>3. entry[r] # None
    BY DEF WrittenOver
  <2>4. PICK j \in Held(r) : origin[j] = entry[r]
    BY <2>2
  <2>5. QED BY <2>1, <2>3, <2>4 DEF Linked, Causal
<1>2. QED BY <1>1, MapInvHolds, PTL

\* A client reads what it has just set (MapType::_insert, _get).
THEOREM OwnWritesAreRead == MapSpec => ReadYourWrite
PROOF
<1>1. MapInv /\ [MapNext]_mapVars =>
        [\A r \in Client : \A i \in Held(r)' \ Held(r) : i[1] = r => Get(r)' = i]_mapVars
  BY MapNextInv
<1>2. QED BY <1>1, MapInvHolds, PTL DEF MapSpec, ReadYourWrite

-----------------------------------------------------------------------------
(* What Among selects from a sequence (YList).                             *)

\* What has been selected of the first n elements.
Selected(g, s, T) ==
  /\ g[0] = <<>>
  /\ \A n \in 1..Len(s) : g[n] = IF s[n] \in T THEN Append(g[n - 1], s[n]) ELSE g[n - 1]
  /\ Among(s, T) = g[Len(s)]

\* Among, element by element.
LEMMA AmongUnrolled ==
  ASSUME NEW S, NEW s \in Seq(S), NEW T
  PROVE  \E g : g \in [0..Len(s) -> Seq(S)] /\ Selected(g, s, T)
PROOF
<1> DEFINE N == Len(s)
           G(n, m) == IF s[n] \in T THEN Append(m, s[n]) ELSE m
           F(g) == [n \in 0..N |-> IF n = 0 THEN <<>> ELSE G(n, g[n - 1])]
           it == CHOOSE g : g = F(g)
<1>1. Among(s, T) = it[N]
  BY DEF Among
<1>2. N \in Nat /\ \A n \in 1..N : s[n] \in S
  OBVIOUS
<1> HIDE DEF N
<1>3. ASSUME NEW n \in 1..N, NEW m \in Seq(S) PROVE G(n, m) \in Seq(S)
  BY <1>2
<1>4. \E g : g = F(g) /\ g \in [0..N -> Seq(S)]
  <2> DEFINE step == [n \in 1..N |-> [m \in Seq(S) |-> G(n, m)]]
  <2>1. step \in [1..N -> [Seq(S) -> Seq(S)]]
    <3> HIDE DEF G
    <3>1. QED BY <1>3
  <2>2. PICK g : Computes(g, N, Seq(S), <<>>, step)
    <3> HIDE DEF step
    <3>1. N \in Nat /\ <<>> \in Seq(S)
      BY <1>2
    <3>2. QED BY <3>1, <2>1, Recursion
  <2>3. /\ g \in [0..N -> Seq(S)] /\ g[0] = <<>>
        /\ \A n \in 1..N : g[n] = step[n][g[n - 1]]
    BY <2>2 DEF Computes
  <2>4. ASSUME NEW n \in 0..N PROVE g[n] = IF n = 0 THEN <<>> ELSE G(n, g[n - 1])
    <3>1. CASE n = 0
      BY <3>1, <2>3
    <3>2. CASE n # 0
      <4>1. n \in 1..N /\ n - 1 \in 0..N
        BY <3>2, <1>2
      <4>2. g[n - 1] \in Seq(S) /\ g[n] = step[n][g[n - 1]]
        <5> HIDE DEF step
        <5>1. QED BY <4>1, <2>3
      <4> HIDE DEF G
      <4>3. QED BY <3>2, <4>1, <4>2
    <3>3. QED BY <3>1, <3>2
  <2> HIDE DEF G
  <2>5. QED BY <2>3, <2>4
<1>5. it = F(it)
  <2> HIDE DEF F
  <2>1. QED BY <1>4
<1>6. \A n \in 0..N : it[n] = IF n = 0 THEN <<>> ELSE G(n, it[n - 1])
  <2>1. PICK h : h = it
    OBVIOUS
  <2>2. h = F(h)
    <3> HIDE DEF it, F
    <3>1. QED BY <1>5, <2>1
  <2> HIDE DEF it, G
  <2>3. QED BY <2>1, <2>2
<1> HIDE DEF it
<1>7. it[0] = <<>> /\ \A n \in 1..N : it[n] = G(n, it[n - 1])
  <2>1. 0 \in 0..N /\ \A n \in 1..N : n \in 0..N /\ n # 0
    BY <1>2
  <2> HIDE DEF G
  <2>2. QED BY <2>1, <1>6
<1> DEFINE W == {k \in Nat : k \in 0..N => it[k] \in Seq(S)}
<1>8. 0 \in W
  <2>1. <<>> \in Seq(S)
    OBVIOUS
  <2> HIDE DEF G
  <2>2. QED BY <2>1, <1>7
<1>9. ASSUME NEW k \in Nat, k \in W PROVE k + 1 \in W
  <2> SUFFICES ASSUME k + 1 \in 0..N PROVE it[k + 1] \in Seq(S)
    OBVIOUS
  <2>1. k \in 0..N /\ k + 1 \in 1..N /\ (k + 1) - 1 = k
    BY <1>2
  <2> HIDE DEF G
  <2>2. it[k + 1] = G(k + 1, it[k])
    BY <2>1, <1>7
  <2>3. QED BY <2>1, <2>2, <1>9, <1>3
<1>10. Nat \subseteq W
  <2> HIDE DEF W
  <2>1. QED BY <1>8, <1>9, Induction
<1>11. PICK g : g = [n \in 0..N |-> it[n]]
  OBVIOUS
<1>12. g \in [0..N -> Seq(S)]
  <2>1. \A n \in 0..N : n \in Nat /\ it[n] \in Seq(S)
    BY <1>2, <1>10
  <2> HIDE DEF W
  <2>2. QED BY <2>1, <1>11
<1>13. g[0] = <<>> /\ g[N] = it[N] /\ \A n \in 1..N : g[n] = G(n, g[n - 1])
  <2>1. 0 \in 0..N /\ N \in 0..N /\ \A n \in 1..N : n \in 0..N /\ n - 1 \in 0..N
    BY <1>2
  <2> HIDE DEF G
  <2>2. QED BY <2>1, <1>7, <1>11
<1>14. Selected(g, s, T)
  BY <1>1, <1>13 DEF Selected, N
<1>15. QED BY <1>12, <1>14 DEF N

\* f says where in the first n elements of s those of m come from.
Picks(m, s, T, n, f) ==
  /\ f \in [1..Len(m) -> 1..n]
  /\ \A k \in 1..Len(m) : m[k] = s[f[k]] /\ m[k] \in T
  /\ \A j, k \in 1..Len(m) : j < k => f[j] < f[k]
  /\ \A q \in 1..n : s[q] \in T => \E k \in 1..Len(m) : f[k] = q

\* Among picks the elements that are in T, all of them, in order.
LEMMA AmongPicks ==
  ASSUME NEW S, NEW s \in Seq(S), NEW T
  PROVE  /\ Among(s, T) \in Seq(S)
         /\ \E f : Picks(Among(s, T), s, T, Len(s), f)
PROOF
<1>1. PICK g : g \in [0..Len(s) -> Seq(S)] /\ Selected(g, s, T)
  BY AmongUnrolled
<1> DEFINE W == {k \in Nat : k <= Len(s) => \E f : Picks(g[k], s, T, k, f)}
<1>2. Len(s) \in Nat
  OBVIOUS
<1>3. 0 \in W
  <2>1. g[0] = <<>>
    BY <1>1 DEF Selected
  <2>2. Picks(g[0], s, T, 0, <<>>)
    BY <2>1 DEF Picks
  <2>3. QED BY <2>2
<1>4. ASSUME NEW k \in Nat, k \in W PROVE k + 1 \in W
  <2> SUFFICES ASSUME k + 1 <= Len(s) PROVE \E f : Picks(g[k + 1], s, T, k + 1, f)
    OBVIOUS
  <2>1. k \in 0..Len(s) /\ k + 1 \in 1..Len(s) /\ (k + 1) - 1 = k /\ s[k + 1] \in S
    BY <1>2
  <2>2. PICK m : m = g[k]
    OBVIOUS
  <2>3. m \in Seq(S)
    BY <1>1, <2>1, <2>2
  <2>4. PICK f : Picks(m, s, T, k, f)
    BY <1>4, <2>1, <2>2, <1>2
  <2>5. g[k + 1] = IF s[k + 1] \in T THEN Append(m, s[k + 1]) ELSE m
    BY <1>1, <2>1, <2>2 DEF Selected
  <2>6. CASE s[k + 1] \notin T
    <3>1. Picks(m, s, T, k + 1, f)
      BY <2>3, <2>4, <2>6 DEF Picks
    <3>2. QED BY <3>1, <2>5, <2>6
  <2>7. CASE s[k + 1] \in T
    <3>1. PICK m2 : m2 = Append(m, s[k + 1])
      OBVIOUS
    <3>2. PICK l \in Nat : l = Len(m)
      BY <2>3
    <3>3. /\ Len(m2) = l + 1 /\ m2[l + 1] = s[k + 1]
          /\ \A j \in 1..l : m2[j] = m[j]
      BY <2>3, <2>1, <3>1, <3>2
    <3>4. PICK h : h = [j \in 1..l + 1 |-> IF j = l + 1 THEN k + 1 ELSE f[j]]
      OBVIOUS
    <3>5. /\ f \in [1..l -> 1..k]
          /\ \A j \in 1..l : m[j] = s[f[j]] /\ m[j] \in T
          /\ \A i, j \in 1..l : i < j => f[i] < f[j]
          /\ \A q \in 1..k : s[q] \in T => \E j \in 1..l : f[j] = q
      BY <2>4, <3>2 DEF Picks
    <3>6. h \in [1..l + 1 -> 1..k + 1] /\ h[l + 1] = k + 1 /\ \A j \in 1..l : h[j] = f[j] /\ f[j] \in 1..k
      BY <3>4, <3>5
    <3>7. \A j \in 1..l + 1 : j = l + 1 \/ j \in 1..l
      OBVIOUS
    <3>8. \A j \in 1..l + 1 : m2[j] = s[h[j]] /\ m2[j] \in T
      BY <3>3, <3>5, <3>6, <3>7, <2>7
    <3>9. ASSUME NEW i \in 1..l + 1, NEW j \in 1..l + 1, i < j PROVE h[i] < h[j]
      <4>1. i \in 1..l /\ h[i] = f[i] /\ f[i] \in 1..k
        BY <3>6, <3>9
      <4>2. CASE j = l + 1
        BY <4>1, <4>2, <3>6
      <4>3. CASE j \in 1..l
        BY <4>1, <4>3, <3>5, <3>6, <3>9
      <4>4. QED BY <4>2, <4>3, <3>7
    <3>10. ASSUME NEW q \in 1..k + 1, s[q] \in T PROVE \E j \in 1..l + 1 : h[j] = q
      <4>1. CASE q = k + 1
        BY <4>1, <3>6
      <4>2. CASE q # k + 1
        <5>1. q \in 1..k
          BY <4>2
        <5>2. PICK j \in 1..l : f[j] = q
          BY <5>1, <3>10, <3>5
        <5>3. QED BY <5>2, <3>6
      <4>3. QED BY <4>1, <4>2
    <3>11. Picks(m2, s, T, k + 1, h)
      BY <3>3, <3>6, <3>8, <3>9, <3>10 DEF Picks
    <3>12. QED BY <3>1, <3>11, <2>5, <2>7
  <2>8. QED BY <2>6, <2>7
<1>5. Len(s) \in W
  <2> HIDE DEF W
  <2>1. QED BY <1>2, <1>3, <1>4, Induction
<1>6. Among(s, T) = g[Len(s)] /\ Len(s) \in 0..Len(s)
  BY <1>1, <1>2 DEF Selected
<1>7. QED BY <1>1, <1>2, <1>5, <1>6

-----------------------------------------------------------------------------
(* Chains: positions in one, and a run linked into it.                     *)

Distinct(ch) == \A p, q \in DOMAIN ch : ch[p] = ch[q] => p = q

\* Positions of the ids in a chain.
LEMMA PosIs ==
  ASSUME NEW S, NEW ch \in Seq(S), Distinct(ch), None \notin S
  PROVE  /\ \A p \in DOMAIN ch : ch[p] \in ToSet(ch) /\ Pos(ch, ch[p]) = p
         /\ \A i \in ToSet(ch) : Pos(ch, i) \in 1..Len(ch) /\ ch[Pos(ch, i)] = i /\ i \in S
         /\ Pos(ch, None) = 0 /\ None \notin ToSet(ch)
PROOF
<1>1. ASSUME NEW p \in DOMAIN ch PROVE ch[p] \in ToSet(ch) /\ Pos(ch, ch[p]) = p
  <2>1. ch[p] \in S /\ ch[p] # None
    OBVIOUS
  <2>2. Pos(ch, ch[p]) = CHOOSE q \in DOMAIN ch : ch[q] = ch[p]
    BY <2>1 DEF Pos
  <2>3. PICK q : q = CHOOSE x \in DOMAIN ch : ch[x] = ch[p]
    OBVIOUS
  <2>4. q \in DOMAIN ch /\ ch[q] = ch[p]
    BY <2>3
  <2>5. QED BY <2>2, <2>3, <2>4 DEF Distinct, ToSet
<1>2. ASSUME NEW i \in ToSet(ch) PROVE Pos(ch, i) \in 1..Len(ch) /\ ch[Pos(ch, i)] = i /\ i \in S
  <2>1. PICK p \in DOMAIN ch : i = ch[p]
    BY DEF ToSet
  <2>2. DOMAIN ch = 1..Len(ch)
    OBVIOUS
  <2>3. QED BY <2>1, <2>2, <1>1
<1>3. Pos(ch, None) = 0
  BY DEF Pos
<1>4. QED BY <1>1, <1>2, <1>3

Joined(c, a, b) ==
  /\ Len(c) = Len(a) + Len(b)
  /\ \A q \in 1..Len(a) : c[q] = a[q]
  /\ \A k \in 1..Len(b) : c[Len(a) + k] = b[k]

\* Concatenation, position by position.
LEMMA CatIs ==
  ASSUME NEW S, NEW a \in Seq(S), NEW b \in Seq(S)
  PROVE  a \o b \in Seq(S) /\ Joined(a \o b, a, b)
PROOF
<1>1. a \o b \in Seq(S) /\ Len(a \o b) = Len(a) + Len(b)
  OBVIOUS
<1>2. \A q \in 1..Len(a) : (a \o b)[q] = a[q]
  OBVIOUS
<1>3. ASSUME NEW k \in 1..Len(b) PROVE (a \o b)[Len(a) + k] = b[k]
  <2>1. Len(a) + k \in 1..Len(a) + Len(b) /\ ~(Len(a) + k <= Len(a)) /\ (Len(a) + k) - Len(a) = k
    OBVIOUS
  <2>2. QED BY <2>1
<1>4. QED BY <1>1, <1>2, <1>3 DEF Joined

\* A run linked in behind position p moves what follows by its length.
Splice(ch, p, new) == SubSeq(ch, 1, p) \o new \o SubSeq(ch, p + 1, Len(ch))

Spliced(ch, p, n, new, d) ==
  /\ Len(d) = Len(ch) + n
  /\ \A q \in 1..p : d[q] = ch[q]
  /\ \A k \in 1..n : d[p + k] = new[k]
  /\ \A q \in p + 1..Len(ch) : d[q + n] = ch[q]

\* What is where after a sequence is linked in behind position p.
LEMMA SpliceIs ==
  ASSUME NEW S, NEW ch \in Seq(S), NEW p \in 0..Len(ch), NEW n \in Nat, NEW new \in Seq(S),
         Len(new) = n
  PROVE  Splice(ch, p, new) \in Seq(S) /\ Spliced(ch, p, n, new, Splice(ch, p, new))
PROOF
<1>1. PICK a : a = SubSeq(ch, 1, p)
  OBVIOUS
<1>2. PICK b : b = SubSeq(ch, p + 1, Len(ch))
  OBVIOUS
<1>3. a \in Seq(S) /\ Len(a) = p /\ \A q \in 1..p : a[q] = ch[q]
  BY <1>1
<1>4. b \in Seq(S) /\ Len(b) = Len(ch) - p /\ \A q \in 1..Len(ch) - p : b[q] = ch[p + q]
  BY <1>2
<1>5. PICK c : c = a \o new
  OBVIOUS
<1>6. /\ c \in Seq(S) /\ Len(c) = p + n
      /\ \A q \in 1..p : c[q] = ch[q]
      /\ \A k \in 1..n : c[p + k] = new[k]
  <2>1. c \in Seq(S) /\ Joined(c, a, new)
    BY <1>3, <1>5, CatIs
  <2>2. QED BY <2>1, <1>3 DEF Joined
<1>7. PICK d : d = c \o b
  OBVIOUS
<1>8. /\ d \in Seq(S) /\ Len(d) = Len(ch) + n
      /\ \A q \in 1..p + n : d[q] = c[q]
      /\ \A q \in 1..Len(ch) - p : d[p + n + q] = b[q]
  <2>1. d \in Seq(S) /\ Joined(d, c, b)
    BY <1>4, <1>6, <1>7, CatIs
  <2>2. Len(c) = p + n /\ Len(b) = Len(ch) - p /\ Len(ch) \in Nat
    BY <1>4, <1>6
  <2>3. QED BY <2>1, <2>2 DEF Joined
<1>9. Splice(ch, p, new) = d
  BY <1>1, <1>2, <1>5, <1>7 DEF Splice
<1>10. ASSUME NEW q \in p + 1..Len(ch) PROVE d[q + n] = ch[q]
  <2>1. q - p \in 1..Len(ch) - p /\ p + n + (q - p) = q + n /\ p + (q - p) = q
    OBVIOUS
  <2>2. d[p + n + (q - p)] = b[q - p] /\ b[q - p] = ch[p + (q - p)]
    BY <2>1, <1>8, <1>4
  <2>3. QED BY <2>1, <2>2
<1>11. \A q \in 1..p : d[q] = ch[q]
  BY <1>6, <1>8
<1>12. ASSUME NEW k \in 1..n PROVE d[p + k] = new[k]
  <2>1. p + k \in 1..p + n
    OBVIOUS
  <2>2. QED BY <2>1, <1>6, <1>8
<1>13. QED BY <1>8, <1>9, <1>10, <1>11, <1>12 DEF Spliced

-----------------------------------------------------------------------------
(* Nodes.                                                                  *)

Before1(i) == <<i[1], i[2] - 1>>

\* NodesWhole of one replica.
Whole(ch, st, del) ==
  \A p \in DOMAIN ch : ch[p] \notin st =>
    /\ p > 1 /\ ch[p - 1] = Before1(ch[p])
    /\ ch[p] \in del <=> ch[p - 1] \in del

\* Next1 undoes Before1.
LEMMA SteppedBack ==
  ASSUME NEW i \in Id, NEW j \in Id
  PROVE  j = Before1(i) <=> i = Next1(j)
PROOF
<1>1. /\ i[2] \in Nat /\ i = <<i[1], i[2]>>
      /\ j[2] \in Nat /\ j = <<j[1], j[2]>>
  BY Ids
<1>2. PICK a, m, b, n : a = i[1] /\ m = i[2] /\ b = j[1] /\ n = j[2]
  OBVIOUS
<1>3. i = <<a, m>> /\ j = <<b, n>> /\ m \in Nat /\ n \in Nat
  BY <1>1, <1>2
<1>4. <<b, n>> = <<a, m - 1>> <=> b = a /\ n = m - 1
  OBVIOUS
<1>5. <<a, m>> = <<b, n + 1>> <=> a = b /\ m = n + 1
  OBVIOUS
<1>6. QED BY <1>2, <1>3, <1>4, <1>5 DEF Before1, Next1

\* An id that starts no node has the id before it on its left.
LEMMA WholeBefore ==
  ASSUME NEW ch \in Seq(Id), NEW st, NEW del, Whole(ch, st, del),
         NEW i \in ToSet(ch), i \notin st
  PROVE  /\ Before1(i) \in ToSet(ch) /\ (i \in del <=> Before1(i) \in del)
         /\ \A p \in DOMAIN ch : ch[p] = i => p > 1 /\ ch[p - 1] = Before1(i)
PROOF
<1>1. PICK p \in DOMAIN ch : ch[p] = i
  BY DEF ToSet
<1>2. p > 1 /\ ch[p - 1] = Before1(i) /\ (i \in del <=> ch[p - 1] \in del)
  BY <1>1 DEF Whole
<1>3. p - 1 \in DOMAIN ch
  BY <1>2
<1>4. Before1(i) \in ToSet(ch)
  BY <1>2, <1>3 DEF ToSet
<1>5. QED BY <1>2, <1>4 DEF Whole

\* All ids of a node are deleted or none is.
LEMMA NodeFlag ==
  ASSUME NEW ch \in Seq(Id), NEW st, NEW del, Whole(ch, st, del),
         NEW s \in ToSet(ch), NEW j \in NodeFrom(ch, st, s)
  PROVE  j \in del <=> s \in del
PROOF
<1>1. ToSet(ch) \subseteq Id
  BY DEF ToSet
<1>2. /\ s = <<s[1], s[2]>> /\ s[2] \in Nat
      /\ j \in ToSet(ch) /\ j = <<j[1], j[2]>> /\ j[2] \in Nat /\ j[1] = s[1] /\ j[2] >= s[2]
      /\ \A k \in s[2] + 1..j[2] : <<s[1], k>> \notin st
  BY <1>1, Ids DEF NodeFrom
<1>3. PICK c, m, n : c = s[1] /\ m = s[2] /\ n = j[2]
  OBVIOUS
<1>4. j = <<c, n>> /\ s = <<c, m>> /\ m \in Nat /\ n \in Nat /\ m <= n
  BY <1>2, <1>3
<1> SUFFICES ASSUME ~(j \in del <=> s \in del) PROVE FALSE
  OBVIOUS
<1> DEFINE Good == {k \in Nat : k <= n - m /\ <<c, n - k>> \in ToSet(ch)
                                  /\ (<<c, n - k>> \in del <=> j \in del)}
<1>5. Nat \subseteq {k \in Nat : k <= n - m => k \in Good}
  <2>1. 0 \in {k \in Nat : k <= n - m => k \in Good}
    BY <1>2, <1>4
  <2>2. ASSUME NEW k \in Nat, k \in {x \in Nat : x <= n - m => x \in Good}
        PROVE  k + 1 \in {x \in Nat : x <= n - m => x \in Good}
    <3> SUFFICES ASSUME k + 1 <= n - m PROVE k + 1 \in Good
      OBVIOUS
    <3>1. k \in Good
      BY <1>4, <2>2
    <3>2. PICK i : i = <<c, n - k>>
      OBVIOUS
    <3>3. i \in ToSet(ch) /\ (i \in del <=> j \in del)
      BY <3>1, <3>2
    <3>4. n - k \in m + 1..n
      BY <1>4
    <3>5. i \notin st
      BY <1>2, <1>3, <3>2, <3>4
    <3>6. Before1(i) = <<c, n - (k + 1)>>
      <4>1. i[1] = c /\ i[2] = n - k /\ (n - k) - 1 = n - (k + 1)
        BY <3>2, <1>4
      <4>2. QED BY <4>1 DEF Before1
    <3>7. Before1(i) \in ToSet(ch) /\ (i \in del <=> Before1(i) \in del)
      BY <3>3, <3>5, WholeBefore
    <3>8. QED BY <3>3, <3>6, <3>7
  <2> HIDE DEF Good
  <2>3. QED BY <2>1, <2>2, Induction
<1>6. n - m \in Nat /\ n - m <= n - m /\ n - (n - m) = m
  BY <1>4
<1>7. n - m \in Good
  <2> HIDE DEF Good
  <2>1. QED BY <1>5, <1>6
<1>8. QED BY <1>4, <1>6, <1>7

\* Every id is in the node of some start.
LEMMA NodeExists ==
  ASSUME NEW ch \in Seq(Id), NEW st, NEW del, Whole(ch, st, del), NEW i \in ToSet(ch)
  PROVE  \E s \in st : s \in ToSet(ch) /\ s[1] = i[1] /\ i \in NodeFrom(ch, st, s)
PROOF
<1>1. ToSet(ch) \subseteq Id
  BY DEF ToSet
<1>2. i = <<i[1], i[2]>> /\ i[2] \in Nat
  BY <1>1, Ids
<1>3. PICK c, n : c = i[1] /\ n = i[2]
  OBVIOUS
<1>4. i = <<c, n>> /\ n \in Nat
  BY <1>2, <1>3
<1> DEFINE D == {k \in 0..n : <<c, k>> \in ToSet(ch) /\ \A m \in k + 1..n : <<c, m>> \notin st}
<1>5. n \in D /\ D \subseteq Nat
  BY <1>4
<1>6. PICK k \in D : \A m \in D : k <= m
  <2> HIDE DEF D
  <2>1. QED BY <1>5, LeastOf
<1>7. PICK s : s = <<c, k>>
  OBVIOUS
<1>8. s \in ToSet(ch) /\ s[1] = c /\ s[2] = k /\ k \in 0..n
  BY <1>7
<1>9. s \in st
  <2> SUFFICES ASSUME s \notin st PROVE FALSE
    OBVIOUS
  <2>1. Before1(s) \in ToSet(ch) /\ Before1(s) = <<c, k - 1>>
    BY <1>8, WholeBefore DEF Before1
  <2>2. k - 1 \in Nat
    <3>1. <<c, k - 1>> \in Id
      BY <2>1, <1>1
    <3>2. <<c, k - 1>>[2] \in Nat
      BY <3>1, Ids
    <3>3. QED BY <3>2
  <2>3. \A m \in (k - 1) + 1..n : <<c, m>> \notin st
    BY <1>6, <1>7, <1>8
  <2>4. k - 1 \in D
    <3>1. k - 1 \in 0..n
      BY <2>2, <1>8, <1>4
    <3>2. <<c, k - 1>> \in ToSet(ch)
      BY <2>1
    <3>3. QED BY <3>1, <3>2, <2>3
  <2>5. QED BY <2>2, <2>4, <1>6, <1>8
<1>10. i \in NodeFrom(ch, st, s)
  <2>1. i[1] = s[1] /\ i[2] >= s[2] /\ \A m \in s[2] + 1..i[2] : <<s[1], m>> \notin st
    BY <1>3, <1>4, <1>6, <1>8
  <2>2. \A m \in s[2] + 1..i[2] : <<i[1], m>> \notin st
    BY <2>1
  <2>3. QED BY <2>1, <2>2 DEF NodeFrom
<1>11. QED BY <1>3, <1>8, <1>9, <1>10

\* A node is deleted as a whole or not at all.
LEMMA NodeOfFlag ==
  ASSUME NEW ch \in Seq(Id), NEW st, NEW del, Whole(ch, st, del),
         NEW i \in ToSet(ch), st \subseteq ToSet(ch)
  PROVE  \A j \in NodeOf(ch, st, i) : j \in del <=> i \in del
PROOF
<1>1. PICK s : s = CHOOSE x \in st : x[1] = i[1] /\ i \in NodeFrom(ch, st, x)
  OBVIOUS
<1>2. s \in st /\ i \in NodeFrom(ch, st, s) /\ NodeOf(ch, st, i) = NodeFrom(ch, st, s)
  BY <1>1, NodeExists DEF NodeOf
<1>3. QED BY <1>2, NodeFlag

-----------------------------------------------------------------------------
(* What cutting, linking and deleting do to nodes.                         *)

\* split_node_at: the nodes stay whole, the right part revived as a whole.
LEMMA SplitWhole ==
  ASSUME NEW ch \in Seq(Id), NEW st, NEW del, Whole(ch, st, del), NEW c
  PROVE  Whole(ch, Split(ch, st, c), del \ Revived(ch, st, c))
PROOF
<1>1. CASE c = None \/ c \notin ToSet(ch) \/ c \in st
  <2>1. Revived(ch, st, c) = {} /\ st \subseteq Split(ch, st, c)
    BY <1>1 DEF Revived, Split
  <2>2. QED BY <2>1 DEF Whole
<1>2. CASE ~(c = None \/ c \notin ToSet(ch) \/ c \in st)
  <2>1. Split(ch, st, c) = st \cup {c} /\ Revived(ch, st, c) = NodeFrom(ch, st, c)
        /\ c \in ToSet(ch)
    BY <1>2 DEF Revived, Split
  <2>2. ToSet(ch) \subseteq Id
    BY DEF ToSet
  <2>3. ASSUME NEW p \in DOMAIN ch, ch[p] \notin st \cup {c}
        PROVE  /\ p > 1 /\ ch[p - 1] = Before1(ch[p])
               /\ ch[p] \in NodeFrom(ch, st, c) <=> ch[p - 1] \in NodeFrom(ch, st, c)
               /\ ch[p] \in del <=> ch[p - 1] \in del
    <3>1. /\ p > 1 /\ ch[p - 1] = Before1(ch[p])
          /\ ch[p] \in del <=> ch[p - 1] \in del
      BY <2>3 DEF Whole
    <3>2. PICK i, j : i = ch[p] /\ j = ch[p - 1]
      OBVIOUS
    <3>3. i \in ToSet(ch) /\ j \in ToSet(ch) /\ j = Before1(i) /\ i # c /\ i \notin st
      BY <3>1, <3>2, <2>3 DEF ToSet
    <3>4. /\ i = <<i[1], i[2]>> /\ i[2] \in Nat /\ j[1] = i[1] /\ j[2] = i[2] - 1
          /\ c = <<c[1], c[2]>> /\ c[2] \in Nat
      BY <3>3, <2>1, <2>2, Ids DEF Before1
    <3>5. i[1] = c[1] => i[2] # c[2]
      BY <3>3, <3>4
    <3>6. i[1] = c[1] /\ i[2] > c[2] =>
            c[2] + 1..i[2] = (c[2] + 1..j[2]) \cup {i[2]} /\ <<c[1], i[2]>> \notin st
      <4>1. i[2] > c[2] => c[2] + 1..i[2] = (c[2] + 1..j[2]) \cup {i[2]}
        BY <3>4
      <4>2. i[1] = c[1] => <<c[1], i[2]>> \notin st
        BY <3>3, <3>4
      <4>3. QED BY <4>1, <4>2
    <3>7. i \in NodeFrom(ch, st, c) <=> /\ i[1] = c[1] /\ i[2] > c[2]
                                        /\ \A k \in c[2] + 1..i[2] : <<c[1], k>> \notin st
      BY <3>3, <3>4, <3>5 DEF NodeFrom
    <3>8. j \in NodeFrom(ch, st, c) <=> /\ i[1] = c[1] /\ i[2] > c[2]
                                        /\ \A k \in c[2] + 1..j[2] : <<c[1], k>> \notin st
      BY <3>3, <3>4, <3>5 DEF NodeFrom
    <3>9. i \in NodeFrom(ch, st, c) <=> j \in NodeFrom(ch, st, c)
      BY <3>6, <3>7, <3>8
    <3>10. QED BY <3>1, <3>2, <3>9
  <2>4. QED BY <2>1, <2>3 DEF Whole
<1>3. QED BY <1>1, <1>2

\* A new run goes between two nodes.
LEMMA SpliceWhole ==
  ASSUME NEW ch \in Seq(Id), NEW st, NEW del, Whole(ch, st, del), del \subseteq ToSet(ch),
         NEW p \in 0..Len(ch), p < Len(ch) => ch[p + 1] \in st,
         NEW t \in Id, NEW n \in Nat, NEW new \in Seq(Id), Len(new) = n,
         \A k \in 1..n : new[k] = <<t[1], t[2] + k - 1>> /\ new[k] \notin ToSet(ch)
  PROVE  Whole(Splice(ch, p, new), st \cup {t}, del)
PROOF
<1>1. PICK d : d = Splice(ch, p, new)
  OBVIOUS
<1>2. /\ d \in Seq(Id) /\ Len(d) = Len(ch) + n
      /\ \A q \in 1..p : d[q] = ch[q]
      /\ \A k \in 1..n : d[p + k] = new[k]
      /\ \A q \in p + 1..Len(ch) : d[q + n] = ch[q]
  <2>1. d \in Seq(Id) /\ Spliced(ch, p, n, new, d)
    BY <1>1, SpliceIs
  <2>2. QED BY <2>1 DEF Spliced
<1>3. Len(ch) \in Nat
  OBVIOUS
<1>4. ASSUME NEW q \in DOMAIN d, d[q] \notin st \cup {t}
      PROVE  /\ q > 1 /\ d[q - 1] = Before1(d[q])
             /\ d[q] \in del <=> d[q - 1] \in del
  <2>1. q \in 1..Len(ch) + n
    BY <1>2
  <2>2. CASE q <= p
    <3>1. q \in 1..p /\ d[q] = ch[q] /\ q \in DOMAIN ch
      BY <2>1, <2>2, <1>2, <1>3
    <3>2. q > 1 /\ ch[q - 1] = Before1(ch[q]) /\ (ch[q] \in del <=> ch[q - 1] \in del)
      BY <3>1, <1>4 DEF Whole
    <3>3. q - 1 \in 1..p
      BY <3>1, <3>2
    <3>4. QED BY <3>1, <3>2, <3>3, <1>2
  <2>3. CASE q > p /\ q <= p + n
    <3>1. PICK k \in 1..n : q = p + k
      <4>1. q - p \in 1..n /\ q = p + (q - p)
        BY <2>1, <2>3
      <4>2. QED BY <4>1
    <3>2. d[q] = new[k] /\ new[k] = <<t[1], t[2] + k - 1>>
      BY <3>1, <1>2
    <3>3. t = <<t[1], t[2]>> /\ t[2] \in Nat
      BY Ids
    <3>4. k # 1
      BY <3>2, <3>3, <1>4
    <3>5. k - 1 \in 1..n /\ q - 1 = p + (k - 1)
      BY <3>1, <3>4
    <3>6. d[q - 1] = new[k - 1] /\ new[k - 1] = <<t[1], t[2] + (k - 1) - 1>>
      BY <3>5, <1>2
    <3>7. new[k] \notin del /\ new[k - 1] \notin del
      BY <3>5
    <3>8. Before1(d[q]) = d[q - 1]
      BY <3>2, <3>3, <3>6 DEF Before1
    <3>9. q > 1
      BY <3>1, <3>4
    <3>10. QED BY <3>2, <3>6, <3>7, <3>8, <3>9
  <2>4. CASE q > p + n
    <3>1. PICK m \in p + 1..Len(ch) : q = m + n
      <4>1. q - n \in p + 1..Len(ch) /\ q = (q - n) + n
        BY <2>1, <2>4, <1>3
      <4>2. QED BY <4>1
    <3>2. d[q] = ch[m] /\ m \in DOMAIN ch
      BY <3>1, <1>2, <1>3
    <3>3. m # p + 1
      BY <3>1, <3>2, <1>4, <1>3
    <3>4. m > 1 /\ ch[m - 1] = Before1(ch[m]) /\ (ch[m] \in del <=> ch[m - 1] \in del)
      BY <3>2, <1>4 DEF Whole
    <3>5. m - 1 \in p + 1..Len(ch) /\ q - 1 = (m - 1) + n
      BY <3>1, <3>3, <1>3
    <3>6. d[q - 1] = ch[m - 1]
      BY <3>5, <1>2
    <3>7. QED BY <3>1, <3>2, <3>4, <3>6
  <2>5. QED BY <2>1, <2>2, <2>3, <2>4
<1>5. QED BY <1>1, <1>4 DEF Whole

\* delete_range.
RangeCuts(ids) == {i \in ids : <<i[1], i[2] - 1>> \notin ids}
                  \cup {Next1(i) : i \in {j \in ids : Next1(j) \notin ids}}
RangeStarts(ch, st, del, ids) ==
  {i \in RangeCuts(ids) \cap ToSet(ch) : NodeOf(ch, st, i) \cap del = {}}

\* delete_range: it cuts what it would delete in part.
LEMMA RangeWhole ==
  ASSUME NEW ch \in Seq(Id), NEW st, NEW del, Whole(ch, st, del), st \subseteq ToSet(ch),
         NEW ids, ids \subseteq Id
  PROVE  Whole(ch, st \cup RangeStarts(ch, st, del, ids), del \cup (ids \ del))
PROOF
<1>1. ASSUME NEW p \in DOMAIN ch, ch[p] \notin st \cup RangeStarts(ch, st, del, ids)
      PROVE  /\ p > 1 /\ ch[p - 1] = Before1(ch[p])
             /\ ch[p] \in del \cup (ids \ del) <=> ch[p - 1] \in del \cup (ids \ del)
  <2>1. p > 1 /\ ch[p - 1] = Before1(ch[p]) /\ (ch[p] \in del <=> ch[p - 1] \in del)
    BY <1>1 DEF Whole
  <2>2. PICK i, j : i = ch[p] /\ j = ch[p - 1]
    OBVIOUS
  <2>3. i \in ToSet(ch) /\ i \in Id /\ j \in Id /\ j = Before1(i) /\ i = Next1(j)
    <3>1. i \in ToSet(ch) /\ i \in Id /\ j \in Id /\ j = Before1(i)
      BY <2>1, <2>2 DEF ToSet
    <3>2. QED BY <3>1, SteppedBack
  <2>4. ASSUME i \notin del PROVE i \in ids <=> j \in ids
    <3>1. NodeOf(ch, st, i) \cap del = {}
      BY <2>3, <2>4, NodeOfFlag
    <3>2. i \notin RangeCuts(ids)
      BY <3>1, <2>2, <2>3, <1>1 DEF RangeStarts
    <3>3. QED BY <3>2, <2>3 DEF RangeCuts, Before1
  <2>5. QED BY <2>1, <2>2, <2>4
<1>2. QED BY <1>1 DEF Whole

\* remove_at: the n first live ids from position p on.
LEMMA RemovedWhole ==
  ASSUME NEW ch \in Seq(Id), NEW st, NEW del, Whole(ch, st, del), Distinct(ch),
         NEW p \in 1..Len(ch), ch[p] \notin del,
         NEW live, live = Among(SubSeq(ch, p, Len(ch)), ToSet(ch) \ del),
         NEW n \in Nat \ {0}, n <= Len(live)
  PROVE  LET ids == ToSet(SubSeq(live, 1, n))
         IN /\ Whole(ch, st \cup ({live[1], Next1(live[n])} \cap ToSet(ch)), del \cup ids)
            /\ ids \subseteq ToSet(ch) /\ live[1] \in ToSet(ch)
PROOF
<1>1. PICK s : s = SubSeq(ch, p, Len(ch))
  OBVIOUS
<1>2. /\ s \in Seq(Id) /\ Len(s) = Len(ch) - p + 1
      /\ \A q \in 1..Len(s) : s[q] = ch[p + q - 1]
  BY <1>1
<1>3. PICK T : T = ToSet(ch) \ del
  OBVIOUS
<1>4. live \in Seq(Id)
  BY <1>1, <1>2, <1>3, AmongPicks
<1>5. PICK f : Picks(live, s, T, Len(s), f)
  BY <1>1, <1>2, <1>3, AmongPicks
<1>6. PICK m \in Nat : m = Len(live)
  BY <1>4
<1>7. /\ f \in [1..m -> 1..Len(s)]
      /\ \A k \in 1..m : live[k] = s[f[k]] /\ live[k] \in T
      /\ \A j, k \in 1..m : j < k => f[j] < f[k]
      /\ \A q \in 1..Len(s) : s[q] \in T => \E k \in 1..m : f[k] = q
  BY <1>5, <1>6 DEF Picks
<1>8. Len(s) \in Nat /\ Len(ch) \in Nat
  BY <1>2
<1>9. PICK ids : ids = ToSet(SubSeq(live, 1, n))
  OBVIOUS
<1>10. ids = {live[k] : k \in 1..n}
  <2>1. PICK l : l = SubSeq(live, 1, n)
    OBVIOUS
  <2>2. DOMAIN l = 1..n /\ \A k \in 1..n : l[k] = live[k]
    BY <2>1, <1>4, <1>6
  <2>3. ToSet(l) = {l[k] : k \in 1..n}
    BY <2>2 DEF ToSet
  <2>4. QED BY <2>1, <2>2, <2>3, <1>9
\* Of two neighbours that are live, the right one is the next live one.
<1>11. ASSUME NEW k \in 1..m, NEW q \in p + 1..Len(ch), live[k] = ch[q], ch[q - 1] \in T
       PROVE  k > 1 /\ live[k - 1] = ch[q - 1]
  <2>1. f[k] \in 1..Len(s) /\ ch[p + f[k] - 1] = ch[q]
    BY <1>7, <1>11, <1>2
  <2>2. p + f[k] - 1 \in DOMAIN ch /\ q \in DOMAIN ch
    BY <2>1, <1>2, <1>8
  <2>3. f[k] = q - p + 1
    BY <2>1, <2>2, <1>8 DEF Distinct
  <2>4. q - p \in 1..Len(s) /\ s[q - p] = ch[q - 1]
    <3>1. q - p \in 1..Len(s) /\ p + (q - p) - 1 = q - 1
      BY <1>2, <1>8
    <3>2. QED BY <3>1, <1>2
  <2>5. PICK j \in 1..m : f[j] = q - p
    BY <2>4, <1>7, <1>11
  <2>6. j < k
    <3>1. ~(k < j) /\ k # j
      BY <2>3, <2>5, <1>7
    <3>2. QED BY <3>1
  <2>7. ASSUME j < k - 1 PROVE FALSE
    <3>1. k - 1 \in 1..m /\ f[j] < f[k - 1] /\ f[k - 1] < f[k] /\ f[k - 1] \in 1..Len(s)
      BY <2>6, <2>7, <1>7
    <3>2. QED BY <3>1, <2>3, <2>5
  <2>8. j = k - 1
    BY <2>6, <2>7
  <2>9. live[j] = s[f[j]]
    BY <1>7
  <2>10. QED BY <2>4, <2>5, <2>6, <2>8, <2>9
\* The live ids from p on are the live ones of the list.
<1>12. ASSUME NEW q \in p..Len(ch), ch[q] \in T PROVE \E k \in 1..m : live[k] = ch[q]
  <2>1. q - p + 1 \in 1..Len(s) /\ p + (q - p + 1) - 1 = q
    BY <1>2, <1>8
  <2>2. s[q - p + 1] = ch[q]
    BY <2>1, <1>2
  <2>3. PICK k \in 1..m : f[k] = q - p + 1
    BY <2>1, <2>2, <1>7, <1>12
  <2>4. live[k] = s[f[k]]
    BY <1>7
  <2>5. QED BY <2>2, <2>3, <2>4
<1>13. \A k \in 1..m : \E q \in p..Len(ch) : live[k] = ch[q]
  <2>1. ASSUME NEW k \in 1..m PROVE \E q \in p..Len(ch) : live[k] = ch[q]
    <3>1. f[k] \in 1..Len(s) /\ live[k] = s[f[k]]
      BY <1>7
    <3>2. PICK x : x = f[k]
      OBVIOUS
    <3>3. x \in 1..Len(s) /\ live[k] = s[x] /\ s[x] = ch[p + x - 1]
      BY <3>1, <3>2, <1>2
    <3>4. p + x - 1 \in p..Len(ch)
      <4>1. PICK M, K : M = Len(ch) /\ K = Len(s)
        OBVIOUS
      <4>2. M \in Nat /\ K = M - p + 1 /\ p \in 1..M /\ x \in 1..K
        BY <4>1, <3>3, <1>2, <1>8
      <4>3. p + x - 1 \in p..M
        BY <4>2
      <4>4. QED BY <4>1, <4>3
    <3>5. QED BY <3>3, <3>4
  <2>2. QED BY <2>1
<1>14. ids \subseteq T /\ T \subseteq ToSet(ch) /\ n \in 1..m /\ 1 \in 1..m
       /\ live[1] \in ToSet(ch)
  <2>1. n \in 1..m /\ 1 \in 1..m /\ 1..n \subseteq 1..m
    <3>1. n \in Nat /\ n # 0 /\ n <= m /\ m \in Nat
      BY <1>6
    <3>2. n \in 1..m /\ 1 \in 1..m
      BY <3>1
    <3>3. \A k \in 1..n : k \in 1..m
      BY <3>1
    <3>4. QED BY <3>2, <3>3
  <2>2. \A k \in 1..m : live[k] \in T
    BY <1>7
  <2>3. T \subseteq ToSet(ch)
    BY <1>3
  <2>4. ids \subseteq T /\ live[1] \in T
    BY <2>1, <2>2, <1>10
  <2>5. QED BY <2>1, <2>3, <2>4
<1> DEFINE st2 == st \cup ({live[1], Next1(live[n])} \cap ToSet(ch))
<1>15. live[1] = ch[p]
  <2>1. ch[p] \in T /\ 1 \in 1..Len(s) /\ s[1] = ch[p]
    <3>1. ch[p] \in T
      BY <1>3 DEF ToSet
    <3>2. 1 \in 1..Len(s) /\ p + 1 - 1 = p
      BY <1>2, <1>8
    <3>3. QED BY <3>1, <3>2, <1>2
  <2>2. PICK k \in 1..m : f[k] = 1
    BY <2>1, <1>7
  <2>3. 1 < k => f[1] < 1
    BY <2>2, <1>7, <1>14
  <2>4. f[1] \in 1..Len(s)
    BY <1>7, <1>14
  <2>5. k = 1
    BY <2>3, <2>4, <1>8
  <2>6. live[1] = s[f[1]]
    BY <1>7, <1>14
  <2>7. QED BY <2>1, <2>2, <2>5, <2>6
<1>16. ASSUME NEW q \in DOMAIN ch, ch[q] \notin st2
       PROVE  /\ q > 1 /\ ch[q - 1] = Before1(ch[q])
              /\ ch[q] \in del \cup ids <=> ch[q - 1] \in del \cup ids
  <2>1. q > 1 /\ ch[q - 1] = Before1(ch[q]) /\ (ch[q] \in del <=> ch[q - 1] \in del)
    BY <1>16 DEF Whole
  <2>2. ch[q] \in ToSet(ch) /\ ch[q - 1] \in ToSet(ch) /\ q - 1 \in DOMAIN ch /\ q \in 1..Len(ch)
        /\ ToSet(ch) \subseteq Id
    BY <2>1 DEF ToSet
  <2>3. ASSUME ch[q] \notin del, ch[q] \in ids PROVE ch[q - 1] \in ids
    <3>1. PICK k \in 1..n : ch[q] = live[k]
      BY <2>3, <1>10
    <3>2. k \in 1..m
      BY <1>14
    <3>3. PICK x \in p..Len(ch) : live[k] = ch[x]
      BY <3>2, <1>13
    <3>4. x = q
      BY <3>1, <3>3, <2>2, <1>8 DEF Distinct
    <3>5. q # p
      BY <1>14, <1>15, <1>16, <2>2
    <3>6. ch[q - 1] \in T
      BY <2>1, <2>2, <2>3, <1>3
    <3>7. q \in p + 1..Len(ch)
      BY <3>3, <3>4, <3>5, <1>8
    <3>8. k > 1 /\ live[k - 1] = ch[q - 1]
      BY <3>1, <3>2, <3>6, <3>7, <1>11
    <3>9. k - 1 \in 1..n
      BY <3>1, <3>8
    <3>10. QED BY <3>8, <3>9, <1>10
  <2>4. ASSUME ch[q - 1] \notin del, ch[q - 1] \in ids PROVE ch[q] \in ids
    <3>1. PICK k \in 1..n : ch[q - 1] = live[k]
      BY <2>4, <1>10
    <3>2. k \in 1..m
      BY <1>14
    <3>3. PICK x \in p..Len(ch) : live[k] = ch[x]
      BY <3>2, <1>13
    <3>4. x = q - 1
      BY <3>1, <3>3, <2>2, <1>8 DEF Distinct
    <3>5. ch[q] \in T /\ q \in p..Len(ch) /\ q \in p + 1..Len(ch)
      BY <2>1, <2>2, <2>4, <3>3, <3>4, <1>3, <1>8
    <3>6. PICK j \in 1..m : live[j] = ch[q]
      BY <3>5, <1>12
    <3>7. ch[q - 1] \in T
      BY <2>2, <2>4, <1>3
    <3>8. j > 1 /\ live[j - 1] = ch[q - 1]
      BY <3>5, <3>6, <3>7, <1>11
    <3>9. j - 1 = k
      <4>1. PICK i : i = j - 1
        OBVIOUS
      <4>2. i \in 1..m /\ live[i] = live[k]
        BY <4>1, <3>1, <3>8
      <4>3. f[i] \in 1..Len(s) /\ f[k] \in 1..Len(s) /\ live[i] = s[f[i]] /\ live[k] = s[f[k]]
        BY <4>2, <3>2, <1>7
      <4>4. PICK x1, y1 : x1 = f[i] /\ y1 = f[k]
        OBVIOUS
      <4>5. ch[p + x1 - 1] = ch[p + y1 - 1] /\ x1 \in 1..Len(s) /\ y1 \in 1..Len(s)
        BY <4>2, <4>3, <4>4, <1>2
      <4>6. p + x1 - 1 \in DOMAIN ch /\ p + y1 - 1 \in DOMAIN ch
        <5>1. ASSUME NEW z \in 1..Len(s) PROVE p + z - 1 \in DOMAIN ch
          BY <1>2, <1>8
        <5>2. QED BY <4>5, <5>1
      <4>7. f[i] = f[k] /\ f[i] \in Int
        <5>1. p + x1 - 1 = p + y1 - 1
          BY <4>5, <4>6 DEF Distinct
        <5>2. x1 \in Int /\ y1 \in Int /\ p \in Int
          BY <4>5, <1>8
        <5>3. x1 = y1
          BY <5>1, <5>2
        <5>4. QED BY <4>4, <5>2, <5>3
      <4>8. ~(i < k) /\ ~(k < i)
        BY <4>2, <4>7, <3>2, <1>7
      <4>9. QED BY <4>1, <4>2, <4>8
    <3>10. k # n
      <4>1. ch[q] = Next1(ch[q - 1])
        BY <2>1, <2>2, SteppedBack
      <4>2. QED BY <4>1, <3>1, <1>16, <2>2
    <3>11. j \in 1..n
      BY <3>1, <3>9, <3>10
    <3>12. QED BY <3>6, <3>11, <1>10
  <2>5. QED BY <2>1, <2>3, <2>4
<1>17. Whole(ch, st2, del \cup ids)
  <2> HIDE DEF st2
  <2>1. QED BY <1>16 DEF Whole
<1>18. QED BY <1>9, <1>14, <1>17

-----------------------------------------------------------------------------
(* Where a run is linked in: between two nodes.                            *)

\* A slice of a list.
LEMMA SliceIs ==
  ASSUME NEW S, NEW ch \in Seq(S), NEW m \in Nat \ {0}, NEW n \in Nat, n <= Len(ch)
  PROVE  /\ SubSeq(ch, m, n) \in Seq(S)
         /\ Len(SubSeq(ch, m, n)) = IF m <= n THEN n - m + 1 ELSE 0
         /\ \A q \in 1..Len(SubSeq(ch, m, n)) : SubSeq(ch, m, n)[q] = ch[q + m - 1]
         /\ ToSet(SubSeq(ch, m, n)) = {ch[q] : q \in m..n}
PROOF
<1>1. PICK s : s = SubSeq(ch, m, n)
  OBVIOUS
<1>2. /\ s \in Seq(S) /\ Len(s) = IF m <= n THEN n - m + 1 ELSE 0
      /\ \A q \in 1..Len(s) : s[q] = ch[q + m - 1]
  BY <1>1
<1>3. ToSet(s) = {ch[q] : q \in m..n}
  <2>1. ASSUME NEW x \in ToSet(s) PROVE x \in {ch[q] : q \in m..n}
    <3>1. PICK q \in 1..Len(s) : x = s[q]
      BY <1>2 DEF ToSet
    <3>2. q + m - 1 \in m..n /\ x = ch[q + m - 1]
      BY <3>1, <1>2
    <3>3. QED BY <3>2
  <2>2. ASSUME NEW q \in m..n PROVE ch[q] \in ToSet(s)
    <3>1. q - m + 1 \in 1..Len(s) /\ (q - m + 1) + m - 1 = q
      BY <1>2
    <3>2. s[q - m + 1] = ch[q]
      BY <3>1, <1>2
    <3>3. QED BY <3>1, <3>2, <1>2 DEF ToSet
  <2>3. QED BY <2>1, <2>2
<1>4. QED BY <1>1, <1>2, <1>3

\* The siblings that the loop visits.
SiblingsBetween(ch, st, lt, rt) ==
  Among(SubSeq(ch, Pos(ch, lt) + 1, IF rt = None THEN Len(ch) ELSE Pos(ch, rt) - 1), st)

\* The siblings are node starts between the two origins.
LEMMA SiblingsIn ==
  ASSUME NEW ch \in Seq(Id), Distinct(ch), NEW st,
         NEW lt \in ToSet(ch) \cup {None}, NEW rt \in ToSet(ch) \cup {None}
  PROVE  /\ SiblingsBetween(ch, st, lt, rt) \in Seq(ToSet(ch) \cap st)
PROOF
<1>1. PICK a, b : a = Pos(ch, lt) + 1 /\ b = IF rt = None THEN Len(ch) ELSE Pos(ch, rt) - 1
  OBVIOUS
<1>2. a \in Nat \ {0} /\ b \in Nat /\ b <= Len(ch)
  <2>1. None \notin Id /\ Len(ch) \in Nat
    BY Ids
  <2>2. QED BY <2>1, <1>1, PosIs
<1>3. PICK s : s = SubSeq(ch, a, b)
  OBVIOUS
<1>4. s \in Seq(Id) /\ ToSet(s) = {ch[q] : q \in a..b}
  <2>1. SubSeq(ch, a, b) \in Seq(Id) /\ ToSet(SubSeq(ch, a, b)) = {ch[q] : q \in a..b}
    BY <1>2, SliceIs
  <2>2. QED BY <2>1, <1>3
<1>5. ToSet(s) \subseteq ToSet(ch)
  <2>1. \A q \in a..b : q \in DOMAIN ch
    BY <1>2
  <2>2. QED BY <2>1, <1>4 DEF ToSet
<1>6. PICK m : m = Among(s, st)
  OBVIOUS
<1>7. m \in Seq(Id)
  BY <1>4, <1>6, AmongPicks
<1>8. PICK f : Picks(m, s, st, Len(s), f)
  BY <1>4, <1>6, AmongPicks
<1>9. \A k \in 1..Len(m) : m[k] \in ToSet(ch) \cap st
  <2>1. ASSUME NEW k \in 1..Len(m) PROVE m[k] \in ToSet(ch) \cap st
    <3>1. f[k] \in 1..Len(s) /\ m[k] = s[f[k]] /\ m[k] \in st
      BY <1>8 DEF Picks
    <3>2. m[k] \in ToSet(s)
      BY <3>1, <1>4 DEF ToSet
    <3>3. QED BY <3>1, <3>2, <1>5
  <2>2. QED BY <2>1
<1>10. m \in Seq(ToSet(ch) \cap st)
  <2>1. m = [k \in 1..Len(m) |-> m[k]] /\ Len(m) \in Nat
    BY <1>7
  <2>2. QED BY <2>1, <1>9, <1>7
<1>11. QED BY <1>1, <1>3, <1>6, <1>10 DEF SiblingsBetween

\* The node an item goes behind is its origin or a sibling.
LEMMA PlacedBehind ==
  ASSUME NEW ch \in Seq(Id), Distinct(ch), NEW st,
         NEW rs, NEW this \in Id, this \in DOMAIN rs,
         rs[this].left \in ToSet(ch) \cup {None}, rs[this].right \in ToSet(ch) \cup {None}
  PROVE  PlaceAfter(ch, st, rs, this) \in {rs[this].left} \cup (ToSet(ch) \cap st)
PROOF
<1>1. PICK lt, rt : lt = rs[this].left /\ rt = rs[this].right
  OBVIOUS
<1>2. PICK sib : sib = SiblingsBetween(ch, st, lt, rt)
  OBVIOUS
<1>3. sib \in Seq(ToSet(ch) \cap st)
  BY <1>1, <1>2, SiblingsIn
<1>4. PICK nodes : nodes = ToSet(sib) \cup {this}
  OBVIOUS
<1>5. PICK oL, oR : oL = [i \in nodes |-> OriginLeft(rs, i)] /\ oR = [i \in nodes |-> OriginRight(rs, i)]
  OBVIOUS
<1>6. PlaceAfter(ch, st, rs, this) = LeftAfterConflicts(this, sib, oL, oR)
  BY <1>1, <1>2, <1>4, <1>5 DEF PlaceAfter, Resolve, SiblingsBetween
<1>7. oL[this] = lt
  BY <1>1, <1>4, <1>5 DEF OriginLeft
<1>8. this[1] \in Int /\ \A c \in ToSet(ch) \cap st : c[1] \in Int
  <2>1. ToSet(ch) \subseteq Id
    BY DEF ToSet
  <2>2. QED BY <2>1, Ids
<1>9. LeftAfterConflicts(this, sib, oL, oR) \in {oL[this]} \cup (ToSet(ch) \cap st)
  BY <1>3, <1>8, BackToSibling
<1>10. QED BY <1>1, <1>6, <1>7, <1>9

\* A node has a last id.
LEMMA EndExists ==
  ASSUME NEW ch \in Seq(Id), NEW st, NEW s \in ToSet(ch) \cap st
  PROVE  EndOf(ch, st, s) \in NodeFrom(ch, st, s) /\ Next1(EndOf(ch, st, s)) \notin NodeFrom(ch, st, s)
PROOF
<1>1. ToSet(ch) \subseteq Id
  BY DEF ToSet
<1>2. s \in Id /\ s # None
  BY <1>1, Ids
<1>3. PICK N : N = NodeFrom(ch, st, s)
  OBVIOUS
<1>4. N \subseteq Id /\ \A j \in N : j[1] = s[1]
  BY <1>1, <1>3 DEF NodeFrom
<1>5. s \in N
  <2>1. s[2] \in Nat
    BY <1>2, Ids
  <2>2. s[2] >= s[2] /\ s[2] + 1..s[2] = {}
    BY <2>1
  <2>3. QED BY <2>2, <1>3 DEF NodeFrom
<1>6. PICK M \in Nat : \A j \in N : j[2] \in Nat /\ j[2] < M /\ j = <<s[1], j[2]>>
  <2>1. s[1] \in Client /\ MaxClock[s[1]] \in Nat
    BY <1>2, Ids, ConflictAssumption
  <2>2. ASSUME NEW j \in N PROVE j[2] \in Nat /\ j[2] < MaxClock[s[1]] /\ j = <<s[1], j[2]>>
    <3>1. j \in Id /\ j = <<s[1], j[2]>>
      BY <1>4, Ids
    <3>2. PICK c \in Client : j \in {c} \X (0..MaxClock[c] - 1)
      BY <3>1 DEF Id
    <3>3. c = s[1] /\ j[2] \in 0..MaxClock[c] - 1
      BY <3>2, <1>4
    <3>4. QED BY <3>1, <3>3, <2>1
  <2>3. QED BY <2>1, <2>2
<1>7. PICK k \in {M - j[2] : j \in N} : \A x \in {M - j[2] : j \in N} : k <= x
  <2>1. {M - j[2] : j \in N} \subseteq Nat
    BY <1>6
  <2>2. M - s[2] \in {M - j[2] : j \in N}
    BY <1>5
  <2>3. QED BY <2>1, <2>2, LeastOf
<1>8. PICK j \in N : k = M - j[2]
  BY <1>7
<1>9. Next1(j) \notin N
  <2> SUFFICES ASSUME Next1(j) \in N PROVE FALSE
    OBVIOUS
  <2>1. Next1(j)[2] = j[2] + 1
    BY DEF Next1
  <2>2. k <= M - (j[2] + 1)
    BY <2>1, <1>7
  <2>3. QED BY <2>2, <1>6, <1>8
<1>10. EndOf(ch, st, s) = CHOOSE x \in N : Next1(x) \notin N
  BY <1>2, <1>3 DEF EndOf
<1>11. QED BY <1>3, <1>8, <1>9, <1>10

PlaceEnd(ch, st, rs, this) ==
  LET after == PlaceAfter(ch, st, rs, this)
  IN  Pos(ch, IF after = rs[this].left THEN after ELSE EndOf(ch, st, after))

\* The place of a run: behind nothing, or behind the last id of a node.
LEMMA PlacedBetween ==
  ASSUME NEW ch \in Seq(Id), Distinct(ch), NEW st, NEW del, Whole(ch, st, del),
         NEW rs, NEW this \in Id, this \in DOMAIN rs,
         rs[this].left \in ToSet(ch) \cup {None}, rs[this].right \in ToSet(ch) \cup {None},
         AfterLeft(rs[this].left, ch) \in st \cup {None}
  PROVE  LET p == PlaceEnd(ch, st, rs, this)
         IN  p \in 0..Len(ch) /\ (p < Len(ch) => ch[p + 1] \in st)
PROOF
<1>1. PICK after, lt, p : /\ after = PlaceAfter(ch, st, rs, this) /\ lt = rs[this].left
                            /\ p = PlaceEnd(ch, st, rs, this)
  OBVIOUS
<1>2. after \in {lt} \cup (ToSet(ch) \cap st)
  BY <1>1, PlacedBehind
<1>3. None \notin Id /\ ToSet(ch) \subseteq Id /\ Len(ch) \in Nat
  <2>1. None \notin Id
    BY Ids
  <2>2. ToSet(ch) \subseteq Id
    BY DEF ToSet
  <2>3. QED BY <2>1, <2>2
<1>4. ASSUME NEW q \in 0..Len(ch), q < Len(ch), ch[q + 1] \notin st
      PROVE  q > 0 /\ ch[q] \in ToSet(ch) /\ ch[q + 1] \in ToSet(ch) /\ ch[q + 1] = Next1(ch[q])
  <2>1. q + 1 \in DOMAIN ch /\ (q + 1) - 1 = q
    BY <1>3, <1>4
  <2>2. q > 0 /\ ch[q] = Before1(ch[q + 1])
    BY <2>1, <1>4 DEF Whole
  <2>3. ch[q] \in ToSet(ch) /\ ch[q + 1] \in ToSet(ch)
    BY <2>1, <2>2 DEF ToSet
  <2>4. QED BY <2>2, <2>3, <1>3, SteppedBack
<1>5. CASE after = lt
  <2>1. p = Pos(ch, lt)
    BY <1>1, <1>5 DEF PlaceEnd
  <2>2. p \in 0..Len(ch) /\ (p > 0 => lt # None /\ ch[p] = lt)
    BY <2>1, <1>1, <1>3, PosIs
  <2>3. ASSUME p < Len(ch), ch[p + 1] \notin st PROVE FALSE
    <3>1. p > 0 /\ ch[p + 1] \in ToSet(ch) /\ ch[p + 1] = Next1(lt)
      BY <2>2, <2>3, <1>4
    <3>2. AfterLeft(lt, ch) = Next1(lt)
      BY <3>1, <2>2 DEF AfterLeft
    <3>3. Next1(lt) \in st
      BY <3>1, <3>2, <1>1, <1>3
    <3>4. QED BY <3>1, <3>3, <2>3
  <2>4. QED BY <2>2, <2>3, <1>1
<1>6. CASE after # lt
  <2>1. after \in ToSet(ch) \cap st
    BY <1>2, <1>6
  <2>2. PICK e : e = EndOf(ch, st, after)
    OBVIOUS
  <2>3. e \in NodeFrom(ch, st, after) /\ Next1(e) \notin NodeFrom(ch, st, after)
    BY <2>1, <2>2, EndExists
  <2>4. p = Pos(ch, e)
    BY <1>1, <1>6, <2>2 DEF PlaceEnd
  <2>5. e \in ToSet(ch)
    BY <2>3 DEF NodeFrom
  <2>6. p \in 0..Len(ch) /\ ch[p] = e
    BY <2>4, <2>5, <1>3, PosIs
  <2>7. ASSUME p < Len(ch), ch[p + 1] \notin st PROVE FALSE
    <3>1. PICK i : i = Next1(e)
      OBVIOUS
    <3>2. i \in ToSet(ch) /\ i \notin st
      BY <2>6, <2>7, <3>1, <1>4
    <3>3. e \in Id /\ after \in Id /\ i \in Id
      BY <2>1, <2>5, <3>2, <1>3
    <3>4. /\ e[2] \in Nat /\ after[2] \in Nat /\ i[1] = e[1] /\ i[2] = e[2] + 1
          /\ i = <<i[1], i[2]>>
      BY <3>1, <3>3, Ids DEF Next1
    <3>5. e[1] = after[1] /\ e[2] >= after[2] /\ \A k \in after[2] + 1..e[2] : <<after[1], k>> \notin st
      BY <2>3 DEF NodeFrom
    <3>6. ASSUME NEW k \in after[2] + 1..i[2] PROVE <<after[1], k>> \notin st
      <4>1. CASE k = i[2]
        BY <4>1, <3>2, <3>4, <3>5
      <4>2. CASE k # i[2]
        <5>1. k \in after[2] + 1..e[2]
          BY <4>2, <3>4
        <5>2. QED BY <5>1, <3>5
      <4>3. QED BY <4>1, <4>2
    <3>7. i[1] = after[1] /\ i[2] >= after[2]
      BY <3>4, <3>5
    <3>8. i \in NodeFrom(ch, st, after)
      BY <3>2, <3>4, <3>6, <3>7 DEF NodeFrom
    <3>9. QED BY <3>1, <3>8, <2>3
  <2>8. QED BY <2>6, <2>7, <1>1
<1>7. QED BY <1>5, <1>6

\* The ids of a run, as they are linked in.
NewIds(t, n) == [k \in 1..n |-> <<t[1], t[2] + k - 1>>]

\* The ids of a new run are distinct, its first id the first of them.
LEMMA NewIdsAre ==
  ASSUME NEW t \in Id, NEW n \in Nat \ {0}, RunIds(t, n) \subseteq Id
  PROVE  /\ NewIds(t, n) \in Seq(Id) /\ Len(NewIds(t, n)) = n
         /\ ToSet(NewIds(t, n)) = RunIds(t, n) /\ Distinct(NewIds(t, n))
         /\ NewIds(t, n)[1] = t /\ t \in RunIds(t, n)
PROOF
<1>1. PICK c, m : c = t[1] /\ m = t[2]
  OBVIOUS
<1>2. t = <<c, m>> /\ m \in Nat
  BY <1>1, Ids
<1>3. RunIds(t, n) = {c} \X (m..m + n - 1)
  BY <1>1 DEF RunIds
<1>4. \A k \in 1..n : <<c, m + k - 1>> \in RunIds(t, n)
  BY <1>2, <1>3
<1>5. PICK s : s = [k \in 1..n |-> <<c, m + k - 1>>]
  OBVIOUS
<1>6. NewIds(t, n) = s
  BY <1>1, <1>5 DEF NewIds
<1>7. \A k \in 1..n : s[k] \in Id
  BY <1>4, <1>5
<1>8. s \in Seq(Id) /\ Len(s) = n /\ DOMAIN s = 1..n
  BY <1>5, <1>7
<1>9. ToSet(s) = RunIds(t, n)
  <2>1. ToSet(s) \subseteq RunIds(t, n)
    BY <1>4, <1>5, <1>8 DEF ToSet
  <2>2. ASSUME NEW i \in RunIds(t, n) PROVE i \in ToSet(s)
    <3>1. PICK x \in m..m + n - 1 : i = <<c, x>>
      BY <1>3
    <3>2. x - m + 1 \in 1..n /\ m + (x - m + 1) - 1 = x
      BY <1>2
    <3>3. s[x - m + 1] = i
      BY <3>1, <3>2, <1>5
    <3>4. QED BY <3>2, <3>3, <1>8 DEF ToSet
  <2>3. QED BY <2>1, <2>2
<1>10. Distinct(s)
  <2>1. \A j, k \in 1..n : <<c, m + j - 1>> = <<c, m + k - 1>> => j = k
    BY <1>2
  <2>2. QED BY <2>1, <1>5, <1>8 DEF Distinct
<1>11. s[1] = t /\ t \in RunIds(t, n)
  <2>1. 1 \in 1..n /\ m + 1 - 1 = m
    BY <1>2
  <2>2. QED BY <2>1, <1>2, <1>4, <1>5
<1>12. QED BY <1>6, <1>8, <1>9, <1>10, <1>11

\* Linking a run in adds its ids, each of them once.
LEMMA SpliceSet ==
  ASSUME NEW ch \in Seq(Id), NEW p \in 0..Len(ch), NEW n \in Nat, NEW new \in Seq(Id),
         Len(new) = n
  PROVE  /\ ToSet(Splice(ch, p, new)) = ToSet(ch) \cup ToSet(new)
         /\ (Distinct(ch) /\ Distinct(new) /\ ToSet(ch) \cap ToSet(new) = {}) => Distinct(Splice(ch, p, new))
PROOF
<1>1. n = Len(new)
  OBVIOUS
<1>2. PICK d : d = Splice(ch, p, new)
  OBVIOUS
<1>3. /\ d \in Seq(Id) /\ Len(d) = Len(ch) + n
      /\ \A q \in 1..p : d[q] = ch[q]
      /\ \A k \in 1..n : d[p + k] = new[k]
      /\ \A q \in p + 1..Len(ch) : d[q + n] = ch[q]
  <2>1. Splice(ch, p, new) \in Seq(Id) /\ Spliced(ch, p, n, new, Splice(ch, p, new))
    BY <1>1, SpliceIs
  <2>2. QED BY <2>1, <1>2 DEF Spliced
<1>4. Len(ch) \in Nat
  OBVIOUS
\* Where an element comes from.
<1> DEFINE Left(q) == q \in 1..p
           Mid(q) == q - p \in 1..n /\ d[q] = new[q - p]
           Right(q) == q - n \in p + 1..Len(ch) /\ d[q] = ch[q - n]
<1>5. ASSUME NEW q \in DOMAIN d
      PROVE  \/ q \in 1..p /\ d[q] = ch[q]
             \/ Mid(q)
             \/ Right(q)
  <2>1. q \in 1..Len(ch) + n
    BY <1>3
  <2>2. CASE q <= p
    BY <2>1, <2>2, <1>3
  <2>3. CASE q > p /\ q <= p + n
    <3>1. q - p \in 1..n /\ p + (q - p) = q
      BY <2>1, <2>3
    <3>2. d[p + (q - p)] = new[q - p]
      BY <3>1, <1>3
    <3>3. QED BY <3>1, <3>2
  <2>4. CASE q > p + n
    <3>1. q - n \in p + 1..Len(ch) /\ (q - n) + n = q
      BY <2>1, <2>4, <1>4
    <3>2. d[(q - n) + n] = ch[q - n]
      BY <3>1, <1>3
    <3>3. QED BY <3>1, <3>2
  <2>5. QED BY <2>1, <2>2, <2>3, <2>4
<1>6. DOMAIN d = 1..Len(ch) + n /\ DOMAIN ch = 1..Len(ch) /\ DOMAIN new = 1..n
  BY <1>1, <1>3
<1>7. ToSet(d) \subseteq ToSet(ch) \cup ToSet(new)
  <2>1. ASSUME NEW q \in DOMAIN d PROVE d[q] \in ToSet(ch) \cup ToSet(new)
    <3>1. CASE q \in 1..p /\ d[q] = ch[q]
      BY <3>1, <1>6, <1>4 DEF ToSet
    <3>2. CASE Mid(q)
      BY <3>2, <1>6 DEF ToSet
    <3>3. CASE Right(q)
      BY <3>3, <1>6, <1>4 DEF ToSet
    <3>4. QED BY <3>1, <3>2, <3>3, <1>5
  <2>2. QED BY <2>1 DEF ToSet
<1>8. ToSet(ch) \subseteq ToSet(d)
  <2>1. ASSUME NEW q \in 1..Len(ch) PROVE ch[q] \in ToSet(d)
    <3>1. CASE q <= p
      <4>1. q \in 1..p /\ q \in DOMAIN d
        BY <3>1, <1>6, <1>4
      <4>2. QED BY <4>1, <1>3 DEF ToSet
    <3>2. CASE q > p
      <4>1. q \in p + 1..Len(ch) /\ q + n \in DOMAIN d
        BY <3>2, <1>6, <1>4
      <4>2. QED BY <4>1, <1>3 DEF ToSet
    <3>3. QED BY <3>1, <3>2
  <2>2. QED BY <2>1, <1>6 DEF ToSet
<1>9. ToSet(new) \subseteq ToSet(d)
  <2>1. ASSUME NEW k \in 1..n PROVE new[k] \in ToSet(d)
    <3>1. p + k \in DOMAIN d /\ d[p + k] = new[k]
      BY <1>6, <1>4, <1>3
    <3>2. QED BY <3>1 DEF ToSet
  <2>2. QED BY <2>1, <1>6 DEF ToSet
<1>10. ASSUME Distinct(ch), Distinct(new), ToSet(ch) \cap ToSet(new) = {} PROVE Distinct(d)
  <2>1. SUFFICES ASSUME NEW x \in DOMAIN d, NEW y \in DOMAIN d, d[x] = d[y] PROVE x = y
    BY DEF Distinct
  <2>2. \A q \in DOMAIN d : Mid(q) => d[q] \in ToSet(new) /\ d[q] \notin ToSet(ch)
    BY <1>6, <1>10 DEF ToSet
  <2>3. \A q \in DOMAIN d : (q \in 1..p /\ d[q] = ch[q]) => d[q] \in ToSet(ch) /\ q \in DOMAIN ch
    BY <1>6, <1>4 DEF ToSet
  <2>4. \A q \in DOMAIN d : Right(q) => d[q] \in ToSet(ch) /\ q - n \in DOMAIN ch
    BY <1>6, <1>4 DEF ToSet
  <2>5. x \in Int /\ y \in Int
    BY <1>6
  <2>6. CASE Mid(x)
    <3>1. Mid(y)
      BY <2>1, <2>2, <2>3, <2>4, <2>6, <1>5
    <3>2. x - p = y - p
      BY <3>1, <2>1, <2>6, <1>6, <1>10 DEF Distinct
    <3>3. QED BY <3>2, <2>5
  <2>7. CASE x \in 1..p /\ d[x] = ch[x]
    <3>1. (y \in 1..p /\ d[y] = ch[y]) \/ Right(y)
      BY <2>1, <2>2, <2>3, <2>7, <1>5
    <3>2. CASE y \in 1..p /\ d[y] = ch[y]
      BY <3>2, <2>1, <2>3, <2>7, <1>10 DEF Distinct
    <3>3. CASE Right(y)
      <4>1. x = y - n
        BY <3>3, <2>1, <2>3, <2>4, <2>7, <1>10 DEF Distinct
      <4>2. QED BY <4>1, <3>3, <2>7
    <3>4. QED BY <3>1, <3>2, <3>3
  <2>8. CASE Right(x)
    <3>1. (y \in 1..p /\ d[y] = ch[y]) \/ Right(y)
      BY <2>1, <2>2, <2>4, <2>8, <1>5
    <3>2. CASE y \in 1..p /\ d[y] = ch[y]
      <4>1. y = x - n
        BY <3>2, <2>1, <2>3, <2>4, <2>8, <1>10 DEF Distinct
      <4>2. QED BY <4>1, <3>2, <2>8
    <3>3. CASE Right(y)
      <4>1. x - n = y - n
        BY <3>3, <2>1, <2>4, <2>8, <1>10 DEF Distinct
      <4>2. QED BY <4>1, <2>5
    <3>4. QED BY <3>1, <3>2, <3>3
  <2>9. QED BY <2>6, <2>7, <2>8, <1>5
<1>11. QED BY <1>2, <1>7, <1>8, <1>9, <1>10

-----------------------------------------------------------------------------
(* repair and integrate, on the replica they are done on.                  *)

Cut1(r, t, rs) == Split(chain[r], starts[r], AfterLeft(rs[t].left, chain[r]))
Cut2(r, t, rs) == Split(chain[r], Cut1(r, t, rs), rs[t].right)

\* What Integrate makes of a replica, p being the position it places the run at.
LinkedIn(r, t, rs, p) ==
  /\ p = PlaceEnd(chain[r], Cut2(r, t, rs), rs, t) /\ p \in 0..Len(chain[r])
  /\ chain'[r] = Splice(chain[r], p, NewIds(t, rs[t].len))
  /\ Distinct(chain'[r]) /\ ToSet(chain'[r]) = ToSet(chain[r]) \cup RunIds(t, rs[t].len)
  /\ starts'[r] = Cut2(r, t, rs) \cup {t} /\ starts'[r] \subseteq ToSet(chain'[r])
  /\ deleted'[r] \subseteq deleted[r]
  /\ Whole(chain'[r], starts'[r], deleted'[r])
  /\ starts[r] = ToSet(chain[r]) => Cut2(r, t, rs) = ToSet(chain[r]) /\ deleted'[r] = deleted[r]

Shapes ==
  /\ chain \in [Client -> Seq(Id)]
  /\ starts \in [Client -> SUBSET Id]
  /\ deleted \in [Client -> SUBSET Id]

\* The replica a step is taken on, as its properties need it.
Sound(ch, st, del) ==
  /\ Distinct(ch) /\ st \subseteq ToSet(ch) /\ del \subseteq ToSet(ch) /\ Whole(ch, st, del)

\* What integrate leaves on the replica it runs on, and that the others stay.
LEMMA Linking ==
  ASSUME Shapes, NEW r \in Client, Sound(chain[r], starts[r], deleted[r]),
         NEW rs, NEW t \in Id, t \in DOMAIN rs,
         rs[t].left \in ToSet(chain[r]) \cup {None}, rs[t].right \in ToSet(chain[r]) \cup {None},
         rs[t].len \in Nat \ {0}, RunIds(t, rs[t].len) \subseteq Id,
         RunIds(t, rs[t].len) \cap ToSet(chain[r]) = {},
         Integrate(r, t, rs)
  PROVE  /\ Shapes'
         /\ \A s \in Client \ {r} : /\ chain'[s] = chain[s] /\ starts'[s] = starts[s]
                                    /\ deleted'[s] = deleted[s]
         /\ \E p : LinkedIn(r, t, rs, p)
PROOF
<1>1. PICK ch, st, del, cut, lt, rt, n :
        /\ ch = chain[r] /\ st = starts[r] /\ del = deleted[r]
        /\ cut = AfterLeft(rs[t].left, ch) /\ lt = rs[t].left /\ rt = rs[t].right
        /\ n = rs[t].len
  OBVIOUS
<1>2. PICK st1, st2, d1, d2 : /\ st1 = Split(ch, st, cut) /\ st2 = Split(ch, st1, rt)
                              /\ d1 = del \ Revived(ch, st, cut) /\ d2 = d1 \ Revived(ch, st1, rt)
  OBVIOUS
<1>3. st1 = Cut1(r, t, rs) /\ st2 = Cut2(r, t, rs)
  BY <1>1, <1>2 DEF Cut1, Cut2
<1>4. PICK p : p = PlaceEnd(ch, st2, rs, t)
  OBVIOUS
<1>5. PICK new : new = NewIds(t, n)
  OBVIOUS
<1>6. /\ chain' = [chain EXCEPT ![r] = Splice(ch, p, new)]
      /\ starts' = [starts EXCEPT ![r] = st2 \cup {t}]
      /\ deleted' = [deleted EXCEPT ![r] = d2]
  <2>1. Integrate(r, t, rs) <=>
          /\ chain' = [chain EXCEPT ![r] = Splice(ch, p, new)]
          /\ starts' = [starts EXCEPT ![r] = st2 \cup {t}]
          /\ deleted' = [deleted EXCEPT ![r] = (@ \ Revived(ch, st, cut)) \ Revived(ch, st1, rt)]
    BY <1>1, <1>2, <1>4, <1>5 DEF Integrate, Splice, PlaceEnd, NewIds
  <2>2. d2 = (deleted[r] \ Revived(ch, st, cut)) \ Revived(ch, st1, rt)
    BY <1>1, <1>2
  <2>3. QED BY <2>1, <2>2
<1>7. ch \in Seq(Id) /\ Distinct(ch) /\ st \subseteq ToSet(ch) /\ del \subseteq ToSet(ch) /\ Whole(ch, st, del)
  BY <1>1 DEF Shapes, Sound
<1>8. Whole(ch, st2, d2)
  <2>1. Whole(ch, st1, d1)
    BY <1>2, <1>7, SplitWhole
  <2>2. QED BY <2>1, <1>2, <1>7, SplitWhole
<1>9. st2 \subseteq ToSet(ch) /\ st \subseteq st1 /\ st1 \subseteq st2 /\ d2 \subseteq del
  BY <1>2, <1>7 DEF Split
<1>10. cut \in st2 \cup {None}
  <2>1. cut = None \/ cut \in ToSet(ch)
    BY <1>1 DEF AfterLeft
  <2>2. cut \in st1 \cup {None}
    BY <2>1, <1>2 DEF Split
  <2>3. QED BY <2>2, <1>9
<1>11. p \in 0..Len(ch) /\ (p < Len(ch) => ch[p + 1] \in st2)
  BY <1>1, <1>4, <1>7, <1>8, <1>10, PlacedBetween
<1>12. /\ new \in Seq(Id) /\ Len(new) = n /\ ToSet(new) = RunIds(t, n) /\ Distinct(new)
       /\ t \in RunIds(t, n) /\ n \in Nat
  BY <1>1, <1>5, NewIdsAre
<1>13. ToSet(ch) \cap ToSet(new) = {}
  BY <1>12, <1>1
<1>14. PICK d : d = Splice(ch, p, new)
  OBVIOUS
<1>15. d \in Seq(Id) /\ Distinct(d) /\ ToSet(d) = ToSet(ch) \cup RunIds(t, n)
  <2>1. Splice(ch, p, new) \in Seq(Id)
    BY <1>7, <1>11, <1>12, SpliceIs
  <2>2. /\ Distinct(Splice(ch, p, new))
        /\ ToSet(Splice(ch, p, new)) = ToSet(ch) \cup ToSet(new)
    BY <1>7, <1>11, <1>12, <1>13, SpliceSet
  <2>3. QED BY <2>1, <2>2, <1>12, <1>14
<1>16. Whole(d, st2 \cup {t}, d2)
  <2>1. \A k \in 1..n : new[k] = <<t[1], t[2] + k - 1>> /\ new[k] \notin ToSet(ch)
    <3>1. \A k \in 1..n : new[k] = <<t[1], t[2] + k - 1>>
      BY <1>5 DEF NewIds
    <3>2. \A k \in 1..n : new[k] \in ToSet(new)
      BY <1>12 DEF ToSet
    <3>3. QED BY <3>1, <3>2, <1>13
  <2>2. d2 \subseteq ToSet(ch)
    BY <1>7, <1>9
  <2>3. QED BY <2>1, <2>2, <1>7, <1>8, <1>11, <1>12, <1>14, SpliceWhole
<1>17. ASSUME st = ToSet(ch) PROVE st2 = ToSet(ch) /\ d2 = del
  <2>1. st1 = st /\ Revived(ch, st, cut) = {}
    BY <1>2, <1>17 DEF Split, Revived
  <2>2. st2 = st1 /\ Revived(ch, st1, rt) = {}
    BY <2>1, <1>2, <1>17 DEF Split, Revived
  <2>3. QED BY <2>1, <2>2, <1>2, <1>17
<1>18. chain'[r] = d /\ starts'[r] = st2 \cup {t} /\ deleted'[r] = d2
  BY <1>6, <1>14 DEF Shapes
<1>19. st2 \cup {t} \subseteq ToSet(d)
  BY <1>9, <1>12, <1>15
<1>20. LinkedIn(r, t, rs, p)
  BY <1>1, <1>3, <1>4, <1>5, <1>9, <1>11, <1>14, <1>15, <1>16, <1>17, <1>18, <1>19 DEF LinkedIn
<1>21. Shapes'
  <2>1. ToSet(ch) \subseteq Id
    BY <1>7 DEF ToSet
  <2>2. st2 \cup {t} \in SUBSET Id /\ d2 \in SUBSET Id
    BY <2>1, <1>7, <1>9
  <2>3. QED BY <2>2, <1>6, <1>14, <1>15 DEF Shapes
<1>22. \A s \in Client \ {r} : chain'[s] = chain[s] /\ starts'[s] = starts[s] /\ deleted'[s] = deleted[s]
  BY <1>6 DEF Shapes
<1>23. QED BY <1>20, <1>21, <1>22

-----------------------------------------------------------------------------
(* The invariant of a list, of runs of any length.                         *)

IdsOf(h) == RunIds(h, runs[h].len)

\* Runs are of ids there may be, and no two of them share one.
RunsOK ==
  /\ \A h \in DOMAIN runs : /\ h \in Id /\ runs[h].len \in Nat \ {0} /\ IdsOf(h) \subseteq Id
                            /\ {runs[h].left, runs[h].right} \subseteq Id \cup {None}
  /\ \A g, h \in DOMAIN runs : IdsOf(g) \cap IdsOf(h) # {} => g = h

\* A replica has runs as a whole, the author all of its own, without a gap.
Holds(r, here) ==
  /\ \A i \in here : \E h \in DOMAIN runs : i \in IdsOf(h) /\ IdsOf(h) \subseteq here
  /\ \A h \in DOMAIN runs : h[1] = r => h \in here
  /\ \E n \in Nat : {i \in here : i[1] = r} = {r} \X (0..n - 1)

Deletions(r) == applied[r] \subseteq removals /\ deleted[r] \subseteq UNION applied[r]

ListInv ==
  /\ Shapes /\ applied \in [Client -> SUBSET removals] /\ removals \subseteq SUBSET Id
  /\ RunsOK
  /\ \A r \in Client : /\ Sound(chain[r], starts[r], deleted[r])
                       /\ Holds(r, ToSet(chain[r]))
                       /\ Deletions(r)

\* It holds at the start,
LEMMA ListInitInv == ListInit => ListInv
PROOF
<1> SUFFICES ASSUME ListInit PROVE ListInv
  OBVIOUS
<1>1. /\ runs = <<>> /\ DOMAIN runs = {}
      /\ removals = {}
  BY DEF ListInit
<1>2. ASSUME NEW r \in Client
      PROVE  /\ chain[r] = <<>> /\ ToSet(chain[r]) = {} /\ starts[r] = {} /\ deleted[r] = {}
             /\ applied[r] = {}
  BY DEF ListInit, ToSet
<1>3. Shapes /\ applied \in [Client -> SUBSET removals]
  BY DEF ListInit, Shapes
<1>4. RunsOK
  BY <1>1 DEF RunsOK
<1>5. ASSUME NEW r \in Client
      PROVE  Sound(chain[r], starts[r], deleted[r]) /\ Holds(r, ToSet(chain[r])) /\ Deletions(r)
  <2>1. Sound(chain[r], starts[r], deleted[r])
    BY <1>2 DEF Sound, Distinct, Whole
  <2>2. {r} \X (0..0 - 1) = {} /\ 0 \in Nat
    OBVIOUS
  <2>3. Holds(r, ToSet(chain[r]))
    BY <1>1, <1>2, <2>2 DEF Holds
  <2>4. Deletions(r)
    BY <1>2 DEF Deletions
  <2>5. QED BY <2>1, <2>3, <2>4
<1>6. QED BY <1>1, <1>3, <1>4, <1>5 DEF ListInv

\* The first id of a run is one of it.
LEMMA HeadIn ==
  ASSUME ListInv, NEW h \in DOMAIN runs
  PROVE  h \in Id /\ h \in IdsOf(h) /\ IdsOf(h) \subseteq Id
PROOF
<1>1. h \in Id /\ runs[h].len \in Nat \ {0} /\ IdsOf(h) \subseteq Id
  BY DEF ListInv, RunsOK
<1>2. h \in IdsOf(h)
  BY <1>1, NewIdsAre DEF IdsOf
<1>3. QED BY <1>1, <1>2

\* Whoever has an id of a run has the run.
LEMMA RunWholly ==
  ASSUME ListInv, NEW r \in Client, NEW h \in DOMAIN runs, IdsOf(h) \cap ToSet(chain[r]) # {}
  PROVE  IdsOf(h) \subseteq ToSet(chain[r])
PROOF
<1>1. PICK i : i \in IdsOf(h) /\ i \in ToSet(chain[r])
  OBVIOUS
<1>2. PICK g \in DOMAIN runs : i \in IdsOf(g) /\ IdsOf(g) \subseteq ToSet(chain[r])
  BY <1>1 DEF ListInv, Holds
<1>3. g = h
  BY <1>1, <1>2 DEF ListInv, RunsOK
<1>4. QED BY <1>2, <1>3

\* A new run and its place.
NewRun(r, p, len, t, rs) ==
  /\ t = <<r, Clock(r)>>
  /\ rs = [h \in DOMAIN runs \cup {t} |->
             IF h = t THEN Run(len, IF p = 0 THEN None ELSE chain[r][p],
                                    IF p = Len(chain[r]) THEN None ELSE chain[r][p + 1])
             ELSE runs[h]]

Typed(r, p, len, t, rs, n) ==
  /\ NewRun(r, p, len, t, rs)
  /\ t \in Id /\ t \notin DOMAIN runs /\ RunIds(t, len) \subseteq Id
  /\ RunIds(t, len) \cap ToSet(chain[r]) = {}
  /\ \A h \in DOMAIN runs : IdsOf(h) \cap RunIds(t, len) = {}
  /\ n \in Nat /\ t = <<r, n>>
  /\ {i \in ToSet(chain[r]) : i[1] = r} = {r} \X (0..n - 1)
  /\ {i \in ToSet(chain[r]) \cup RunIds(t, len) : i[1] = r} = {r} \X (0..(n + len) - 1)
  /\ runs' = rs /\ Integrate(r, t, rs) /\ UNCHANGED <<removals, applied>>
  /\ rs[t].len = len /\ len \in Nat \ {0}
  /\ rs[t].left = IF p = 0 THEN None ELSE chain[r][p]
  /\ rs[t].right = IF p = Len(chain[r]) THEN None ELSE chain[r][p + 1]
  /\ rs[t].left \in ToSet(chain[r]) \cup {None}
  /\ rs[t].right \in ToSet(chain[r]) \cup {None}

\* insert_at types a run of ids that nobody has.
LEMMA Inserting ==
  ASSUME ListInv, NEW r \in Client, NEW p \in 0..Len(chain[r]), NEW len \in 1..MaxLen,
         Insert(r, p, len)
  PROVE  \E t, rs, n : Typed(r, p, len, t, rs, n)
PROOF
<1>1. PICK here : here = ToSet(chain[r])
  OBVIOUS
<1>2. PICK n \in Nat : {i \in here : i[1] = r} = {r} \X (0..n - 1)
  BY <1>1 DEF ListInv, Holds
<1>3. Clock(r) = n
  <2>1. Clock(r) = Cardinality({i \in here : i[1] = r})
    BY <1>1 DEF Clock
  <2>2. QED BY <2>1, <1>2, RowSize
<1>4. PICK t : t = <<r, n>>
  OBVIOUS
<1>5. PICK rs : NewRun(r, p, len, t, rs)
  BY <1>3, <1>4 DEF NewRun
<1>6. len \in Nat \ {0} /\ MaxClock[r] \in Nat /\ n + len <= MaxClock[r]
  <2>1. MaxLen \in Nat /\ MaxClock[r] \in Nat
    BY YListAssumption, ConflictAssumption
  <2>2. n + len <= MaxClock[r]
    BY <1>3 DEF Insert
  <2>3. QED BY <2>1, <2>2
<1>7. RunIds(t, len) = {r} \X (n..n + len - 1)
  BY <1>4 DEF RunIds
<1>8. RunIds(t, len) \subseteq Id /\ t \in Id /\ t \in RunIds(t, len)
  <2>1. ASSUME NEW k \in n..n + len - 1 PROVE <<r, k>> \in Id
    <3>1. k \in Nat /\ k < MaxClock[r]
      BY <1>6
    <3>2. QED BY <3>1, Ids
  <2>2. RunIds(t, len) \subseteq Id
    BY <2>1, <1>7
  <2>3. n \in n..n + len - 1
    BY <1>6
  <2>4. QED BY <2>1, <2>2, <2>3, <1>4, <1>7
<1>9. RunIds(t, len) \cap here = {}
  <2> SUFFICES ASSUME NEW k \in n..n + len - 1, <<r, k>> \in here PROVE FALSE
    BY <1>7
  <2>1. <<r, k>> \in {r} \X (0..n - 1)
    BY <1>2
  <2>2. QED BY <2>1
<1>10. ASSUME NEW h \in DOMAIN runs PROVE IdsOf(h) \cap RunIds(t, len) = {}
  <2> SUFFICES ASSUME NEW i \in IdsOf(h), i \in RunIds(t, len) PROVE FALSE
    OBVIOUS
  <2>1. i[1] = r /\ i[1] = h[1]
    BY <1>7 DEF IdsOf, RunIds
  <2>2. h \in here
    BY <2>1, <1>1 DEF ListInv, Holds
  <2>3. IdsOf(h) \subseteq here
    BY <2>2, <1>1, HeadIn, RunWholly
  <2>4. QED BY <2>3, <1>9
<1>11. t \notin DOMAIN runs
  <2> SUFFICES ASSUME t \in DOMAIN runs PROVE FALSE
    OBVIOUS
  <2>1. t \in IdsOf(t)
    BY HeadIn
  <2>2. QED BY <2>1, <1>8, <1>10
<1>12. {i \in here \cup RunIds(t, len) : i[1] = r} = {r} \X (0..(n + len) - 1)
  <2>1. {i \in here \cup RunIds(t, len) : i[1] = r}
          = {i \in here : i[1] = r} \cup {i \in RunIds(t, len) : i[1] = r}
    OBVIOUS
  <2>2. {i \in RunIds(t, len) : i[1] = r} = {r} \X (n..n + len - 1)
    BY <1>7
  <2>3. (0..n - 1) \cup (n..n + len - 1) = 0..(n + len) - 1
    BY <1>6
  <2>4. QED BY <2>1, <2>2, <2>3, <1>2
<1>13. runs' = rs /\ Integrate(r, t, rs) /\ UNCHANGED <<removals, applied>>
  BY <1>3, <1>4, <1>5 DEF Insert, NewRun
<1>14. /\ rs[t] = Run(len, IF p = 0 THEN None ELSE chain[r][p],
                           IF p = Len(chain[r]) THEN None ELSE chain[r][p + 1])
  BY <1>5 DEF NewRun
<1>15. /\ rs[t].len = len
       /\ rs[t].left = IF p = 0 THEN None ELSE chain[r][p]
       /\ rs[t].right = IF p = Len(chain[r]) THEN None ELSE chain[r][p + 1]
  BY <1>14 DEF Run
<1>16. rs[t].left \in here \cup {None} /\ rs[t].right \in here \cup {None}
  <2>1. chain[r] \in Seq(Id)
    BY DEF ListInv, Shapes
  <2>2. p # 0 => chain[r][p] \in here
    BY <2>1, <1>1 DEF ToSet
  <2>3. p # Len(chain[r]) => chain[r][p + 1] \in here
    BY <2>1, <1>1 DEF ToSet
  <2>4. QED BY <2>2, <2>3, <1>15
<1>17. Typed(r, p, len, t, rs, n)
  BY <1>1, <1>2, <1>4, <1>5, <1>6, <1>8, <1>9, <1>10, <1>11, <1>12, <1>13, <1>15, <1>16 DEF Typed
<1>18. QED BY <1>17

\* Insert keeps it,
LEMMA ListInsertKeeps ==
  ASSUME ListInv, NEW r \in Client, NEW p \in 0..Len(chain[r]), NEW len \in 1..MaxLen,
         Insert(r, p, len)
  PROVE  ListInv'
PROOF
<1> PICK t, rs, m : Typed(r, p, len, t, rs, m)
  BY Inserting
<1>1. /\ NewRun(r, p, len, t, rs)
      /\ t \in Id /\ t \notin DOMAIN runs /\ RunIds(t, len) \subseteq Id
      /\ RunIds(t, len) \cap ToSet(chain[r]) = {}
      /\ \A h \in DOMAIN runs : IdsOf(h) \cap RunIds(t, len) = {}
      /\ m \in Nat /\ t = <<r, m>>
      /\ {i \in ToSet(chain[r]) \cup RunIds(t, len) : i[1] = r} = {r} \X (0..(m + len) - 1)
      /\ runs' = rs /\ Integrate(r, t, rs) /\ UNCHANGED <<removals, applied>>
      /\ rs[t].left \in ToSet(chain[r]) \cup {None}
      /\ rs[t].right \in ToSet(chain[r]) \cup {None}
      /\ rs[t].len = len /\ len \in Nat \ {0}
  BY DEF Typed
<1>2. DOMAIN rs = DOMAIN runs \cup {t} /\ \A h \in DOMAIN runs : rs[h] = runs[h]
  BY <1>1 DEF NewRun
<1>3. Shapes /\ \A s \in Client : Sound(chain[s], starts[s], deleted[s])
  BY DEF ListInv
<1>4. /\ Shapes'
      /\ \A s \in Client \ {r} : /\ chain'[s] = chain[s] /\ starts'[s] = starts[s]
                                 /\ deleted'[s] = deleted[s]
      /\ \E q : LinkedIn(r, t, rs, q)
  BY <1>1, <1>2, <1>3, Linking
<1>5. /\ Distinct(chain'[r]) /\ ToSet(chain'[r]) = ToSet(chain[r]) \cup RunIds(t, len)
      /\ starts'[r] \subseteq ToSet(chain'[r]) /\ deleted'[r] \subseteq deleted[r]
      /\ Whole(chain'[r], starts'[r], deleted'[r])
  BY <1>1, <1>4 DEF LinkedIn
<1>6. /\ IdsOf(t)' = RunIds(t, len)
      /\ \A h \in DOMAIN runs : IdsOf(h)' = IdsOf(h)
  BY <1>1, <1>2 DEF IdsOf
<1>7. RunsOK'
  <2>1. ASSUME NEW h \in DOMAIN runs'
        PROVE  /\ h \in Id /\ runs'[h].len \in Nat \ {0} /\ IdsOf(h)' \subseteq Id
               /\ {runs'[h].left, runs'[h].right} \subseteq Id \cup {None}
    <3>1. CASE h = t
      <4>1. ToSet(chain[r]) \subseteq Id
        BY <1>3 DEF Shapes, ToSet
      <4>2. QED BY <4>1, <3>1, <1>1, <1>6
    <3>2. CASE h # t
      BY <3>2, <1>1, <1>2, <1>6 DEF ListInv, RunsOK
    <3>3. QED BY <3>1, <3>2
  <2>2. ASSUME NEW g \in DOMAIN runs', NEW h \in DOMAIN runs', IdsOf(g)' \cap IdsOf(h)' # {}
        PROVE  g = h
    <3>1. CASE g = t \/ h = t
      BY <3>1, <2>2, <1>1, <1>2, <1>6
    <3>2. CASE g # t /\ h # t
      BY <3>2, <2>2, <1>1, <1>2, <1>6 DEF ListInv, RunsOK
    <3>3. QED BY <3>1, <3>2
  <2>3. QED BY <2>1, <2>2 DEF RunsOK
<1>8. ASSUME NEW s \in Client
      PROVE  /\ Sound(chain[s], starts[s], deleted[s])'
             /\ Holds(s, ToSet(chain[s]))'
             /\ Deletions(s)'
  <2>1. Holds(s, ToSet(chain[s])) /\ Deletions(s)
    BY DEF ListInv
  <2>2. CASE s = r
    <3>1. deleted[r] \subseteq ToSet(chain[r])
      BY <1>3 DEF Sound
    <3>2. Sound(chain[s], starts[s], deleted[s])'
      BY <2>2, <3>1, <1>5 DEF Sound
    <3>3. PICK here : here = ToSet(chain[r]) \cup RunIds(t, len)
      OBVIOUS
    <3>4. ASSUME NEW i \in here
          PROVE  \E h \in DOMAIN runs' : i \in IdsOf(h)' /\ IdsOf(h)' \subseteq here
      <4>1. CASE i \in RunIds(t, len)
        BY <4>1, <3>3, <1>1, <1>2, <1>6
      <4>2. CASE i \in ToSet(chain[r])
        <5>1. PICK h \in DOMAIN runs : i \in IdsOf(h) /\ IdsOf(h) \subseteq ToSet(chain[r])
          BY <4>2, <2>1, <2>2 DEF Holds
        <5>2. QED BY <5>1, <3>3, <1>1, <1>2, <1>6
      <4>3. QED BY <4>1, <4>2, <3>3
    <3>5. ASSUME NEW h \in DOMAIN runs', h[1] = r PROVE h \in here
      <4>1. CASE h = t
        <5>1. t \in RunIds(t, len)
          BY <1>1, NewIdsAre
        <5>2. QED BY <4>1, <5>1, <3>3
      <4>2. CASE h # t
        <5>1. h \in DOMAIN runs
          BY <4>2, <1>1, <1>2
        <5>2. QED BY <5>1, <3>5, <3>3, <2>1, <2>2 DEF Holds
      <4>3. QED BY <4>1, <4>2
    <3>6. \E n \in Nat : {i \in here : i[1] = r} = {r} \X (0..n - 1)
      <4>1. {i \in here : i[1] = r} = {r} \X (0..(m + len) - 1)
        BY <1>1, <3>3
      <4>2. m + len \in Nat
        BY <1>1
      <4>3. QED BY <4>1, <4>2
    <3>7. Holds(s, ToSet(chain[s]))'
      BY <2>2, <3>3, <3>4, <3>5, <3>6, <1>5 DEF Holds
    <3>8. Deletions(s)'
      BY <2>1, <2>2, <1>1, <1>5 DEF Deletions
    <3>9. QED BY <3>2, <3>7, <3>8
  <2>3. CASE s # r
    <3>1. chain'[s] = chain[s] /\ starts'[s] = starts[s] /\ deleted'[s] = deleted[s]
      BY <2>3, <1>4
    <3>2. Sound(chain[s], starts[s], deleted[s])'
      BY <3>1, <1>3
    <3>3. ASSUME NEW i \in ToSet(chain[s])
          PROVE  \E h \in DOMAIN runs' : i \in IdsOf(h)' /\ IdsOf(h)' \subseteq ToSet(chain[s])
      BY <2>1, <1>1, <1>2, <1>6 DEF Holds
    <3>4. ASSUME NEW h \in DOMAIN runs', h[1] = s PROVE h \in ToSet(chain[s])
      <4>1. t[1] = r
        BY <1>1
      <4>2. h \in DOMAIN runs
        BY <4>1, <3>4, <2>3, <1>1, <1>2
      <4>3. QED BY <4>2, <3>4, <2>1 DEF Holds
    <3>5. \E n \in Nat : {i \in ToSet(chain[s]) : i[1] = s} = {s} \X (0..n - 1)
      BY <2>1 DEF Holds
    <3>6. Holds(s, ToSet(chain[s]))'
      BY <3>1, <3>3, <3>4, <3>5 DEF Holds
    <3>7. Deletions(s)'
      BY <2>1, <3>1, <1>1 DEF Deletions
    <3>8. QED BY <3>2, <3>6, <3>7
  <2>4. QED BY <2>2, <2>3
<1>9. (applied \in [Client -> SUBSET removals] /\ removals \subseteq SUBSET Id)'
  BY <1>1 DEF ListInv
<1>10. QED BY <1>4, <1>7, <1>8, <1>9 DEF ListInv

\* A run that is delivered is new to the replica, and none of its own.
LEMMA Delivering ==
  ASSUME ListInv, NEW r \in Client, NEW t \in DOMAIN runs, Deliver(r, t)
  PROVE  /\ t \in Id /\ t[1] # r /\ IdsOf(t) \subseteq Id
         /\ IdsOf(t) \cap ToSet(chain[r]) = {}
         /\ runs[t].len \in Nat \ {0}
         /\ {runs[t].left, runs[t].right} \subseteq ToSet(chain[r]) \cup {None}
         /\ Integrate(r, t, runs) /\ UNCHANGED <<runs, removals, applied>>
PROOF
<1>1. t \in Id /\ t \in IdsOf(t) /\ IdsOf(t) \subseteq Id
  BY HeadIn
<1>2. /\ t \notin ToSet(chain[r])
      /\ {runs[t].left, runs[t].right} \subseteq ToSet(chain[r]) \cup {None}
      /\ Integrate(r, t, runs) /\ UNCHANGED <<runs, removals, applied>>
  BY DEF Deliver, Ready
<1>3. t[1] # r
  BY <1>2 DEF ListInv, Holds
<1>4. IdsOf(t) \cap ToSet(chain[r]) = {}
  BY <1>1, <1>2, RunWholly
<1>5. runs[t].len \in Nat \ {0}
  BY DEF ListInv, RunsOK
<1>6. QED BY <1>1, <1>2, <1>3, <1>4, <1>5

\* Deliver keeps it,
LEMMA ListDeliverKeeps ==
  ASSUME ListInv, NEW r \in Client, NEW t \in DOMAIN runs, Deliver(r, t)
  PROVE  ListInv'
PROOF
<1>1. /\ t \in Id /\ t[1] # r /\ IdsOf(t) \subseteq Id
      /\ IdsOf(t) \cap ToSet(chain[r]) = {}
      /\ runs[t].len \in Nat \ {0}
      /\ runs[t].left \in ToSet(chain[r]) \cup {None}
      /\ runs[t].right \in ToSet(chain[r]) \cup {None}
      /\ Integrate(r, t, runs) /\ runs' = runs /\ removals' = removals /\ applied' = applied
  BY Delivering
<1>2. Shapes /\ \A s \in Client : Sound(chain[s], starts[s], deleted[s])
  BY DEF ListInv
<1>3. /\ Shapes'
      /\ \A s \in Client \ {r} : /\ chain'[s] = chain[s] /\ starts'[s] = starts[s]
                                 /\ deleted'[s] = deleted[s]
      /\ \E q : LinkedIn(r, t, runs, q)
  <2>1. IdsOf(t) = RunIds(t, runs[t].len)
    BY DEF IdsOf
  <2>2. QED BY <2>1, <1>1, <1>2, Linking
<1>4. /\ Distinct(chain'[r]) /\ ToSet(chain'[r]) = ToSet(chain[r]) \cup IdsOf(t)
      /\ starts'[r] \subseteq ToSet(chain'[r]) /\ deleted'[r] \subseteq deleted[r]
      /\ Whole(chain'[r], starts'[r], deleted'[r])
  BY <1>1, <1>3 DEF LinkedIn, IdsOf
<1>5. \A h : IdsOf(h)' = IdsOf(h)
  BY <1>1 DEF IdsOf
<1>6. RunsOK'
  BY <1>1, <1>5 DEF ListInv, RunsOK
<1>7. ASSUME NEW s \in Client
      PROVE  /\ Sound(chain[s], starts[s], deleted[s])'
             /\ Holds(s, ToSet(chain[s]))'
             /\ Deletions(s)'
  <2>1. Holds(s, ToSet(chain[s])) /\ Deletions(s)
    BY DEF ListInv
  <2>2. CASE s = r
    <3>1. deleted[r] \subseteq ToSet(chain[r])
      BY <1>2 DEF Sound
    <3>2. Sound(chain[s], starts[s], deleted[s])'
      BY <2>2, <3>1, <1>4 DEF Sound
    <3>3. PICK here : here = ToSet(chain[r]) \cup IdsOf(t)
      OBVIOUS
    <3>4. ASSUME NEW i \in here
          PROVE  \E h \in DOMAIN runs : i \in IdsOf(h) /\ IdsOf(h) \subseteq here
      <4>1. CASE i \in IdsOf(t)
        BY <4>1, <3>3
      <4>2. CASE i \in ToSet(chain[r])
        <5>1. PICK h \in DOMAIN runs : i \in IdsOf(h) /\ IdsOf(h) \subseteq ToSet(chain[r])
          BY <4>2, <2>1, <2>2 DEF Holds
        <5>2. QED BY <5>1, <3>3
      <4>3. QED BY <4>1, <4>2, <3>3
    <3>5. ASSUME NEW h \in DOMAIN runs, h[1] = r PROVE h \in here
      BY <3>5, <3>3, <2>1, <2>2 DEF Holds
    <3>6. {i \in here : i[1] = r} = {i \in ToSet(chain[r]) : i[1] = r}
      <4>1. \A i \in IdsOf(t) : i[1] # r
        BY <1>1 DEF IdsOf, RunIds
      <4>2. QED BY <4>1, <3>3
    <3>7. Holds(s, ToSet(chain[s]))'
      <4>1. \E n \in Nat : {i \in here : i[1] = r} = {r} \X (0..n - 1)
        BY <2>1, <2>2, <3>6 DEF Holds
      <4>2. QED BY <4>1, <2>2, <3>3, <3>4, <3>5, <1>1, <1>4, <1>5 DEF Holds
    <3>8. Deletions(s)'
      BY <2>1, <2>2, <1>1, <1>4 DEF Deletions
    <3>9. QED BY <3>2, <3>7, <3>8
  <2>3. CASE s # r
    <3>1. chain'[s] = chain[s] /\ starts'[s] = starts[s] /\ deleted'[s] = deleted[s]
      BY <2>3, <1>3
    <3>2. QED BY <3>1, <2>1, <1>1, <1>2, <1>5 DEF Holds, Deletions
  <2>4. QED BY <2>2, <2>3
<1>8. (applied \in [Client -> SUBSET removals] /\ removals \subseteq SUBSET Id)'
  BY <1>1 DEF ListInv
<1>9. QED BY <1>3, <1>6, <1>7, <1>8 DEF ListInv

\* A removal, made here or received.
LEMMA RemovalKeeps ==
  ASSUME ListInv, NEW r \in Client, NEW ids, ids \subseteq ToSet(chain[r]),
         NEW st, st \subseteq ToSet(chain[r]), NEW del, del = deleted[r] \cup ids,
         Whole(chain[r], st, del), ids \in removals',
         removals \subseteq removals', removals' \subseteq removals \cup {ids},
         starts' = [starts EXCEPT ![r] = st], deleted' = [deleted EXCEPT ![r] = del],
         applied' = [applied EXCEPT ![r] = applied[r] \cup {ids}],
         UNCHANGED <<runs, chain>>
  PROVE  ListInv'
PROOF
<1>1. runs' = runs /\ chain' = chain /\ ToSet(chain[r]) \subseteq Id
  BY DEF ListInv, Shapes, ToSet
<1>2. /\ Shapes /\ applied \in [Client -> SUBSET removals] /\ removals \subseteq SUBSET Id
      /\ Sound(chain[r], starts[r], deleted[r])
  BY DEF ListInv
<1>3. st \in SUBSET Id /\ del \in SUBSET Id /\ del \subseteq ToSet(chain[r])
  BY <1>1, <1>2 DEF Sound
<1>4. Shapes'
  BY <1>1, <1>2, <1>3 DEF Shapes
<1>5. (applied \in [Client -> SUBSET removals] /\ removals \subseteq SUBSET Id)'
  BY <1>1, <1>2
<1>6. \A h : IdsOf(h)' = IdsOf(h)
  BY <1>1 DEF IdsOf
<1>7. RunsOK'
  BY <1>1, <1>6 DEF ListInv, RunsOK
<1>8. ASSUME NEW s \in Client
      PROVE  /\ Sound(chain[s], starts[s], deleted[s])'
             /\ Holds(s, ToSet(chain[s]))'
             /\ Deletions(s)'
  <2>1. Sound(chain[s], starts[s], deleted[s]) /\ Holds(s, ToSet(chain[s])) /\ Deletions(s)
    BY DEF ListInv
  <2>2. Holds(s, ToSet(chain[s]))'
    BY <2>1, <1>1, <1>6 DEF Holds
  <2>3. CASE s = r
    <3>1. /\ starts'[s] = st /\ deleted'[s] = deleted[r] \cup ids
          /\ applied'[s] = applied[r] \cup {ids}
      BY <2>3, <1>2 DEF Shapes
    <3>2. Sound(chain[s], starts[s], deleted[s])'
      BY <2>1, <2>3, <3>1, <1>1, <1>3 DEF Sound
    <3>3. Deletions(s)'
      BY <2>1, <2>3, <3>1 DEF Deletions
    <3>4. QED BY <3>2, <3>3, <2>2
  <2>4. CASE s # r
    <3>1. starts'[s] = starts[s] /\ deleted'[s] = deleted[s] /\ applied'[s] = applied[s]
      BY <2>4, <1>2 DEF Shapes
    <3>2. Deletions(s)'
      BY <2>1, <3>1 DEF Deletions
    <3>3. QED BY <3>1, <3>2, <2>1, <2>2, <1>1
  <2>5. QED BY <2>3, <2>4
<1>9. QED BY <1>4, <1>5, <1>7, <1>8 DEF ListInv

\* remove_at keeps it,
LEMMA RemoveRangeKeeps ==
  ASSUME ListInv, NEW r \in Client, NEW p \in DOMAIN chain[r], NEW n \in 1..MaxLen,
         RemoveRange(r, p, n)
  PROVE  ListInv'
PROOF
<1>1. PICK ch, st, del : ch = chain[r] /\ st = starts[r] /\ del = deleted[r]
  OBVIOUS
<1>2. ch \in Seq(Id) /\ Distinct(ch) /\ st \subseteq ToSet(ch) /\ del \subseteq ToSet(ch) /\ Whole(ch, st, del)
  BY <1>1 DEF ListInv, Shapes, Sound
<1>3. PICK live : live = Among(SubSeq(ch, p, Len(ch)), ToSet(ch) \ del)
  OBVIOUS
<1>4. PICK ids : ids = ToSet(SubSeq(live, 1, n))
  OBVIOUS
<1>5. PICK st2 : st2 = st \cup ({live[1], Next1(live[n])} \cap ToSet(ch))
  OBVIOUS
<1>6. /\ ch[p] \notin del /\ n <= Len(live)
      /\ starts' = [starts EXCEPT ![r] = st2]
      /\ deleted' = [deleted EXCEPT ![r] = del \cup ids]
      /\ removals' = removals \cup {ids}
      /\ applied' = [applied EXCEPT ![r] = applied[r] \cup {ids}]
      /\ UNCHANGED <<runs, chain>>
  BY <1>1, <1>3, <1>4, <1>5 DEF RemoveRange
<1>7. p \in 1..Len(ch) /\ n \in Nat \ {0}
  BY <1>1, <1>2, YListAssumption
<1>8. Whole(ch, st2, del \cup ids) /\ ids \subseteq ToSet(ch)
  BY <1>2, <1>3, <1>4, <1>5, <1>6, <1>7, RemovedWhole
<1>9. st2 \subseteq ToSet(ch)
  BY <1>2, <1>5
<1>10. QED BY <1>1, <1>6, <1>8, <1>9, RemovalKeeps

\* a delivered deletion keeps it,
LEMMA DeliverRemovalKeeps ==
  ASSUME ListInv, NEW r \in Client, NEW ids \in removals, DeliverRemoval(r, ids)
  PROVE  ListInv'
PROOF
<1>1. PICK ch, st, del : ch = chain[r] /\ st = starts[r] /\ del = deleted[r]
  OBVIOUS
<1>2. ch \in Seq(Id) /\ st \subseteq ToSet(ch) /\ Whole(ch, st, del) /\ ids \subseteq Id
  BY <1>1 DEF ListInv, Shapes, Sound
<1>3. PICK st2 : st2 = st \cup RangeStarts(ch, st, del, ids)
  OBVIOUS
<1>4. /\ ids \subseteq ToSet(ch)
      /\ starts' = [starts EXCEPT ![r] = st2]
      /\ deleted' = [deleted EXCEPT ![r] = del \cup (ids \ del)]
      /\ applied' = [applied EXCEPT ![r] = applied[r] \cup {ids}]
      /\ UNCHANGED <<runs, chain, removals>>
  BY <1>1, <1>3 DEF DeliverRemoval, DeleteRange, RangeStarts, RangeCuts
<1>5. Whole(ch, st2, del \cup (ids \ del))
  BY <1>2, <1>3, RangeWhole
<1>6. st2 \subseteq ToSet(ch)
  BY <1>2, <1>3 DEF RangeStarts
<1>7. del \cup (ids \ del) = del \cup ids
  OBVIOUS
<1>8. QED BY <1>1, <1>4, <1>5, <1>6, <1>7, RemovalKeeps

\* so every step does,
LEMMA ListNextInv == ListInv /\ [ListNext]_listVars => ListInv'
PROOF
<1> SUFFICES ASSUME ListInv, [ListNext]_listVars PROVE ListInv'
  OBVIOUS
<1>1. ASSUME ListNext PROVE ListInv'
  <2>1. PICK r \in Client :
          \/ \E p \in 0..Len(chain[r]), len \in 1..MaxLen : Insert(r, p, len)
          \/ \E h \in DOMAIN runs : Deliver(r, h)
          \/ \E p \in DOMAIN chain[r], n \in 1..MaxLen : RemoveRange(r, p, n)
          \/ \E ids \in removals : DeliverRemoval(r, ids)
    BY <1>1 DEF ListNext
  <2>2. QED BY <2>1, ListInsertKeeps, ListDeliverKeeps, RemoveRangeKeeps, DeliverRemovalKeeps
<1>2. CASE UNCHANGED listVars
  BY <1>2 DEF listVars, replicas, ListInv, Shapes, RunsOK, Holds, Deletions, IdsOf
<1>3. QED BY <1>1, <1>2

\* and it always holds.
LEMMA ListInvHolds == ListSpec => []ListInv
PROOF
<1>1. QED BY ListInitInv, ListNextInv, PTL DEF ListSpec

\* As many positions as ids.
LEMMA DistinctLen ==
  ASSUME NEW ch \in Seq(Id), Distinct(ch)
  PROVE  Len(ch) = Cardinality(ToSet(ch))
PROOF
<1>1. DOMAIN ch = 1..Len(ch) /\ Len(ch) \in Nat
  OBVIOUS
<1>2. ch \in Bijection(1..Len(ch), ToSet(ch))
  <2>1. ch \in [1..Len(ch) -> ToSet(ch)]
    BY DEF ToSet
  <2>2. \A i \in ToSet(ch) : \E p \in 1..Len(ch) : ch[p] = i
    BY <1>1 DEF ToSet
  <2>3. QED BY <2>1, <2>2, <1>1 DEF Distinct, Bijection, Injection, IsInjective, Surjection
<1>3. IsFiniteSet(1..Len(ch)) /\ Cardinality(1..Len(ch)) = Len(ch)
  <2>1. PICK n : n = Len(ch)
    OBVIOUS
  <2>2. n \in Nat /\ n \in Int /\ 1 \in Int
    BY <1>1, <2>1
  <2>3. IsFiniteSet(1..n) /\ Cardinality(1..n) = IF 1 > n THEN 0 ELSE n - 1 + 1
    BY <2>2, FS_Interval
  <2>4. Cardinality(1..n) = n
    BY <2>2, <2>3
  <2>5. QED BY <2>1, <2>3, <2>4
<1>4. Cardinality(1..Len(ch)) = Cardinality(ToSet(ch))
  BY <1>2, <1>3, FS_Bijection DEF ExistsBijection
<1>5. QED BY <1>3, <1>4

\* Types, and every replica's chain holds each of its ids once: integrate links a
\* run in once, whatever it finds there.
THEOREM ListTypesHold == ListSpec => []ListTypeOK
PROOF
<1>1. ListInv => ListTypeOK
  <2> SUFFICES ASSUME ListInv, NEW r \in Client
               PROVE  /\ ToSet(chain[r]) \subseteq Id
                      /\ Len(chain[r]) = Cardinality(ToSet(chain[r]))
                      /\ starts[r] \cup deleted[r] \subseteq ToSet(chain[r])
                      /\ applied[r] \subseteq removals
    BY DEF ListTypeOK
  <2>1. chain[r] \in Seq(Id) /\ Sound(chain[r], starts[r], deleted[r]) /\ Deletions(r)
    BY DEF ListInv, Shapes
  <2>2. ToSet(chain[r]) \subseteq Id
    BY <2>1 DEF ToSet
  <2>3. Len(chain[r]) = Cardinality(ToSet(chain[r]))
    BY <2>1, DistinctLen DEF Sound
  <2>4. QED BY <2>1, <2>2, <2>3 DEF Sound, Deletions
<1>2. QED BY <1>1, ListInvHolds, PTL

\* Nothing is linked inside a node, and it is deleted as a whole or not at all,
\* whatever is cut, typed or removed where (store.rs, split_node_at, integrate,
\* delete_range; list/mod.rs, remove_at).
THEOREM NodesStayWhole == ListSpec => []NodesWhole
PROOF
<1>1. ListInv => NodesWhole
  BY DEF ListInv, Sound, Whole, NodesWhole, Before1
<1>2. QED BY <1>1, ListInvHolds, PTL

\* Only what a removal named is deleted: cutting a range never takes along the
\* ids next to it (store.rs, delete_range).
THEOREM NothingElseDeleted == ListSpec => []DeletedWereRemoved
PROOF
<1>1. ListInv => DeletedWereRemoved
  BY DEF ListInv, Deletions, DeletedWereRemoved
<1>2. QED BY <1>1, ListInvHolds, PTL

-----------------------------------------------------------------------------
(* The order of items typed one at a time.  P gives the items S their      *)
(* positions, None the one before the first; L and R are their origins.    *)

Places(S, P) ==
  /\ P \in [S \cup {None} -> Nat] /\ P[None] = 0
  /\ \A a \in S : P[a] > 0
  /\ \A a, b \in S : P[a] = P[b] => a = b

\* An item is between its origins.
BetweenOrigins(S, P, L, R) ==
  \A a \in S : /\ L[a] \in S \cup {None} /\ R[a] \in S \cup {None}
               /\ P[L[a]] < P[a] /\ (R[a] # None => P[a] < P[R[a]])

\* The stretches from an origin to its item do not cross.
NoCross(S, P, L) ==
  \A a, b \in S : P[a] < P[b] => P[L[b]] <= P[L[a]] \/ P[a] <= P[L[b]]

\* Of two items behind the same origin the one of the lower client comes first,
\* unless the right origin of the other is between them.
TieBreak(S, P, L, R) ==
  \A a, b \in S : L[a] = L[b] /\ P[a] < P[b] /\ b[1] < a[1] => R[a] # None /\ P[R[a]] <= P[b]

\* The right origin was not typed behind something past the left one.
RightOrigin(S, P, L, R) ==
  \A a \in S : R[a] # None => P[L[R[a]]] <= P[L[a]]

\* An author's earlier items are not between the origins of a later one.
OwnItemsApart(S, P, L, R) ==
  \A a, b \in S : a[1] = b[1] /\ a[2] < b[2] => P[a] <= P[L[b]] \/ (R[b] # None /\ P[R[b]] <= P[a])

Rules(S, P, L, R) ==
  /\ Places(S, P) /\ BetweenOrigins(S, P, L, R) /\ NoCross(S, P, L)
  /\ TieBreak(S, P, L, R) /\ RightOrigin(S, P, L, R) /\ OwnItemsApart(S, P, L, R)

\* Origins are older than their item.
OriginsOlder(S, L, R, rk) ==
  /\ rk \in [S -> Nat]
  /\ \A a \in S : /\ L[a] # None => L[a] \in S /\ rk[L[a]] < rk[a]
                  /\ R[a] # None => R[a] \in S /\ rk[R[a]] < rk[a]

Agree(P, Q, x, y) == (P[x] < P[y] <=> Q[x] < Q[y]) /\ (P[y] < P[x] <=> Q[y] < Q[x])

\* The order of two items that two replicas have, if that of older ones agrees.
LEMMA SameOrderStep ==
  ASSUME NEW S, NEW T, S \subseteq Id, T \subseteq Id, NEW P, NEW Q, NEW L, NEW R,
         Rules(S, P, L, R), Rules(T, Q, L, R),
         NEW a \in S \cap T, NEW b \in S \cap T, P[a] < P[b],
         Agree(P, Q, a, L[b]), Agree(P, Q, a, R[b]), Agree(P, Q, b, L[a]), Agree(P, Q, b, R[a]),
         Agree(P, Q, L[a], L[b])
  PROVE  Q[a] < Q[b]
PROOF
<1> SUFFICES ASSUME ~(Q[a] < Q[b]) PROVE FALSE
  OBVIOUS
<1>1. PICK la, lb, ra, rb : la = L[a] /\ lb = L[b] /\ ra = R[a] /\ rb = R[b]
  OBVIOUS
<1>2. /\ la \in S \cup {None} /\ ra \in S \cup {None} /\ lb \in S \cup {None} /\ rb \in S \cup {None}
      /\ la \in T \cup {None} /\ ra \in T \cup {None} /\ lb \in T \cup {None} /\ rb \in T \cup {None}
      /\ P[la] < P[a] /\ (ra # None => P[a] < P[ra])
      /\ P[lb] < P[b] /\ (rb # None => P[b] < P[rb])
      /\ Q[la] < Q[a] /\ (ra # None => Q[a] < Q[ra])
      /\ Q[lb] < Q[b] /\ (rb # None => Q[b] < Q[rb])
  BY <1>1 DEF Rules, BetweenOrigins
<1>3. /\ \A x \in S \cup {None} : P[x] \in Nat
      /\ \A x \in T \cup {None} : Q[x] \in Nat
      /\ P[None] = 0 /\ Q[None] = 0
      /\ \A x, y \in T : Q[x] = Q[y] => x = y
      /\ \A x, y \in S : P[x] = P[y] => x = y
      /\ \A x \in S : P[x] > 0
      /\ \A x \in T : Q[x] > 0
  BY DEF Rules, Places
<1>4. Q[b] < Q[a]
  <2>1. a # b
    BY <1>3
  <2>2. Q[a] \in Nat /\ Q[b] \in Nat /\ Q[a] # Q[b]
    BY <2>1, <1>3
  <2>3. QED BY <2>2
<1>5. None \notin S /\ None \notin T
  BY Ids
<1>7. /\ P[a] < P[lb] <=> Q[a] < Q[lb]
      /\ P[lb] < P[a] <=> Q[lb] < Q[a]
      /\ P[b] < P[la] <=> Q[b] < Q[la]
      /\ P[la] < P[b] <=> Q[la] < Q[b]
      /\ P[la] < P[lb] <=> Q[la] < Q[lb]
      /\ P[lb] < P[la] <=> Q[lb] < Q[la]
      /\ P[b] < P[ra] <=> Q[b] < Q[ra]
      /\ P[a] < P[rb] <=> Q[a] < Q[rb]
  BY <1>1 DEF Agree
<1>8. P[lb] <= P[la]
  <2>1. P[lb] <= P[la] \/ P[a] <= P[lb]
    BY <1>1 DEF Rules, NoCross
  <2>2. ASSUME P[a] <= P[lb] PROVE FALSE
    BY <2>2, <1>2, <1>3, <1>4, <1>7
  <2>3. QED BY <2>1, <2>2
<1>9. Q[la] <= Q[lb]
  <2>1. Q[la] <= Q[lb] \/ Q[b] <= Q[la]
    BY <1>1, <1>4 DEF Rules, NoCross
  <2>2. ASSUME Q[b] <= Q[la] PROVE FALSE
    BY <2>2, <1>2, <1>3, <1>7
  <2>3. QED BY <2>1, <2>2
<1>10. la = lb
  <2>1. P[la] = P[lb]
    BY <1>2, <1>3, <1>7, <1>8, <1>9
  <2>2. QED BY <2>1, <1>2, <1>3, <1>5
<1>11. ~(ra # None /\ P[ra] <= P[b]) /\ ~(ra # None /\ Q[ra] <= Q[b])
  BY <1>2, <1>3, <1>4, <1>7
<1>12. ~(rb # None /\ P[rb] <= P[a]) /\ ~(rb # None /\ Q[rb] <= Q[a])
  BY <1>2, <1>3, <1>4, <1>7
<1>13. ~(b[1] < a[1])
  BY <1>1, <1>10, <1>11 DEF Rules, TieBreak
<1>14. ~(a[1] < b[1])
  BY <1>1, <1>4, <1>10, <1>12 DEF Rules, TieBreak
<1>15. a[1] \in Int /\ b[1] \in Int /\ a[2] \in Nat /\ b[2] \in Nat
       /\ a = <<a[1], a[2]>> /\ b = <<b[1], b[2]>>
  BY Ids
<1>16. a[1] = b[1]
  BY <1>13, <1>14, <1>15
<1>17. ~(a[2] < b[2])
  <2>1. a[2] < b[2] => Q[a] <= Q[lb] \/ (rb # None /\ Q[rb] <= Q[a])
    BY <1>1, <1>16 DEF Rules, OwnItemsApart
  <2>2. QED BY <2>1, <1>2, <1>3, <1>10, <1>12
<1>18. ~(b[2] < a[2])
  <2>1. b[2] < a[2] => P[b] <= P[la] \/ (ra # None /\ P[ra] <= P[b])
    BY <1>1, <1>16 DEF Rules, OwnItemsApart
  <2>2. QED BY <2>1, <1>2, <1>3, <1>10, <1>11
<1>19. QED BY <1>2, <1>3, <1>4, <1>15, <1>16, <1>17, <1>18

\* P and Q order the items they share, and None, alike.
SameOrderOn(S, T, P, Q) == \A a, b \in (S \cap T) \cup {None} : P[a] < P[b] <=> Q[a] < Q[b]

\* Two replicas have the items they share in the same order.
LEMMA SameOrder ==
  ASSUME NEW S, NEW T, S \subseteq Id, T \subseteq Id, NEW P, NEW Q, NEW L, NEW R,
         Rules(S, P, L, R), Rules(T, Q, L, R),
         NEW D, NEW rk, OriginsOlder(D, L, R, rk), S \subseteq D
  PROVE  SameOrderOn(S, T, P, Q)
PROOF
<1>0. SUFFICES \A a, b \in (S \cap T) \cup {None} : P[a] < P[b] <=> Q[a] < Q[b]
  BY DEF SameOrderOn
<1> DEFINE W == {n \in Nat : \A a, b \in S \cap T : rk[a] + rk[b] <= n =>
                                (P[a] < P[b] <=> Q[a] < Q[b])}
<1>1. /\ \A x \in S \cup {None} : P[x] \in Nat
      /\ \A x \in T \cup {None} : Q[x] \in Nat
      /\ P[None] = 0 /\ Q[None] = 0
      /\ \A x \in S : P[x] > 0
      /\ \A x \in T : Q[x] > 0
      /\ \A x, y \in T : Q[x] = Q[y] => x = y
      /\ \A x, y \in S : P[x] = P[y] => x = y
  BY DEF Rules, Places
<1>2. \A a \in S : rk[a] \in Nat
  BY DEF OriginsOlder
<1>3. None \notin S /\ None \notin T
  BY Ids
\* Comparing with None tells nothing.
<1>4. ASSUME NEW a \in (S \cap T) \cup {None}, NEW b \in (S \cap T) \cup {None}, a = None \/ b = None
      PROVE  P[a] < P[b] <=> Q[a] < Q[b]
  <2>1. CASE a = None /\ b = None
    BY <2>1, <1>1
  <2>2. CASE a = None /\ b # None
    BY <2>2, <1>1
  <2>3. CASE a # None /\ b = None
    BY <2>3, <1>1
  <2>4. QED BY <2>1, <2>2, <2>3, <1>4
<1>5. ASSUME NEW n \in Nat, \A m \in Nat : m < n => m \in W,
             NEW a \in S \cap T, NEW b \in S \cap T, rk[a] + rk[b] = n, P[a] < P[b]
      PROVE  Q[a] < Q[b]
  <2>1. ASSUME NEW c \in S \cap T, NEW x \in {L[c], R[c]}
        PROVE  x \in (S \cap T) \cup {None} /\ (x # None => rk[x] < rk[c])
    <3>1. x \in S \cup {None} /\ x \in T \cup {None}
      BY DEF Rules, BetweenOrigins
    <3>2. x # None => rk[x] < rk[c]
      BY DEF OriginsOlder
    <3>3. QED BY <3>1, <3>2
  <2>2. ASSUME NEW x \in (S \cap T) \cup {None}, NEW y \in (S \cap T) \cup {None},
               x # None /\ y # None => rk[x] + rk[y] < n
        PROVE  Agree(P, Q, x, y)
    <3>1. CASE x = None \/ y = None
      BY <3>1, <1>4 DEF Agree
    <3>2. CASE x # None /\ y # None
      <4>1. PICK m \in Nat : m = rk[x] + rk[y]
        BY <3>2, <1>2
      <4>2. m \in W
        BY <4>1, <3>2, <2>2, <1>5
      <4>3. rk[y] + rk[x] = m
        BY <4>1, <3>2, <1>2
      <4>4. QED BY <4>1, <4>2, <4>3, <3>2 DEF Agree
    <3>3. QED BY <3>1, <3>2
  <2>3. PICK la, lb, ra, rb : la = L[a] /\ lb = L[b] /\ ra = R[a] /\ rb = R[b]
    OBVIOUS
  <2>4. /\ la \in (S \cap T) \cup {None} /\ (la # None => rk[la] < rk[a])
        /\ ra \in (S \cap T) \cup {None} /\ (ra # None => rk[ra] < rk[a])
        /\ lb \in (S \cap T) \cup {None} /\ (lb # None => rk[lb] < rk[b])
        /\ rb \in (S \cap T) \cup {None} /\ (rb # None => rk[rb] < rk[b])
    BY <2>1, <2>3
  <2>5. rk[a] \in Nat /\ rk[b] \in Nat /\ \A x \in S : rk[x] \in Nat
    BY <1>2
  <2>6. Agree(P, Q, a, lb) /\ Agree(P, Q, a, rb) /\ Agree(P, Q, b, la) /\ Agree(P, Q, b, ra)
        /\ Agree(P, Q, la, lb)
    <3>1. Agree(P, Q, a, lb)
      BY <2>2, <2>4, <2>5, <1>5
    <3>2. Agree(P, Q, a, rb)
      BY <2>2, <2>4, <2>5, <1>5
    <3>3. Agree(P, Q, b, la)
      BY <2>2, <2>4, <2>5, <1>5
    <3>4. Agree(P, Q, b, ra)
      BY <2>2, <2>4, <2>5, <1>5
    <3>5. Agree(P, Q, la, lb)
      BY <2>2, <2>4, <2>5, <1>5
    <3>6. QED BY <3>1, <3>2, <3>3, <3>4, <3>5
  <2>7. QED BY <2>3, <2>6, <1>5, SameOrderStep
<1>6. ASSUME NEW n \in Nat, \A m \in Nat : m < n => m \in W PROVE n \in W
  <2> SUFFICES ASSUME NEW a \in S \cap T, NEW b \in S \cap T, rk[a] + rk[b] <= n
               PROVE  P[a] < P[b] <=> Q[a] < Q[b]
    OBVIOUS
  <2>1. CASE rk[a] + rk[b] < n
    <3>1. PICK m \in Nat : m = rk[a] + rk[b]
      BY <1>2
    <3>2. m \in W
      BY <3>1, <2>1, <1>6
    <3>3. QED BY <3>1, <3>2
  <2>2. CASE rk[a] + rk[b] = n
    <3>1. rk[b] + rk[a] = n
      BY <2>2, <1>2
    <3>2. P[a] < P[b] => Q[a] < Q[b]
      <4> HIDE DEF W
      <4>1. QED BY <2>2, <1>5, <1>6
    <3>3. P[b] < P[a] => Q[b] < Q[a]
      <4> HIDE DEF W
      <4>1. QED BY <3>1, <1>5, <1>6
    <3>4. P[a] \in Nat /\ P[b] \in Nat /\ Q[a] \in Nat /\ Q[b] \in Nat /\ (P[a] = P[b] => a = b)
      BY <1>1
    <3>5. QED BY <3>2, <3>3, <3>4
  <2>3. QED BY <2>1, <2>2, <1>2
<1>7. Nat \subseteq W
  <2> SUFFICES ASSUME Nat \ W # {} PROVE FALSE
    OBVIOUS
  <2>1. PICK n \in Nat \ W : \A m \in Nat \ W : n <= m
    <3>1. Nat \ W \subseteq Nat
      OBVIOUS
    <3> HIDE DEF W
    <3>2. QED BY <3>1, LeastOf
  <2>2. \A m \in Nat : m < n => m \in W
    <3> HIDE DEF W
    <3>1. QED BY <2>1
  <2> HIDE DEF W
  <2>3. QED BY <2>1, <2>2, <1>6
<1>8. ASSUME NEW a \in S \cap T, NEW b \in S \cap T PROVE P[a] < P[b] <=> Q[a] < Q[b]
  <2>1. rk[a] + rk[b] \in Nat
    BY <1>2
  <2>2. rk[a] + rk[b] \in W
    <3> HIDE DEF W
    <3>1. QED BY <2>1, <1>7
  <2>3. QED BY <2>1, <2>2
<1>9. ASSUME NEW a \in (S \cap T) \cup {None}, NEW b \in (S \cap T) \cup {None}
      PROVE  P[a] < P[b] <=> Q[a] < Q[b]
  <2>1. CASE a = None \/ b = None
    BY <2>1, <1>4
  <2>2. CASE a # None /\ b # None
    BY <2>2, <1>8
  <2>3. QED BY <2>1, <2>2
<1>10. QED BY <1>9

-----------------------------------------------------------------------------
(* An item linked in keeps the order.                                      *)

\* The items between the origins of t: the ones the conflict loop looks at.
InBetween(S, P, L, R, t) ==
  {x \in S : P[L[t]] < P[x] /\ (R[t] # None => P[x] < P[R[t]])}

\* Position p is right for t as far as the items X are concerned.
Fits(X, P, L, R, t, p) ==
  \A x \in X :
    /\ L[x] = L[t] /\ x[1] < t[1] => P[x] <= p
    /\ L[x] = L[t] /\ x[1] > t[1] /\ P[x] <= p => R[x] # None /\ P[R[x]] <= p
    /\ P[L[x]] < P[L[t]] => P[x] > p
    /\ P[L[x]] > P[L[t]] /\ P[L[x]] <= p => P[x] <= p

\* What is known of an item before it is linked in.
NewItem(S, P, L, R, t) ==
  /\ t \in Id /\ t \notin S
  /\ L[t] \in S \cup {None} /\ R[t] \in S \cup {None}
  /\ R[t] # None => P[L[t]] < P[R[t]] /\ P[L[R[t]]] <= P[L[t]]
  /\ \A a \in S : a[1] = t[1] =>
        a[2] < t[2] /\ (P[a] <= P[L[t]] \/ (R[t] # None /\ P[R[t]] <= P[a]))

\* The positions after it is linked in behind position p.
Shifted(S, P, t, p) ==
  [x \in (S \cup {t}) \cup {None} |->
     IF x = t THEN p + 1 ELSE IF P[x] > p THEN P[x] + 1 ELSE P[x]]

\* An item linked in at a position that fits leaves the order rules true.
LEMMA LinkedInOrder ==
  ASSUME NEW S, S \subseteq Id, NEW P, NEW L, NEW R, Rules(S, P, L, R),
         NEW t, NewItem(S, P, L, R, t), NEW p \in Nat,
         P[L[t]] <= p, R[t] # None => p < P[R[t]],
         Fits(InBetween(S, P, L, R, t), P, L, R, t, p)
  PROVE  Rules(S \cup {t}, Shifted(S, P, t, p), L, R)
PROOF
<1>1. PICK l, r, Z, U : l = L[t] /\ r = R[t] /\ Z = S \cup {t} /\ U = Shifted(S, P, t, p)
  OBVIOUS
<1>2. t \in Id /\ t \notin S /\ l \in S \cup {None} /\ r \in S \cup {None} /\ None \notin Id
  BY <1>1, Ids DEF NewItem
<1>3. /\ \A x \in S \cup {None} : P[x] \in Nat
      /\ P[None] = 0 /\ \A x \in S : P[x] > 0
      /\ \A x, y \in S : P[x] = P[y] => x = y
  BY DEF Rules, Places
<1>4. /\ t # None /\ t \notin S \cup {None}
      /\ \A x \in S \cup {None} : U[x] = IF P[x] > p THEN P[x] + 1 ELSE P[x]
      /\ U[t] = p + 1 /\ U \in [Z \cup {None} -> Nat]
  <2>1. t # None /\ t \notin S \cup {None}
    BY <1>2
  <2>2. \A x \in S \cup {None} : U[x] = IF P[x] > p THEN P[x] + 1 ELSE P[x]
    BY <2>1, <1>1 DEF Shifted
  <2>3. U[t] = p + 1
    BY <1>1 DEF Shifted
  <2>4. U \in [Z \cup {None} -> Nat]
    BY <1>1, <1>3 DEF Shifted
  <2>5. QED BY <2>1, <2>2, <2>3, <2>4
\* Old items keep their order, and t is behind those up to p.
<1>5. \A x, y \in S \cup {None} : /\ U[x] < U[y] <=> P[x] < P[y]
                                  /\ U[x] <= U[y] <=> P[x] <= P[y]
                                  /\ U[x] = U[y] <=> P[x] = P[y]
  BY <1>3, <1>4
<1>6. \A x \in S \cup {None} : /\ U[x] < U[t] <=> P[x] <= p
                               /\ U[x] <= U[t] <=> P[x] <= p
                               /\ U[t] < U[x] <=> P[x] > p
                               /\ U[t] <= U[x] <=> P[x] > p
                               /\ U[x] # U[t]
  BY <1>3, <1>4
<1>7. /\ P[l] <= p /\ (r # None => p < P[r] /\ P[l] < P[r] /\ P[L[r]] <= P[l])
      /\ \A a \in S : a[1] = t[1] => a[2] < t[2] /\ (P[a] <= P[l] \/ (r # None /\ P[r] <= P[a]))
  BY <1>1 DEF NewItem
<1>8. \A x \in S : P[l] < P[x] /\ (r # None => P[x] < P[r]) =>
        /\ L[x] = l /\ x[1] < t[1] => P[x] <= p
        /\ L[x] = l /\ x[1] > t[1] /\ P[x] <= p => R[x] # None /\ P[R[x]] <= p
        /\ P[L[x]] < P[l] => P[x] > p
        /\ P[L[x]] > P[l] /\ P[L[x]] <= p => P[x] <= p
  BY <1>1 DEF Fits, InBetween
<1>9. \A a \in S : /\ L[a] \in S \cup {None} /\ R[a] \in S \cup {None}
                   /\ P[L[a]] < P[a] /\ (R[a] # None => P[a] < P[R[a]])
  BY DEF Rules, BetweenOrigins
<1>10. \A a, b \in S : P[a] < P[b] => P[L[b]] <= P[L[a]] \/ P[a] <= P[L[b]]
  BY DEF Rules, NoCross
<1>11. Places(Z, U)
  <2>1. U[None] = 0
    BY <1>3, <1>4
  <2>2. \A a \in Z : U[a] > 0
    BY <1>1, <1>3, <1>4
  <2>3. ASSUME NEW a \in Z, NEW b \in Z, U[a] = U[b] PROVE a = b
    BY <2>3, <1>1, <1>3, <1>5, <1>6
  <2>4. QED BY <2>1, <2>2, <2>3, <1>4 DEF Places
<1>12. BetweenOrigins(Z, U, L, R)
  <2>1. ASSUME NEW a \in Z
        PROVE  /\ L[a] \in Z \cup {None} /\ R[a] \in Z \cup {None}
               /\ U[L[a]] < U[a] /\ (R[a] # None => U[a] < U[R[a]])
    <3>1. CASE a = t
      BY <3>1, <1>1, <1>2, <1>6, <1>7
    <3>2. CASE a \in S
      BY <3>2, <1>1, <1>5, <1>9
    <3>3. QED BY <3>1, <3>2, <1>1
  <2>2. QED BY <2>1 DEF BetweenOrigins
<1>13. NoCross(Z, U, L)
  <2>1. ASSUME NEW a \in Z, NEW b \in Z, U[a] < U[b]
        PROVE  U[L[b]] <= U[L[a]] \/ U[a] <= U[L[b]]
    <3>1. CASE a \in S /\ b \in S
      <4>1. P[L[b]] <= P[L[a]] \/ P[a] <= P[L[b]]
        BY <3>1, <2>1, <1>5, <1>10
      <4>2. QED BY <4>1, <3>1, <1>5, <1>9
    <3>2. CASE a = t /\ b \in S
      <4>1. P[b] > p /\ L[b] \in S \cup {None} /\ P[L[b]] \in Nat /\ P[L[b]] < P[b]
        BY <3>2, <2>1, <1>3, <1>6, <1>9
      <4>2. P[L[b]] <= P[l] \/ P[L[b]] > p
        <5>1. CASE r # None => P[b] < P[r]
          BY <5>1, <4>1, <3>2, <1>2, <1>3, <1>7, <1>8
        <5>2. CASE r # None /\ P[r] <= P[b]
          <6>1. r \in S /\ P[r] \in Nat /\ P[L[r]] <= P[l] /\ p < P[r]
            BY <5>2, <1>2, <1>3, <1>7
          <6>2. CASE b = r
            BY <6>1, <6>2
          <6>3. CASE b # r
            <7>1. P[r] < P[b]
              BY <6>1, <6>3, <5>2, <3>2, <1>3
            <7>2. P[L[b]] <= P[L[r]] \/ P[r] <= P[L[b]]
              BY <6>1, <7>1, <3>2, <1>10
            <7>3. P[L[r]] \in Nat /\ P[l] \in Nat
              BY <6>1, <1>2, <1>3, <1>9
            <7>4. QED BY <6>1, <7>2, <7>3, <4>1
          <6>4. QED BY <6>2, <6>3
        <5>3. QED BY <5>1, <5>2, <4>1, <3>2, <1>2, <1>3
      <4>3. U[L[b]] <= U[l] \/ U[t] <= U[L[b]]
        BY <4>1, <4>2, <1>2, <1>5, <1>6
      <4>4. QED BY <4>3, <3>2, <1>1
    <3>3. CASE a \in S /\ b = t
      <4>1. P[a] <= p /\ L[a] \in S \cup {None} /\ P[L[a]] \in Nat /\ P[a] \in Nat /\ P[l] \in Nat
        BY <3>3, <2>1, <1>2, <1>3, <1>6, <1>9
      <4>2. P[l] <= P[L[a]] \/ P[a] <= P[l]
        <5>1. SUFFICES ASSUME P[l] < P[a], P[L[a]] < P[l] PROVE FALSE
          BY <4>1
        <5>2. r # None => P[a] < P[r]
          BY <4>1, <1>2, <1>3, <1>7
        <5>3. P[a] > p
          BY <5>1, <5>2, <3>3, <1>8
        <5>4. QED BY <5>3, <4>1
      <4>3. U[l] <= U[L[a]] \/ U[a] <= U[l]
        BY <4>1, <4>2, <3>3, <1>2, <1>5
      <4>4. QED BY <4>3, <3>3, <1>1
    <3>4. CASE a = t /\ b = t
      <4>1. U[t] \in Nat
        BY <1>4
      <4>2. QED BY <4>1, <3>4, <2>1
    <3>5. QED BY <3>1, <3>2, <3>3, <3>4, <1>1
  <2>2. QED BY <2>1 DEF NoCross
<1>14. TieBreak(Z, U, L, R)
  <2>1. ASSUME NEW a \in Z, NEW b \in Z, L[a] = L[b], U[a] < U[b], b[1] < a[1]
        PROVE  R[a] # None /\ U[R[a]] <= U[b]
    <3>1. CASE a \in S /\ b \in S
      <4>1. R[a] # None /\ P[R[a]] <= P[b]
        BY <3>1, <2>1, <1>5 DEF Rules, TieBreak
      <4>2. QED BY <4>1, <3>1, <1>5, <1>9
    <3>2. CASE a = t /\ b \in S
      <4>1. L[b] = l /\ P[b] > p /\ b[1] < t[1] /\ P[b] \in Nat /\ P[l] \in Nat
        BY <3>2, <2>1, <1>1, <1>2, <1>3, <1>6
      <4>2. r # None /\ P[r] <= P[b]
        <5>1. SUFFICES ASSUME r # None => P[b] < P[r] PROVE FALSE
          BY <4>1, <1>2, <1>3
        <5>2. P[l] < P[b]
          BY <4>1, <1>7
        <5>3. P[b] <= p
          BY <5>1, <5>2, <4>1, <3>2, <1>8
        <5>4. QED BY <5>3, <4>1
      <4>3. r \in S
        BY <4>2, <1>2
      <4>4. QED BY <4>2, <4>3, <3>2, <1>1, <1>5
    <3>3. CASE a \in S /\ b = t
      <4>1. L[a] = l /\ P[a] <= p /\ a[1] > t[1] /\ P[a] \in Nat /\ P[l] \in Nat
        <5>1. a[1] \in Int /\ t[1] \in Int
          BY <3>3, <1>2, Ids
        <5>2. QED BY <5>1, <3>3, <2>1, <1>1, <1>2, <1>3, <1>6
      <4>2. P[l] < P[a] /\ (r # None => P[a] < P[r])
        BY <4>1, <3>3, <1>2, <1>3, <1>7, <1>9
      <4>3. R[a] # None /\ P[R[a]] <= p
        BY <4>1, <4>2, <3>3, <1>8
      <4>4. R[a] \in S
        BY <4>3, <3>3, <1>9
      <4>5. QED BY <4>3, <4>4, <3>3, <1>6
    <3>4. CASE a = t /\ b = t
      <4>1. U[t] \in Nat
        BY <1>4
      <4>2. QED BY <4>1, <3>4, <2>1
    <3>5. QED BY <3>1, <3>2, <3>3, <3>4, <1>1
  <2>2. QED BY <2>1 DEF TieBreak
<1>15. RightOrigin(Z, U, L, R)
  <2>1. ASSUME NEW a \in Z, R[a] # None PROVE U[L[R[a]]] <= U[L[a]]
    <3>1. CASE a \in S
      <4>1. R[a] \in S /\ P[L[R[a]]] <= P[L[a]]
        BY <3>1, <2>1, <1>9 DEF Rules, RightOrigin
      <4>2. QED BY <4>1, <3>1, <1>5, <1>9
    <3>2. CASE a = t
      <4>1. r \in S /\ P[L[r]] <= P[l]
        BY <3>2, <2>1, <1>1, <1>2, <1>7
      <4>2. QED BY <4>1, <3>2, <1>1, <1>2, <1>5, <1>9
    <3>3. QED BY <3>1, <3>2, <1>1
  <2>2. QED BY <2>1 DEF RightOrigin
<1>16. OwnItemsApart(Z, U, L, R)
  <2>1. ASSUME NEW a \in Z, NEW b \in Z, a[1] = b[1], a[2] < b[2]
        PROVE  U[a] <= U[L[b]] \/ (R[b] # None /\ U[R[b]] <= U[a])
    <3>1. CASE a \in S /\ b \in S
      <4>1. P[a] <= P[L[b]] \/ (R[b] # None /\ P[R[b]] <= P[a])
        BY <3>1, <2>1 DEF Rules, OwnItemsApart
      <4>2. QED BY <4>1, <3>1, <1>5, <1>9
    <3>2. CASE b = t /\ a \in S
      <4>1. P[a] <= P[l] \/ (r # None /\ P[r] <= P[a])
        BY <3>2, <2>1, <1>7
      <4>2. QED BY <4>1, <3>2, <1>1, <1>2, <1>5
    <3>3. CASE a = t
      <4>1. t[2] \in Nat /\ b[2] \in Nat
        BY <1>1, <1>2, Ids
      <4>2. b \in S => b[2] < t[2]
        BY <3>3, <2>1, <1>7
      <4>3. QED BY <4>1, <4>2, <3>3, <2>1, <1>1
    <3>4. QED BY <3>1, <3>2, <3>3, <1>1
  <2>2. QED BY <2>1 DEF OwnItemsApart
<1>17. QED BY <1>1, <1>11, <1>12, <1>13, <1>14, <1>15, <1>16 DEF Rules

-----------------------------------------------------------------------------
(* The conflict loop finds a position that fits.                           *)

\* The loop has looked at the items Seen, is to go behind left, and looks at c.
Looking(S, P, L, R, t, Seen, c, lt) ==
  LET I == InBetween(S, P, L, R, t) IN
  /\ Seen \subseteq I /\ c \in I \ Seen
  /\ \A x \in Seen : P[x] < P[c]
  /\ \A x \in I \ (Seen \cup {c}) : P[c] < P[x]
  /\ lt \in {L[t]} \cup Seen

\* What its turns may rely on.
Known(S, P, L, R, t, Seen, c, lt) ==
  /\ \A x \in S \cup {None} : P[x] \in Nat
  /\ L[t] \in S \cup {None} /\ lt \in S \cup {None} /\ c \in S /\ Seen \subseteq S
  /\ P[L[t]] < P[c] /\ P[lt] < P[c] /\ P[L[t]] <= P[lt]
  /\ L[c] \in S \cup {None} /\ P[L[c]] < P[c]
  /\ \A x \in InBetween(S, P, L, R, t) :
        /\ x \in S /\ L[x] \in S \cup {None} /\ R[x] \in S \cup {None} /\ P[L[x]] < P[x]
        /\ P[L[t]] < P[x] /\ x[1] # t[1] /\ x[1] \in Int /\ t[1] \in Int
        /\ R[t] # None => P[x] < P[R[t]]
        /\ P[x] < P[c] => P[L[c]] <= P[L[x]] \/ P[x] <= P[L[c]]
        /\ P[c] < P[x] => P[L[x]] <= P[L[c]] \/ P[c] <= P[L[x]]
  /\ \A x, y \in S \cup {None} : P[x] = P[y] => x = y
  /\ \A x \in S : P[L[t]] < P[x] /\ P[x] < P[c] => x \in Seen
  /\ P[None] = 0

\* What is known of the item a turn of the loop looks at.
LEMMA LookingAt ==
  ASSUME NEW S, S \subseteq Id, NEW P, NEW L, NEW R, Rules(S, P, L, R),
         NEW t, NewItem(S, P, L, R, t),
         NEW Seen, NEW c, NEW lt, Looking(S, P, L, R, t, Seen, c, lt)
  PROVE  Known(S, P, L, R, t, Seen, c, lt)
PROOF
<1>1. PICK I : I = InBetween(S, P, L, R, t)
  OBVIOUS
<1>2. /\ \A x \in S \cup {None} : P[x] \in Nat
      /\ P[None] = 0 /\ \A x \in S : P[x] > 0
      /\ \A x, y \in S : P[x] = P[y] => x = y
  BY DEF Rules, Places
<1>3. \A x, y \in S \cup {None} : P[x] = P[y] => x = y
  BY <1>2
<1>4. t \in Id /\ L[t] \in S \cup {None} /\ R[t] \in S \cup {None}
      /\ \A a \in S : a[1] = t[1] => (P[a] <= P[L[t]] \/ (R[t] # None /\ P[R[t]] <= P[a]))
  BY DEF NewItem
<1>5. /\ Seen \subseteq I /\ c \in I \ Seen
      /\ \A x \in Seen : P[x] < P[c]
      /\ \A x \in I \ (Seen \cup {c}) : P[c] < P[x]
      /\ lt \in {L[t]} \cup Seen
  BY <1>1 DEF Looking
<1>6. I \subseteq S /\ \A x \in I : P[L[t]] < P[x] /\ (R[t] # None => P[x] < P[R[t]])
  BY <1>1 DEF InBetween
<1>7. \A x \in S : L[x] \in S \cup {None} /\ R[x] \in S \cup {None} /\ P[L[x]] < P[x]
  BY DEF Rules, BetweenOrigins
<1>8. /\ lt \in S \cup {None} /\ P[lt] < P[c] /\ P[L[t]] <= P[lt]
  BY <1>2, <1>4, <1>5, <1>6
<1>9. ASSUME NEW x \in I
      PROVE  /\ x[1] # t[1] /\ x[1] \in Int /\ t[1] \in Int
             /\ P[x] < P[c] => P[L[c]] <= P[L[x]] \/ P[x] <= P[L[c]]
             /\ P[c] < P[x] => P[L[x]] <= P[L[c]] \/ P[c] <= P[L[x]]
  <2>1. x \in S /\ x \in Id /\ c \in S
    BY <1>5, <1>6
  <2>2. x[1] # t[1]
    BY <2>1, <1>2, <1>4, <1>6
  <2>3. QED BY <2>1, <2>2, <1>4, Ids DEF Rules, NoCross
<1>10. ASSUME NEW x \in S, P[L[t]] < P[x], P[x] < P[c] PROVE x \in Seen
  <2>1. R[t] # None => P[c] < P[R[t]] /\ P[R[t]] \in Nat
    BY <1>2, <1>4, <1>5, <1>6
  <2>2. P[x] \in Nat /\ P[c] \in Nat
    BY <1>2, <1>5, <1>6
  <2>3. x \in I
    BY <2>1, <2>2, <1>1, <1>10 DEF InBetween
  <2>4. x # c /\ ~(P[c] < P[x])
    BY <2>2, <1>10
  <2>5. QED BY <2>3, <2>4, <1>5
<1>11. QED BY <1>1, <1>2, <1>3, <1>4, <1>5, <1>6, <1>7, <1>8, <1>9, <1>10 DEF Known

\* What the turn makes of it.
StillFits(S, P, L, R, t, Seen, c, lt) ==
  LET I == InBetween(S, P, L, R, t)
      conflicting == {x \in Seen : P[x] > P[lt]}
      behindOne == L[c] \in Seen \cup {c} /\ L[c] \notin conflicting \cup {c}
  IN /\ L[c] = L[t] /\ c[1] < t[1] => Fits(Seen \cup {c}, P, L, R, t, P[c])
     /\ L[c] = L[t] /\ ~(c[1] < t[1]) /\ R[c] = R[t] => Fits(I, P, L, R, t, P[lt])
     /\ L[c] = L[t] /\ ~(c[1] < t[1]) /\ R[c] # R[t] => Fits(Seen \cup {c}, P, L, R, t, P[lt])
     /\ L[c] # L[t] /\ L[c] # None /\ behindOne => Fits(Seen \cup {c}, P, L, R, t, P[c])
     /\ L[c] # L[t] /\ L[c] # None /\ ~behindOne => Fits(Seen \cup {c}, P, L, R, t, P[lt])
     /\ L[c] # L[t] /\ L[c] = None => Fits(I, P, L, R, t, P[lt])

\* Each way a turn can go keeps the loop's place right for what it has seen.
LEMMA TurnFits ==
  ASSUME NEW S, S \subseteq Id, NEW P, NEW L, NEW R, Rules(S, P, L, R),
         NEW t, NewItem(S, P, L, R, t),
         NEW Seen, NEW c, NEW lt, Looking(S, P, L, R, t, Seen, c, lt),
         Fits(Seen, P, L, R, t, P[lt])
  PROVE  StillFits(S, P, L, R, t, Seen, c, lt)
PROOF
<1>1. PICK I, l, q, lc : I = InBetween(S, P, L, R, t) /\ l = L[t] /\ q = P[lt] /\ lc = L[c]
  OBVIOUS
<1>2. /\ \A x \in S \cup {None} : P[x] \in Nat
      /\ l \in S \cup {None} /\ lt \in S \cup {None} /\ c \in S /\ Seen \subseteq S
      /\ P[l] < P[c] /\ q < P[c] /\ P[l] <= q /\ q \in Nat
      /\ lc \in S \cup {None} /\ P[lc] < P[c]
      /\ P[None] = 0
      /\ \A x, y \in S \cup {None} : P[x] = P[y] => x = y
      /\ \A x \in S : P[l] < P[x] /\ P[x] < P[c] => x \in Seen
  <2>1. /\ \A x \in S \cup {None} : P[x] \in Nat
        /\ L[t] \in S \cup {None} /\ lt \in S \cup {None} /\ c \in S /\ Seen \subseteq S
        /\ P[L[t]] < P[c] /\ P[lt] < P[c] /\ P[L[t]] <= P[lt]
        /\ L[c] \in S \cup {None} /\ P[L[c]] < P[c]
        /\ \A x, y \in S \cup {None} : P[x] = P[y] => x = y
        /\ \A x \in S : P[L[t]] < P[x] /\ P[x] < P[c] => x \in Seen
        /\ P[None] = 0
    <3>1. Known(S, P, L, R, t, Seen, c, lt)
      BY LookingAt
    <3>2. QED BY <3>1 DEF Known
  <2>2. P[lt] \in Nat
    BY <2>1
  <2>3. QED BY <2>1, <2>2, <1>1
<1>3. \A x \in I :
         /\ x \in S /\ L[x] \in S \cup {None} /\ R[x] \in S \cup {None} /\ P[L[x]] < P[x]
         /\ P[l] < P[x] /\ x[1] # t[1] /\ x[1] \in Int /\ t[1] \in Int
         /\ R[t] # None => P[x] < P[R[t]]
         /\ P[x] < P[c] => P[lc] <= P[L[x]] \/ P[x] <= P[lc]
         /\ P[c] < P[x] => P[L[x]] <= P[lc] \/ P[c] <= P[L[x]]
  BY <1>1, LookingAt DEF Known
<1>4. /\ Seen \subseteq I /\ c \in I \ Seen
      /\ \A x \in Seen : P[x] < P[c]
      /\ \A x \in I \ (Seen \cup {c}) : P[c] < P[x]
      /\ lt \in {l} \cup Seen
  BY <1>1 DEF Looking
<1>5. \A x \in Seen :
        /\ L[x] = l /\ x[1] < t[1] => P[x] <= q
        /\ L[x] = l /\ x[1] > t[1] /\ P[x] <= q => R[x] # None /\ P[R[x]] <= q
        /\ P[L[x]] < P[l] => P[x] > q
        /\ P[L[x]] > P[l] /\ P[L[x]] <= q => P[x] <= q
  BY <1>1 DEF Fits
<1>6. \A x \in I : P[x] \in Nat /\ P[L[x]] \in Nat
  BY <1>2, <1>3
<1>7. P[c] \in Nat /\ P[lc] \in Nat /\ P[l] \in Nat
  BY <1>2
<1>8. ASSUME lc = l, c[1] < t[1] PROVE Fits(Seen \cup {c}, P, L, R, t, P[c])
  <2>1. ASSUME NEW x \in Seen \cup {c}
        PROVE  /\ L[x] = l /\ x[1] < t[1] => P[x] <= P[c]
               /\ L[x] = l /\ x[1] > t[1] /\ P[x] <= P[c] => R[x] # None /\ P[R[x]] <= P[c]
               /\ P[L[x]] < P[l] => P[x] > P[c]
               /\ P[L[x]] > P[l] /\ P[L[x]] <= P[c] => P[x] <= P[c]
    <3>1. P[x] <= P[c] /\ x \in I
      BY <1>4, <1>6, <1>7
    <3>2. ASSUME L[x] = l, x[1] > t[1] PROVE R[x] # None /\ P[R[x]] <= P[c]
      <4>1. x \in S /\ x # c /\ x \in Seen /\ c[1] < x[1]
        BY <3>1, <3>2, <1>3, <1>4, <1>8
      <4>2. P[x] < P[c] /\ L[x] = L[c]
        BY <4>1, <3>2, <1>1, <1>4, <1>8
      <4>3. QED BY <4>1, <4>2, <1>2 DEF Rules, TieBreak
    <3>3. ~(P[L[x]] < P[l])
      <4>1. CASE x = c
        BY <4>1, <1>1, <1>7, <1>8
      <4>2. CASE x \in Seen
        BY <4>2, <3>1, <1>3, <1>4, <1>6, <1>7, <1>8
      <4>3. QED BY <4>1, <4>2
    <3>4. QED BY <3>1, <3>2, <3>3
  <2>2. QED BY <2>1, <1>1 DEF Fits
<1>9. ASSUME lc = l, ~(c[1] < t[1]), R[c] = R[t] PROVE Fits(I, P, L, R, t, q)
  <2>1. ASSUME NEW x \in I
        PROVE  /\ L[x] = l /\ x[1] < t[1] => P[x] <= q
               /\ L[x] = l /\ x[1] > t[1] /\ P[x] <= q => R[x] # None /\ P[R[x]] <= q
               /\ P[L[x]] < P[l] => P[x] > q
               /\ P[L[x]] > P[l] /\ P[L[x]] <= q => P[x] <= q
    <3>1. CASE x \in Seen
      BY <3>1, <1>5
    <3>2. CASE x = c
      BY <3>2, <1>1, <1>2, <1>7, <1>9
    <3>3. CASE x \notin Seen \cup {c}
      <4>1. P[c] < P[x] /\ P[x] > q
        BY <3>3, <1>2, <1>4, <1>6, <1>7
      <4>2. ASSUME L[x] = l, x[1] < t[1] PROVE FALSE
        <5>1. L[c] = L[x] /\ x[1] < c[1] /\ x \in S
          BY <4>2, <1>1, <1>3, <1>4, <1>9
        <5>2. R[c] # None /\ P[R[c]] <= P[x]
          BY <4>1, <5>1, <1>2 DEF Rules, TieBreak
        <5>3. P[R[t]] \in Nat /\ P[x] < P[R[t]]
          BY <5>2, <1>2, <1>3, <1>4, <1>9
        <5>4. QED BY <5>2, <5>3, <1>6, <1>9
      <4>3. ~(P[L[x]] > P[l] /\ P[L[x]] <= q)
        BY <4>1, <1>2, <1>3, <1>6, <1>7, <1>9
      <4>4. ~(P[x] <= q)
        BY <4>1, <1>2, <1>6
      <4>5. QED BY <4>1, <4>2, <4>3, <4>4
    <3>4. QED BY <3>1, <3>2, <3>3
  <2>2. QED BY <2>1, <1>1 DEF Fits
\* Left alone, it still fits when the item looked at says nothing against it.
<1>10. ASSUME ~(lc = l /\ c[1] < t[1]), ~(P[lc] > P[l] /\ P[lc] <= q)
       PROVE  Fits(Seen \cup {c}, P, L, R, t, q)
  <2>1. ASSUME NEW x \in Seen \cup {c}
        PROVE  /\ L[x] = l /\ x[1] < t[1] => P[x] <= q
               /\ L[x] = l /\ x[1] > t[1] /\ P[x] <= q => R[x] # None /\ P[R[x]] <= q
               /\ P[L[x]] < P[l] => P[x] > q
               /\ P[L[x]] > P[l] /\ P[L[x]] <= q => P[x] <= q
    <3>1. CASE x \in Seen
      BY <3>1, <1>5
    <3>2. CASE x = c
      BY <3>2, <1>1, <1>2, <1>7, <1>10
    <3>3. QED BY <3>1, <3>2
  <2>2. QED BY <2>1, <1>1 DEF Fits
<1>11. lc = l /\ ~(c[1] < t[1]) /\ R[c] # R[t] => Fits(Seen \cup {c}, P, L, R, t, q)
  BY <1>7, <1>10
<1>12. ASSUME lc # l, lc \in Seen, P[lc] <= q PROVE Fits(Seen \cup {c}, P, L, R, t, P[c])
  <2>1. P[lc] > P[l]
    BY <1>3, <1>4, <1>6, <1>12
  <2>2. ASSUME NEW x \in Seen \cup {c}
        PROVE  /\ L[x] = l /\ x[1] < t[1] => P[x] <= P[c]
               /\ L[x] = l /\ x[1] > t[1] /\ P[x] <= P[c] => R[x] # None /\ P[R[x]] <= P[c]
               /\ P[L[x]] < P[l] => P[x] > P[c]
               /\ P[L[x]] > P[l] /\ P[L[x]] <= P[c] => P[x] <= P[c]
    <3>1. P[x] <= P[c] /\ x \in I
      BY <1>4, <1>6, <1>7
    <3>2. ASSUME L[x] = l, x[1] > t[1] PROVE R[x] # None /\ P[R[x]] <= P[c]
      <4>1. x # c /\ x \in Seen /\ P[x] < P[c]
        BY <3>2, <1>1, <1>4, <1>12
      <4>2. P[x] <= q
        BY <4>1, <3>1, <3>2, <2>1, <1>3, <1>6, <1>7, <1>12, <1>2
      <4>3. R[x] # None /\ P[R[x]] <= q
        BY <4>1, <4>2, <3>2, <1>5
      <4>4. P[R[x]] \in Nat
        BY <3>1, <1>2, <1>3
      <4>5. QED BY <4>3, <4>4, <1>2, <1>7
    <3>3. ~(P[L[x]] < P[l])
      <4>1. CASE x = c
        BY <4>1, <2>1, <1>1, <1>7
      <4>2. CASE x \in Seen
        <5>1. SUFFICES ASSUME P[L[x]] < P[l] PROVE FALSE
          OBVIOUS
        <5>2. P[x] > q /\ P[x] < P[c]
          BY <4>2, <5>1, <1>4, <1>5
        <5>3. P[lc] <= P[L[x]] \/ P[x] <= P[lc]
          BY <5>2, <3>1, <1>3
        <5>4. QED BY <5>1, <5>2, <5>3, <3>1, <2>1, <1>2, <1>6, <1>7, <1>12
      <4>3. QED BY <4>1, <4>2
    <3>4. QED BY <3>1, <3>2, <3>3
  <2>3. QED BY <2>2, <1>1 DEF Fits
<1>13. ASSUME lc # l, lc = None PROVE Fits(I, P, L, R, t, q)
  <2>1. P[lc] = 0 /\ P[l] > 0
    BY <1>2, <1>7, <1>13
  <2>2. ASSUME NEW x \in I
        PROVE  /\ L[x] = l /\ x[1] < t[1] => P[x] <= q
               /\ L[x] = l /\ x[1] > t[1] /\ P[x] <= q => R[x] # None /\ P[R[x]] <= q
               /\ P[L[x]] < P[l] => P[x] > q
               /\ P[L[x]] > P[l] /\ P[L[x]] <= q => P[x] <= q
    <3>1. CASE x \in Seen
      BY <3>1, <1>5
    <3>2. CASE x = c
      BY <3>2, <2>1, <1>1, <1>2, <1>7, <1>13
    <3>3. CASE x \notin Seen \cup {c}
      <4>1. P[c] < P[x] /\ P[x] > q /\ ~(P[x] <= q)
        BY <3>3, <1>2, <1>4, <1>6, <1>7
      <4>2. P[L[x]] <= P[lc] \/ P[c] <= P[L[x]]
        BY <4>1, <1>3
      <4>3. L[x] # l
        BY <4>2, <2>1, <1>2, <1>7
      <4>4. ~(P[L[x]] > P[l] /\ P[L[x]] <= q)
        BY <4>2, <2>1, <1>2, <1>6, <1>7
      <4>5. QED BY <4>1, <4>3, <4>4
    <3>4. QED BY <3>1, <3>2, <3>3
  <2>3. QED BY <2>2, <1>1 DEF Fits
<1>14. lc # c
  BY <1>7, <1>2
\* Behind an item the loop has passed, or behind none of those it has seen.
<1>15. ASSUME lc # l, lc # None
       PROVE  /\ lc \in Seen \cup {c} /\ lc \notin {x \in Seen : P[x] > q} \cup {c} =>
                    lc \in Seen /\ P[lc] <= q
              /\ ~(lc \in Seen \cup {c} /\ lc \notin {x \in Seen : P[x] > q} \cup {c}) =>
                    ~(P[lc] > P[l] /\ P[lc] <= q)
  <2>1. lc \in S /\ lc # c
    BY <1>14, <1>2, <1>15
  <2>2. P[lc] > P[l] => lc \in Seen
    BY <2>1, <1>2
  <2>3. P[lc] \in Nat /\ q \in Nat
    BY <1>2
  <2>4. QED BY <2>1, <2>2, <2>3
<1>16. QED BY <1>1, <1>8, <1>9, <1>10, <1>11, <1>12, <1>13, <1>15 DEF StillFits

\* What a turn of the loop does, by case.
TurnDoes(t, oL, oR, a, b, c) ==
  LET seen == b.before = a.before \cup {c}
      goAfter == b.left = c /\ b.conflicting = {} /\ b.stopped = FALSE /\ seen
      pass == b.left = a.left /\ b.conflicting = a.conflicting \cup {c} /\ b.stopped = FALSE /\ seen
      stop == b.left = a.left /\ b.stopped = TRUE
      behindOne == oL[c] \in a.before \cup {c} /\ oL[c] \notin a.conflicting \cup {c}
  IN /\ a.stopped => b = a
     /\ ~a.stopped =>
          /\ oL[c] = oL[t] /\ c[1] < t[1] => goAfter
          /\ oL[c] = oL[t] /\ ~(c[1] < t[1]) /\ oR[c] = oR[t] => stop
          /\ oL[c] = oL[t] /\ ~(c[1] < t[1]) /\ oR[c] # oR[t] => pass
          /\ oL[c] # oL[t] /\ oL[c] # None /\ behindOne => goAfter
          /\ oL[c] # oL[t] /\ oL[c] # None /\ ~behindOne => pass
          /\ oL[c] # oL[t] /\ oL[c] = None => stop

\* The way a turn goes, by the case of the code it takes.
LEMMA TurnGives ==
  ASSUME NEW t, NEW oL, NEW oR, NEW a, Acc(a), a.stopped \in BOOLEAN, NEW c,
         c[1] \in Int, t[1] \in Int
  PROVE  TurnDoes(t, oL, oR, a, Turn(t, oL, oR, a, c), c)
PROOF
<1>1. PICK l, bf, g, s : a = [left |-> l, before |-> bf, conflicting |-> g, stopped |-> s]
  BY DEF Acc
<1>2. PICK b2, g2 : b2 = bf \cup {c} /\ g2 = g \cup {c}
  OBVIOUS
<1>3. a.stopped \in BOOLEAN /\ a.left = l /\ a.before = bf /\ a.conflicting = g
  BY <1>1
<1>4. PICK p : p = [a EXCEPT !.before = a.before \cup {c}, !.conflicting = a.conflicting \cup {c}]
  OBVIOUS
<1>5. p = [left |-> l, before |-> b2, conflicting |-> g2, stopped |-> s]
  BY <1>1, <1>2, <1>4
<1>6. PICK q : q = [p EXCEPT !.left = c, !.conflicting = {}]
  OBVIOUS
<1>7. q = [left |-> c, before |-> b2, conflicting |-> {}, stopped |-> s]
  BY <1>5, <1>6
<1>8. PICK x : x = [p EXCEPT !.stopped = TRUE]
  OBVIOUS
<1>9. x = [left |-> l, before |-> b2, conflicting |-> g2, stopped |-> TRUE]
  BY <1>5, <1>8
<1>10. c[1] >= t[1] <=> ~(c[1] < t[1])
  OBVIOUS
<1>11. PICK b : b = Turn(t, oL, oR, a, c)
  OBVIOUS
<1>12. /\ a.stopped => b = a
       /\ ~a.stopped =>
            /\ oL[c] = oL[t] /\ c[1] < t[1] => b = q
            /\ oL[c] = oL[t] /\ ~(c[1] < t[1]) /\ oR[c] = oR[t] => b = x
            /\ oL[c] = oL[t] /\ ~(c[1] < t[1]) /\ oR[c] # oR[t] => b = p
            /\ oL[c] # oL[t] /\ oL[c] # None /\ oL[c] \in b2 /\ oL[c] \notin g2 => b = q
            /\ oL[c] # oL[t] /\ oL[c] # None /\ ~(oL[c] \in b2 /\ oL[c] \notin g2) => b = p
            /\ oL[c] # oL[t] /\ oL[c] = None => b = x
  BY <1>2, <1>3, <1>4, <1>6, <1>8, <1>10, <1>11 DEF Turn
<1>13. /\ s = a.stopped
       /\ p.left = l /\ p.before = b2 /\ p.conflicting = g2 /\ p.stopped = s
       /\ q.left = c /\ q.before = b2 /\ q.conflicting = {} /\ q.stopped = s
       /\ x.left = l /\ x.stopped = TRUE
  BY <1>1, <1>5, <1>7, <1>9
<1>14. ~a.stopped => s = FALSE
  BY <1>13, <1>3
<1>15. TurnDoes(t, oL, oR, a, b, c)
  BY <1>2, <1>3, <1>12, <1>13, <1>14 DEF TurnDoes
<1>16. QED BY <1>11, <1>15

\* sib lists the items between the origins of t in order.
Lists(sib, S, P, L, R, t) ==
  /\ sib \in Seq(S)
  /\ \A j, k \in 1..Len(sib) : j < k => P[sib[j]] < P[sib[k]]
  /\ {sib[k] : k \in 1..Len(sib)} = InBetween(S, P, L, R, t)

\* What the loop has found after k items.
FitSoFar(a, k, sib, S, P, L, R, t) ==
  LET Seen == {sib[j] : j \in 1..k} IN
  /\ Acc(a) /\ a.stopped \in BOOLEAN /\ a.left \in {L[t]} \cup Seen
  /\ a.stopped => Fits(InBetween(S, P, L, R, t), P, L, R, t, P[a.left])
  /\ ~a.stopped => /\ a.before = Seen /\ a.conflicting = {x \in Seen : P[x] > P[a.left]}
                   /\ Fits(Seen, P, L, R, t, P[a.left])

\* So where the loop ends is right for all the siblings.
LEMMA LoopFits ==
  ASSUME NEW S, S \subseteq Id, NEW P, NEW L, NEW R, Rules(S, P, L, R),
         NEW t, NewItem(S, P, L, R, t),
         NEW sib, Lists(sib, S, P, L, R, t), NEW oL, NEW oR,
         \A i \in S \cup {t} : i \in InBetween(S, P, L, R, t) \cup {t} => oL[i] = L[i] /\ oR[i] = R[i]
  PROVE  LET a == LeftAfterConflicts(t, sib, oL, oR)
         IN  a \in {L[t]} \cup InBetween(S, P, L, R, t) /\ Fits(InBetween(S, P, L, R, t), P, L, R, t, P[a])
PROOF
<1>1. PICK I : I = InBetween(S, P, L, R, t)
  OBVIOUS
<1>2. /\ sib \in Seq(S) /\ Len(sib) \in Nat
      /\ \A j, k \in 1..Len(sib) : j < k => P[sib[j]] < P[sib[k]]
      /\ I = {sib[k] : k \in 1..Len(sib)}
  BY <1>1 DEF Lists
<1>3. I \subseteq S /\ (\A x \in I : P[L[t]] < P[x]) /\ t \in Id
  BY <1>1 DEF InBetween, NewItem
<1>4. \A i \in I \cup {t} : oL[i] = L[i] /\ oR[i] = R[i]
  BY <1>1, <1>3
<1>5. PICK acc : Unrolled(t, sib, oL, oR, acc)
  BY <1>2, LoopUnrolled
<1>6. \A x \in S \cup {None} : P[x] \in Nat
  BY DEF Rules, Places
<1> DEFINE W == {k \in Nat : k <= Len(sib) => FitSoFar(acc[k], k, sib, S, P, L, R, t)}
<1>7. 0 \in W
  <2>1. acc[0] = [left |-> L[t], before |-> {}, conflicting |-> {}, stopped |-> FALSE]
    BY <1>4, <1>5 DEF Unrolled
  <2>2. PICK a : a = acc[0]
    OBVIOUS
  <2>3. Acc(a) /\ a.stopped = FALSE /\ a.left = L[t] /\ a.before = {} /\ a.conflicting = {}
    BY <2>1, <2>2 DEF Acc
  <2>4. {sib[j] : j \in 1..0} = {}
    OBVIOUS
  <2>5. Fits({}, P, L, R, t, P[a.left])
    BY DEF Fits
  <2>6. FitSoFar(a, 0, sib, S, P, L, R, t)
    BY <2>3, <2>4, <2>5 DEF FitSoFar
  <2>7. QED BY <2>2, <2>6
<1>8. ASSUME NEW k \in Nat, k \in W PROVE k + 1 \in W
  <2> SUFFICES ASSUME k + 1 <= Len(sib) PROVE FitSoFar(acc[k + 1], k + 1, sib, S, P, L, R, t)
    OBVIOUS
  <2>1. k + 1 \in 1..Len(sib) /\ (k + 1) - 1 = k /\ 1..k \subseteq 1..Len(sib)
        /\ 1..k + 1 = (1..k) \cup {k + 1}
    BY <1>2
  <2>2. PICK c, Seen : c = sib[k + 1] /\ Seen = {sib[j] : j \in 1..k}
    OBVIOUS
  <2>3. {sib[j] : j \in 1..k + 1} = Seen \cup {c}
    BY <2>1, <2>2
  <2>4. PICK a, b : a = acc[k] /\ b = acc[k + 1]
    OBVIOUS
  <2>5. b = Turn(t, oL, oR, a, c)
    BY <2>1, <2>2, <2>4, <1>5 DEF Unrolled
  <2>6. FitSoFar(a, k, sib, S, P, L, R, t)
    BY <2>1, <2>4, <1>2, <1>8
  <2>7. /\ Acc(a) /\ a.stopped \in BOOLEAN /\ a.left \in {L[t]} \cup Seen
        /\ a.stopped => Fits(I, P, L, R, t, P[a.left])
        /\ ~a.stopped => /\ a.before = Seen /\ a.conflicting = {x \in Seen : P[x] > P[a.left]}
                         /\ Fits(Seen, P, L, R, t, P[a.left])
    BY <2>2, <2>6, <1>1 DEF FitSoFar
  <2>8. Seen \subseteq I /\ c \in I /\ c \in Id
    BY <2>1, <2>2, <1>2, <1>3
  <2>9. c[1] \in Int /\ t[1] \in Int
    BY <2>8, <1>3, Ids
  <2>10. TurnDoes(t, oL, oR, a, b, c)
    BY <2>5, <2>7, <2>9, TurnGives
  <2>11. Acc(b) /\ b.stopped \in BOOLEAN
    BY <2>5, <2>7, <2>9, TurnOnce
  <2>12. oL[c] = L[c] /\ oR[c] = R[c] /\ oL[t] = L[t] /\ oR[t] = R[t]
    BY <2>8, <1>4
  <2>13. Looking(S, P, L, R, t, Seen, c, a.left)
    <3>1. \A x \in Seen : P[x] < P[c]
      <4>1. ASSUME NEW j \in 1..k PROVE P[sib[j]] < P[c]
        <5>1. j \in 1..Len(sib) /\ j < k + 1
          BY <2>1
        <5>2. QED BY <5>1, <2>1, <2>2, <1>2
      <4>2. QED BY <4>1, <2>2
    <3>2. \A x \in I \ (Seen \cup {c}) : P[c] < P[x]
      <4>1. ASSUME NEW j \in 1..Len(sib), sib[j] \notin Seen \cup {c} PROVE P[c] < P[sib[j]]
        <5>1. j \notin 1..k + 1
          BY <4>1, <2>3
        <5>2. k + 1 < j
          BY <5>1
        <5>3. QED BY <5>2, <2>1, <2>2, <1>2
      <4>2. QED BY <4>1, <1>2
    <3>3. c \notin Seen
      <4>1. P[c] \in Nat
        BY <2>8, <1>3, <1>6
      <4>2. QED BY <4>1, <3>1
    <3>4. QED BY <3>1, <3>2, <3>3, <2>7, <2>8, <1>1 DEF Looking
  <2>14. CASE a.stopped
    <3>1. b = a
      BY <2>10, <2>14 DEF TurnDoes
    <3>2. FitSoFar(b, k + 1, sib, S, P, L, R, t)
      BY <3>1, <2>3, <2>7, <2>14, <1>1 DEF FitSoFar
    <3>3. QED BY <3>2, <2>4
  <2>15. CASE ~a.stopped
    <3>1. PICK cf : cf = {x \in Seen : P[x] > P[a.left]}
      OBVIOUS
    <3>2. PICK bh \in BOOLEAN : bh <=> L[c] \in Seen \cup {c} /\ L[c] \notin cf \cup {c}
      OBVIOUS
    <3>3. a.before = Seen /\ a.conflicting = cf /\ Fits(Seen, P, L, R, t, P[a.left])
      BY <2>7, <2>15, <3>1
    <3>4. /\ L[c] = L[t] /\ c[1] < t[1] => Fits(Seen \cup {c}, P, L, R, t, P[c])
          /\ L[c] = L[t] /\ ~(c[1] < t[1]) /\ R[c] = R[t] => Fits(I, P, L, R, t, P[a.left])
          /\ L[c] = L[t] /\ ~(c[1] < t[1]) /\ R[c] # R[t] => Fits(Seen \cup {c}, P, L, R, t, P[a.left])
          /\ L[c] # L[t] /\ L[c] # None /\ bh => Fits(Seen \cup {c}, P, L, R, t, P[c])
          /\ L[c] # L[t] /\ L[c] # None /\ ~bh => Fits(Seen \cup {c}, P, L, R, t, P[a.left])
          /\ L[c] # L[t] /\ L[c] = None => Fits(I, P, L, R, t, P[a.left])
      <4>1. StillFits(S, P, L, R, t, Seen, c, a.left)
        BY <3>3, <2>13, TurnFits
      <4>2. QED BY <4>1, <3>1, <3>2, <1>1 DEF StillFits
    <3> DEFINE goAfter == /\ b.left = c /\ b.conflicting = {} /\ b.stopped = FALSE
                          /\ b.before = Seen \cup {c}
               pass == /\ b.left = a.left /\ b.conflicting = cf \cup {c} /\ b.stopped = FALSE
                       /\ b.before = Seen \cup {c}
               stop == b.left = a.left /\ b.stopped = TRUE
    <3>5. /\ L[c] = L[t] /\ c[1] < t[1] => goAfter
          /\ L[c] = L[t] /\ ~(c[1] < t[1]) /\ R[c] = R[t] => stop
          /\ L[c] = L[t] /\ ~(c[1] < t[1]) /\ R[c] # R[t] => pass
          /\ L[c] # L[t] /\ L[c] # None /\ bh => goAfter
          /\ L[c] # L[t] /\ L[c] # None /\ ~bh => pass
          /\ L[c] # L[t] /\ L[c] = None => stop
      BY <2>10, <2>12, <2>15, <3>2, <3>3 DEF TurnDoes
    <3>6. \/ goAfter /\ Fits(Seen \cup {c}, P, L, R, t, P[c])
          \/ pass /\ Fits(Seen \cup {c}, P, L, R, t, P[a.left])
          \/ stop /\ Fits(I, P, L, R, t, P[a.left])
      <4> HIDE DEF goAfter, pass, stop
      <4>1. QED BY <3>4, <3>5
    <3>7. P[a.left] < P[c] /\ P[c] \in Nat /\ P[a.left] \in Nat /\ \A x \in Seen : P[x] < P[c] /\ P[x] \in Nat
      <4>1. Known(S, P, L, R, t, Seen, c, a.left)
        BY <2>13, LookingAt
      <4>2. QED BY <4>1, <2>13, <1>6 DEF Known, Looking
    <3>8. CASE goAfter /\ Fits(Seen \cup {c}, P, L, R, t, P[c])
      <4>1. {x \in Seen \cup {c} : P[x] > P[b.left]} = {}
        BY <3>7, <3>8
      <4>2. FitSoFar(b, k + 1, sib, S, P, L, R, t)
        BY <4>1, <3>8, <2>3, <2>11 DEF FitSoFar
      <4>3. QED BY <4>2, <2>4
    <3>9. CASE pass /\ Fits(Seen \cup {c}, P, L, R, t, P[a.left])
      <4>1. {x \in Seen \cup {c} : P[x] > P[b.left]} = cf \cup {c}
        BY <3>1, <3>7, <3>9
      <4>2. FitSoFar(b, k + 1, sib, S, P, L, R, t)
        BY <4>1, <3>9, <2>3, <2>7, <2>11 DEF FitSoFar
      <4>3. QED BY <4>2, <2>4
    <3>10. CASE stop /\ Fits(I, P, L, R, t, P[a.left])
      <4>1. FitSoFar(b, k + 1, sib, S, P, L, R, t)
        BY <3>10, <2>3, <2>7, <2>11, <1>1 DEF FitSoFar
      <4>2. QED BY <4>1, <2>4
    <3> HIDE DEF goAfter, pass, stop
    <3>11. QED BY <3>6, <3>8, <3>9, <3>10
  <2>16. QED BY <2>7, <2>14, <2>15
<1>9. FitSoFar(acc[Len(sib)], Len(sib), sib, S, P, L, R, t)
  <2>1. Nat \subseteq W
    <3> HIDE DEF W
    <3>1. QED BY <1>7, <1>8, Induction
  <2>2. Len(sib) \in W /\ Len(sib) <= Len(sib)
    <3> HIDE DEF W
    <3>1. QED BY <2>1, <1>2
  <2>3. QED BY <2>2
<1>10. PICK a : a = acc[Len(sib)]
  OBVIOUS
<1>11. LeftAfterConflicts(t, sib, oL, oR) = a.left
  BY <1>5, <1>10 DEF Unrolled
<1>12. a.left \in {L[t]} \cup I /\ Fits(I, P, L, R, t, P[a.left])
  BY <1>1, <1>2, <1>9, <1>10 DEF FitSoFar
<1>13. QED BY <1>1, <1>11, <1>12

-----------------------------------------------------------------------------
(* The order of a replica's chain, when runs are of one id.                *)

Where(ch) == [i \in ToSet(ch) \cup {None} |-> Pos(ch, i)]
Lefts(rs) == [i \in DOMAIN rs |-> rs[i].left]
Rights(rs) == [i \in DOMAIN rs |-> rs[i].right]

SingleIds(rs) == \A h \in DOMAIN rs : h \in Id /\ rs[h].len = 1

\* The positions in a chain.
LEMMA WhereIs ==
  ASSUME NEW ch \in Seq(Id), Distinct(ch)
  PROVE  /\ \A p \in DOMAIN ch : ch[p] \in ToSet(ch) /\ Where(ch)[ch[p]] = p
         /\ \A i \in ToSet(ch) : Where(ch)[i] \in 1..Len(ch) /\ ch[Where(ch)[i]] = i
         /\ Where(ch)[None] = 0 /\ None \notin ToSet(ch)
         /\ \A i \in ToSet(ch) \cup {None} : Where(ch)[i] = Pos(ch, i) /\ Where(ch)[i] \in 0..Len(ch)
PROOF
<1>1. None \notin Id
  BY Ids
<1>2. /\ \A p \in DOMAIN ch : ch[p] \in ToSet(ch) /\ Pos(ch, ch[p]) = p
      /\ \A i \in ToSet(ch) : Pos(ch, i) \in 1..Len(ch) /\ ch[Pos(ch, i)] = i
      /\ Pos(ch, None) = 0 /\ None \notin ToSet(ch)
  BY <1>1, PosIs
<1>3. \A i \in ToSet(ch) \cup {None} : Where(ch)[i] = Pos(ch, i)
  BY DEF Where
<1>4. QED BY <1>2, <1>3

\* An id that is a run has no other.
LEMMA OneId ==
  ASSUME NEW h \in Id
  PROVE  RunIds(h, 1) = {h}
PROOF
<1>1. PICK c, n : c = h[1] /\ n = h[2]
  OBVIOUS
<1>2. h = <<c, n>> /\ n \in Nat
  BY <1>1, Ids
<1>3. RunIds(h, 1) = {c} \X (n..n + 1 - 1)
  BY <1>1 DEF RunIds
<1>4. n..n + 1 - 1 = {n}
  BY <1>2
<1>5. QED BY <1>2, <1>3, <1>4

\* Every item is a run, so its origins are the run's.
LEMMA OwnOrigins ==
  ASSUME NEW rs, SingleIds(rs), NEW i \in DOMAIN rs
  PROVE  OriginLeft(rs, i) = Lefts(rs)[i] /\ OriginRight(rs, i) = Rights(rs)[i]
PROOF
<1>1. PICK g : g = CHOOSE h \in DOMAIN rs : i \in RunIds(h, rs[h].len)
  OBVIOUS
<1>2. \A h \in DOMAIN rs : RunIds(h, rs[h].len) = {h}
  BY OneId DEF SingleIds
<1>3. g = i
  BY <1>1, <1>2
<1>4. OriginRight(rs, i) = rs[i].right
  BY <1>1, <1>3 DEF OriginRight
<1>5. QED BY <1>4 DEF OriginLeft, Lefts, Rights

\* The siblings are the items between the origins.
LEMMA SiblingsListed ==
  ASSUME NEW ch \in Seq(Id), Distinct(ch), NEW L, NEW R, NEW t,
         L[t] \in ToSet(ch) \cup {None}, R[t] \in ToSet(ch) \cup {None},
         NEW sib, sib = SiblingsBetween(ch, ToSet(ch), L[t], R[t])
  PROVE  Lists(sib, ToSet(ch), Where(ch), L, R, t)
PROOF
<1>1. PICK S, P, l, r : S = ToSet(ch) /\ P = Where(ch) /\ l = L[t] /\ r = R[t]
  OBVIOUS
<1>2. /\ \A p \in DOMAIN ch : ch[p] \in S /\ P[ch[p]] = p
      /\ \A i \in S : P[i] \in 1..Len(ch) /\ ch[P[i]] = i
      /\ P[None] = 0 /\ None \notin S
      /\ \A i \in S \cup {None} : P[i] = Pos(ch, i) /\ P[i] \in 0..Len(ch)
  BY <1>1, WhereIs
<1>3. sib \in Seq(S)
  <2>1. sib \in Seq(ToSet(ch) \cap ToSet(ch))
    BY SiblingsIn
  <2>2. QED BY <2>1, <1>1
<1>4. PICK a, b : a = P[l] + 1 /\ b = IF r = None THEN Len(ch) ELSE P[r] - 1
  OBVIOUS
<1>5. l \in S \cup {None} /\ r \in S \cup {None} /\ Len(ch) \in Nat
  BY <1>1
<1>6. a \in Nat \ {0} /\ b \in Nat /\ b <= Len(ch)
  BY <1>2, <1>4, <1>5
<1>7. PICK s : s = SubSeq(ch, a, b)
  OBVIOUS
<1>8. /\ s \in Seq(Id)
      /\ Len(s) = IF a <= b THEN b - a + 1 ELSE 0
      /\ \A q \in 1..Len(s) : s[q] = ch[q + a - 1]
  <2>1. /\ SubSeq(ch, a, b) \in Seq(Id)
        /\ Len(SubSeq(ch, a, b)) = IF a <= b THEN b - a + 1 ELSE 0
        /\ \A q \in 1..Len(SubSeq(ch, a, b)) : SubSeq(ch, a, b)[q] = ch[q + a - 1]
    BY <1>6, SliceIs
  <2>2. QED BY <2>1, <1>7
<1>9. sib = Among(s, S)
  <2>1. Pos(ch, l) = P[l] /\ (r # None => Pos(ch, r) = P[r])
    BY <1>2, <1>5
  <2>2. sib = Among(SubSeq(ch, Pos(ch, l) + 1, IF r = None THEN Len(ch) ELSE Pos(ch, r) - 1), S)
    BY <1>1 DEF SiblingsBetween
  <2>3. QED BY <2>1, <2>2, <1>4, <1>7
<1>10. PICK f : Picks(sib, s, S, Len(s), f)
  BY <1>8, <1>9, AmongPicks
<1>11. PICK m \in Nat : m = Len(sib)
  BY <1>3
<1>12. /\ f \in [1..m -> 1..Len(s)]
       /\ \A k \in 1..m : sib[k] = s[f[k]]
       /\ \A j, k \in 1..m : j < k => f[j] < f[k]
       /\ \A q \in 1..Len(s) : s[q] \in S => \E k \in 1..m : f[k] = q
  BY <1>10, <1>11 DEF Picks
<1>13. \A k \in 1..m : sib[k] \in S /\ P[sib[k]] = f[k] + P[l] /\ f[k] \in 1..Len(s)
  <2>1. ASSUME NEW k \in 1..m PROVE sib[k] \in S /\ P[sib[k]] = f[k] + P[l] /\ f[k] \in 1..Len(s)
    <3>1. f[k] \in 1..Len(s) /\ sib[k] = s[f[k]]
      BY <1>12
    <3>2. P[l] \in Nat /\ f[k] \in Nat /\ f[k] + a - 1 = f[k] + P[l]
      <4>1. P[l] \in Nat
        BY <1>2, <1>5
      <4>2. f[k] \in Nat
        BY <3>1, <1>8
      <4>3. QED BY <4>1, <4>2, <1>4
    <3>3. f[k] + P[l] \in 1..Len(ch)
      <4>1. PICK x, y, n : x = f[k] /\ y = P[l] /\ n = Len(s)
        OBVIOUS
      <4>2. x \in 1..n /\ y \in Nat /\ a = y + 1 /\ (n = IF a <= b THEN b - a + 1 ELSE 0)
        BY <4>1, <3>1, <3>2, <1>4, <1>8
      <4>3. x + y <= b /\ x + y >= 1 /\ x + y \in Nat
        BY <4>2, <1>6
      <4>4. QED BY <4>1, <4>3, <1>5, <1>6
    <3>4. sib[k] = ch[f[k] + P[l]]
      BY <3>1, <3>2, <1>8
    <3>5. QED BY <3>1, <3>3, <3>4, <1>2
  <2>2. QED BY <2>1
<1>14. \A j, k \in 1..m : j < k => P[sib[j]] < P[sib[k]]
  <2>1. P[l] \in Nat /\ Len(s) \in Nat
    BY <1>2, <1>5, <1>8
  <2>2. ASSUME NEW j \in 1..m, NEW k \in 1..m, j < k PROVE P[sib[j]] < P[sib[k]]
    <3>1. P[sib[j]] = f[j] + P[l] /\ P[sib[k]] = f[k] + P[l] /\ f[j] \in 1..Len(s) /\ f[k] \in 1..Len(s)
      BY <1>13
    <3>2. f[j] < f[k]
      BY <2>2, <1>12
    <3>3. QED BY <3>1, <3>2, <2>1
  <2>3. QED BY <2>2
<1>15. PICK I : I = InBetween(S, P, L, R, t)
  OBVIOUS
<1>16. I = {x \in S : P[l] < P[x] /\ (r # None => P[x] < P[r])}
  BY <1>1, <1>15 DEF InBetween
<1>17. ASSUME NEW k \in 1..m PROVE sib[k] \in I
  <2>1. f[k] \in 1..Len(s) /\ P[sib[k]] = f[k] + P[l] /\ sib[k] \in S
    BY <1>13
  <2>2. P[l] \in Nat /\ a <= b /\ f[k] <= b - a + 1 /\ f[k] > 0 /\ f[k] \in Nat
    <3>1. P[l] \in Nat
      BY <1>2, <1>5
    <3>2. PICK z, n : z = f[k] /\ n = Len(s)
      OBVIOUS
    <3>3. z \in 1..n /\ n = IF a <= b THEN b - a + 1 ELSE 0
      BY <3>2, <2>1, <1>8
    <3>4. a <= b /\ z <= b - a + 1 /\ z > 0 /\ z \in Nat
      BY <3>3, <1>6
    <3>5. QED BY <3>1, <3>2, <3>4
  <2>3. f[k] + P[l] > P[l] /\ f[k] + P[l] <= b
    <3>1. PICK z, y : z = f[k] /\ y = P[l]
      OBVIOUS
    <3>2. z \in Nat /\ y \in Nat /\ z > 0 /\ z <= b - a + 1 /\ a = y + 1
      BY <3>1, <2>2, <1>4
    <3>3. z + y > y /\ z + y <= b
      BY <3>2, <1>6
    <3>4. QED BY <3>1, <3>3
  <2>4. r # None => f[k] + P[l] < P[r]
    BY <2>2, <2>3, <1>2, <1>4, <1>5
  <2>5. QED BY <2>1, <2>3, <2>4, <1>16
<1>18. ASSUME NEW x \in I PROVE \E k \in 1..m : sib[k] = x
  <2>1. x \in S /\ P[l] < P[x] /\ (r # None => P[x] < P[r]) /\ P[x] \in 1..Len(ch) /\ ch[P[x]] = x
    BY <1>2, <1>16
  <2>2. P[l] \in Nat /\ (r # None => P[r] \in Nat)
    BY <1>2, <1>5
  <2>3. P[x] <= b /\ P[x] >= a
    BY <2>1, <2>2, <1>4
  <2>4. P[x] - P[l] \in 1..Len(s) /\ (P[x] - P[l]) + a - 1 = P[x]
    <3>1. PICK z, y, n : z = P[x] /\ y = P[l] /\ n = Len(s)
      OBVIOUS
    <3>2. z \in Nat /\ y \in Nat /\ a = y + 1 /\ (n = IF a <= b THEN b - a + 1 ELSE 0) /\ a <= z /\ z <= b
      BY <3>1, <2>1, <2>2, <2>3, <1>4, <1>5, <1>8
    <3>3. z - y \in 1..n /\ (z - y) + a - 1 = z
      <4>1. n = b - a + 1 /\ b \in Nat /\ a \in Nat
        BY <3>2, <1>6
      <4>2. z - y <= n /\ z - y >= 1 /\ z - y \in Int /\ (z - y) + a - 1 = z
        BY <3>2, <4>1
      <4>3. QED BY <4>1, <4>2
    <3>4. QED BY <3>1, <3>3
  <2>5. s[P[x] - P[l]] = x
    BY <2>1, <2>4, <1>8
  <2>6. PICK q : q = P[x] - P[l]
    OBVIOUS
  <2>7. q \in 1..Len(s) /\ s[q] = x /\ s[q] \in S
    BY <2>1, <2>4, <2>5, <2>6
  <2>8. PICK k \in 1..m : f[k] = q
    BY <2>7, <1>12
  <2>9. sib[k] = s[f[k]]
    BY <1>12
  <2>10. QED BY <2>7, <2>8, <2>9
<1>19. {sib[k] : k \in 1..m} = I
  BY <1>17, <1>18
<1>20. QED BY <1>1, <1>3, <1>11, <1>14, <1>15, <1>19 DEF Lists

\* The position an item is linked in at fits.
LEMMA PlaceFits ==
  ASSUME NEW ch \in Seq(Id), Distinct(ch), NEW rs, SingleIds(rs), ToSet(ch) \subseteq DOMAIN rs,
         NEW t \in DOMAIN rs, NEW S, S = ToSet(ch), NEW P, P = Where(ch),
         NEW L, L = Lefts(rs), NEW R, R = Rights(rs),
         Rules(S, P, L, R), NewItem(S, P, L, R, t),
         NEW p, p = PlaceEnd(ch, S, rs, t)
  PROVE  /\ p \in 0..Len(ch) /\ P[L[t]] <= p /\ (R[t] # None => p < P[R[t]])
         /\ Fits(InBetween(S, P, L, R, t), P, L, R, t, p)
PROOF
<1>1. PICK l, r, I : l = L[t] /\ r = R[t] /\ I = InBetween(S, P, L, R, t)
  OBVIOUS
<1>2. l = rs[t].left /\ r = rs[t].right
  BY <1>1 DEF Lefts, Rights
<1>3. S \subseteq Id /\ t \in Id /\ None \notin Id
  BY Ids DEF ToSet, SingleIds
<1>4. l \in S \cup {None} /\ r \in S \cup {None} /\ (r # None => P[l] < P[r])
  BY <1>1 DEF NewItem
<1>5. PICK sib : sib = SiblingsBetween(ch, S, l, r)
  OBVIOUS
<1>6. Lists(sib, S, P, L, R, t)
  BY <1>1, <1>4, <1>5, SiblingsListed
<1>7. ToSet(sib) = I
  <2>1. sib \in Seq(S) /\ {sib[k] : k \in 1..Len(sib)} = I
    BY <1>1, <1>6 DEF Lists
  <2>2. DOMAIN sib = 1..Len(sib)
    BY <2>1
  <2>3. ToSet(sib) = {sib[k] : k \in DOMAIN sib}
    BY DEF ToSet
  <2>4. QED BY <2>1, <2>2, <2>3
<1>8. PICK nodes : nodes = I \cup {t}
  OBVIOUS
<1>9. PICK oL, oR : oL = [i \in nodes |-> OriginLeft(rs, i)] /\ oR = [i \in nodes |-> OriginRight(rs, i)]
  OBVIOUS
<1>10. I \subseteq S /\ \A x \in I : P[l] < P[x] /\ (r # None => P[x] < P[r])
  BY <1>1 DEF InBetween
<1>11. \A i \in nodes : oL[i] = L[i] /\ oR[i] = R[i]
  BY <1>8, <1>9, <1>10, OwnOrigins
<1>12. PICK after : after = LeftAfterConflicts(t, sib, oL, oR)
  OBVIOUS
<1>13. after = PlaceAfter(ch, S, rs, t)
  BY <1>2, <1>5, <1>7, <1>8, <1>9, <1>12 DEF PlaceAfter, Resolve, SiblingsBetween
<1>14. after \in {l} \cup I /\ Fits(I, P, L, R, t, P[after])
  <2>1. \A i \in S \cup {t} : i \in InBetween(S, P, L, R, t) \cup {t} => oL[i] = L[i] /\ oR[i] = R[i]
    BY <1>1, <1>8, <1>11
  <2>2. QED BY <2>1, <1>1, <1>3, <1>6, <1>12, LoopFits
<1>15. p = P[after]
  <2>1. p = Pos(ch, IF after = l THEN after ELSE EndOf(ch, S, after))
    BY <1>2, <1>13 DEF PlaceEnd
  <2>2. ASSUME after # l PROVE EndOf(ch, S, after) = after
    <3>1. after \in S
      BY <2>2, <1>10, <1>14
    <3>2. PICK e : e = EndOf(ch, S, after)
      OBVIOUS
    <3>3. e \in NodeFrom(ch, S, after)
      BY <3>1, <3>2, EndExists
    <3>4. /\ e \in S /\ e[1] = after[1] /\ e[2] >= after[2]
          /\ \A k \in after[2] + 1..e[2] : <<e[1], k>> \notin S
      BY <3>3 DEF NodeFrom
    <3>5. /\ e = <<e[1], e[2]>> /\ e[2] \in Nat
          /\ after = <<after[1], after[2]>> /\ after[2] \in Nat
      BY <3>1, <3>4, <1>3, Ids
    <3>6. ~(e[2] > after[2])
      <4>1. e[2] > after[2] => e[2] \in after[2] + 1..e[2]
        BY <3>5
      <4>2. QED BY <4>1, <3>4, <3>5
    <3>7. e[2] = after[2]
      BY <3>4, <3>5, <3>6
    <3>8. QED BY <3>2, <3>4, <3>5, <3>7
  <2>3. p = Pos(ch, after)
    BY <2>1, <2>2
  <2>4. after \in S \cup {None}
    BY <1>4, <1>10, <1>14
  <2>5. QED BY <2>3, <2>4, WhereIs
<1>16. \A i \in S \cup {None} : P[i] \in 0..Len(ch)
  BY WhereIs
<1>17. p \in 0..Len(ch) /\ P[l] <= p /\ (r # None => p < P[r])
  <2>1. CASE after = l
    BY <2>1, <1>4, <1>15, <1>16
  <2>2. CASE after # l
    <3>1. after \in I /\ P[after] \in 0..Len(ch) /\ P[l] \in 0..Len(ch)
      BY <2>2, <1>4, <1>10, <1>14, <1>16
    <3>2. QED BY <3>1, <1>10, <1>15
  <2>3. QED BY <2>1, <2>2
<1>18. QED BY <1>1, <1>14, <1>15, <1>17

\* Linking in one id moves those behind it by one.
LEMMA WhereSpliced ==
  ASSUME NEW ch \in Seq(Id), Distinct(ch), NEW p \in 0..Len(ch), NEW t \in Id, t \notin ToSet(ch)
  PROVE  /\ ToSet(Splice(ch, p, NewIds(t, 1))) = ToSet(ch) \cup {t}
         /\ Where(Splice(ch, p, NewIds(t, 1))) = Shifted(ToSet(ch), Where(ch), t, p)
PROOF
<1>1. PICK new : new = NewIds(t, 1)
  OBVIOUS
<1>2. RunIds(t, 1) = {t}
  BY OneId
<1>3. PICK n : n = 1
  OBVIOUS
<1>4. n \in Nat \ {0} /\ n \in Nat
  BY <1>3
<1>5. new \in Seq(Id) /\ Len(new) = n /\ ToSet(new) = {t} /\ Distinct(new) /\ new[1] = t
  <2>1. NewIds(t, n) = new /\ RunIds(t, n) = {t}
    BY <1>3, <1>1, <1>2
  <2>2. QED BY <2>1, <1>4, NewIdsAre
<1>6. PICK d : d = Splice(ch, p, new)
  OBVIOUS
<1>7. Splice(ch, p, new) \in Seq(Id) /\ Spliced(ch, p, n, new, Splice(ch, p, new))
  BY <1>5, <1>4, SpliceIs
<1>8. /\ d \in Seq(Id) /\ Len(d) = Len(ch) + 1
      /\ \A q \in 1..p : d[q] = ch[q]
      /\ d[p + 1] = t
      /\ \A q \in p + 1..Len(ch) : d[q + 1] = ch[q]
  <2>1. d \in Seq(Id) /\ Spliced(ch, p, n, new, d)
    BY <1>6, <1>7
  <2>2. /\ Len(d) = Len(ch) + n
        /\ \A q \in 1..p : d[q] = ch[q]
        /\ \A k \in 1..n : d[p + k] = new[k]
        /\ \A q \in p + 1..Len(ch) : d[q + n] = ch[q]
    BY <2>1 DEF Spliced
  <2>3. d[p + n] = new[n]
    BY <2>2, <1>3
  <2>4. QED BY <2>1, <2>2, <2>3, <1>3, <1>5
<1>9. ToSet(d) = ToSet(ch) \cup {t} /\ Distinct(d)
  <2>1. ToSet(ch) \cap ToSet(new) = {}
    BY <1>5
  <2>2. ToSet(Splice(ch, p, new)) = ToSet(ch) \cup ToSet(new) /\ Distinct(Splice(ch, p, new))
    BY <2>1, <1>5, <1>4, SpliceSet
  <2>3. QED BY <2>2, <1>5, <1>6
<1>10. PICK P, U : P = Where(ch) /\ U = Where(d)
  OBVIOUS
<1>11. /\ \A q \in DOMAIN d : U[d[q]] = q
      /\ U[None] = 0
  BY <1>8, <1>9, <1>10, WhereIs
<1>12. /\ \A i \in ToSet(ch) : P[i] \in 1..Len(ch) /\ ch[P[i]] = i
       /\ P[None] = 0 /\ None \notin ToSet(ch)
  BY <1>10, WhereIs
<1>13. DOMAIN d = 1..Len(ch) + 1 /\ Len(ch) \in Nat
  BY <1>8
<1>14. U[t] = p + 1
  <2>1. p + 1 \in DOMAIN d
    BY <1>13
  <2>2. QED BY <2>1, <1>8, <1>11
<1>15. ASSUME NEW i \in ToSet(ch) PROVE U[i] = IF P[i] > p THEN P[i] + 1 ELSE P[i]
  <2>1. P[i] \in 1..Len(ch) /\ ch[P[i]] = i
    BY <1>12
  <2>2. CASE P[i] > p
    <3>1. P[i] \in p + 1..Len(ch) /\ P[i] + 1 \in DOMAIN d
      BY <2>1, <2>2, <1>13
    <3>2. d[P[i] + 1] = i
      BY <2>1, <3>1, <1>8
    <3>3. QED BY <2>2, <3>1, <3>2, <1>11
  <2>3. CASE ~(P[i] > p)
    <3>1. P[i] \in 1..p /\ P[i] \in DOMAIN d
      BY <2>1, <2>3, <1>13
    <3>2. d[P[i]] = i
      BY <2>1, <3>1, <1>8
    <3>3. QED BY <2>3, <3>1, <3>2, <1>11
  <2>4. QED BY <2>2, <2>3
<1>16. U = Shifted(ToSet(ch), P, t, p)
  <2>1. U = [i \in (ToSet(ch) \cup {t}) \cup {None} |-> U[i]]
    <3>1. U = [i \in ToSet(d) \cup {None} |-> Pos(d, i)]
      BY <1>10 DEF Where
    <3>2. QED BY <3>1, <1>9
  <2>2. ASSUME NEW i \in (ToSet(ch) \cup {t}) \cup {None}
        PROVE  U[i] = IF i = t THEN p + 1 ELSE IF P[i] > p THEN P[i] + 1 ELSE P[i]
    <3>1. t # None
      BY Ids
    <3>2. P[None] = 0 /\ U[None] = 0 /\ ~(0 > p)
      BY <1>11, <1>12
    <3>3. QED BY <3>1, <3>2, <1>14, <1>15
  <2>3. QED BY <2>1, <2>2 DEF Shifted
<1>17. QED BY <1>1, <1>6, <1>9, <1>10, <1>16

\* The order is about the origins of the items there are.
LEMMA RulesOf ==
  ASSUME NEW S, NEW P, NEW L, NEW R, NEW L2, NEW R2, Rules(S, P, L, R),
         \A i \in S : L2[i] = L[i] /\ R2[i] = R[i]
  PROVE  Rules(S, P, L2, R2)
PROOF
<1>1. Places(S, P)
  BY DEF Rules
<1>2. BetweenOrigins(S, P, L2, R2)
  BY DEF Rules, BetweenOrigins
<1>3. NoCross(S, P, L2)
  BY DEF Rules, NoCross
<1>4. TieBreak(S, P, L2, R2)
  BY DEF Rules, TieBreak
<1>5. RightOrigin(S, P, L2, R2)
  <2>1. ASSUME NEW a \in S, R2[a] # None PROVE P[L2[R2[a]]] <= P[L2[a]]
    <3>1. R[a] # None /\ R[a] \in S /\ L2[a] = L[a] /\ R2[a] = R[a]
      BY <2>1 DEF Rules, BetweenOrigins
    <3>2. P[L[R[a]]] <= P[L[a]]
      BY <3>1 DEF Rules, RightOrigin
    <3>3. QED BY <3>1, <3>2
  <2>2. QED BY <2>1 DEF RightOrigin
<1>6. OwnItemsApart(S, P, L2, R2)
  BY DEF Rules, OwnItemsApart
<1>7. QED BY <1>1, <1>2, <1>3, <1>4, <1>5, <1>6 DEF Rules

\* Sequences of the same elements in the same order are the same.
LEMMA SameSeq ==
  ASSUME NEW a \in Seq(Id), NEW b \in Seq(Id), Distinct(a), Distinct(b), ToSet(a) = ToSet(b),
         \A i, j \in ToSet(a) : Where(a)[i] < Where(a)[j] <=> Where(b)[i] < Where(b)[j]
  PROVE  a = b
PROOF
<1>1. Len(a) = Len(b) /\ Len(a) \in Nat
  BY DistinctLen
<1> SUFFICES ASSUME a # b PROVE FALSE
  OBVIOUS
<1>2. {q \in 1..Len(a) : a[q] # b[q]} # {}
  <2> SUFFICES ASSUME \A q \in 1..Len(a) : a[q] = b[q] PROVE a = b
    OBVIOUS
  <2>1. QED BY <1>1
<1>3. PICK q \in {q \in 1..Len(a) : a[q] # b[q]} : \A k \in {q2 \in 1..Len(a) : a[q2] # b[q2]} : q <= k
  <2>1. {q \in 1..Len(a) : a[q] # b[q]} \subseteq Nat
    BY <1>1
  <2>2. QED BY <2>1, <1>2, LeastOf
<1>4. \A k \in 1..Len(a) : k < q => a[k] = b[k]
  BY <1>3
<1>5. PICK x, y : x = a[q] /\ y = b[q]
  OBVIOUS
<1>6. PICK P, Q : P = Where(a) /\ Q = Where(b)
  OBVIOUS
<1>7. /\ \A p \in DOMAIN a : a[p] \in ToSet(a) /\ P[a[p]] = p
      /\ \A i \in ToSet(a) : P[i] \in 1..Len(a) /\ a[P[i]] = i
  BY <1>6, WhereIs
<1>8. /\ \A p \in DOMAIN b : b[p] \in ToSet(a) /\ Q[b[p]] = p
      /\ \A i \in ToSet(a) : Q[i] \in 1..Len(a) /\ b[Q[i]] = i
  BY <1>1, <1>6, WhereIs
<1>9. DOMAIN a = 1..Len(a) /\ DOMAIN b = 1..Len(a)
  BY <1>1
<1>10. x \in ToSet(a) /\ y \in ToSet(a) /\ P[x] = q /\ Q[y] = q /\ x # y /\ q \in Nat
  BY <1>1, <1>3, <1>5, <1>7, <1>8, <1>9
<1>11. ~(Q[x] < q)
  <2> SUFFICES ASSUME Q[x] < q PROVE FALSE
    OBVIOUS
  <2>1. Q[x] \in 1..Len(a) /\ b[Q[x]] = x /\ a[Q[x]] = b[Q[x]]
    BY <1>4, <1>8, <1>10
  <2>2. P[x] = Q[x]
    BY <2>1, <1>7, <1>9
  <2>3. QED BY <2>2, <1>10
<1>12. Q[x] # q
  BY <1>5, <1>8, <1>10
<1>13. Q[y] < Q[x]
  BY <1>8, <1>10, <1>11, <1>12
<1>14. P[y] < P[x]
  BY <1>6, <1>10, <1>13
<1>15. P[y] \in 1..Len(a) /\ a[P[y]] = y /\ b[P[y]] = a[P[y]]
  BY <1>4, <1>7, <1>10, <1>14
<1>16. Q[y] = P[y]
  BY <1>15, <1>8, <1>9
<1>17. QED BY <1>10, <1>14, <1>16

-----------------------------------------------------------------------------
(* The invariant of items typed one at a time.                             *)

NoGap(here) == \A i \in here : \A k \in 0..i[2] - 1 : <<i[1], k>> \in here

Ordered ==
  /\ \A r \in Client :
        /\ starts[r] = ToSet(chain[r]) /\ deleted[r] = UNION applied[r]
        /\ NoGap(ToSet(chain[r]))
        /\ Rules(ToSet(chain[r]), Where(chain[r]), Lefts(runs), Rights(runs))
  /\ \E rk : OriginsOlder(DOMAIN runs, Lefts(runs), Rights(runs), rk)

OrderInv == ListInv /\ (OneByOne => Ordered)

\* Typed one at a time, every id is a run of its own.
LEMMA Singles ==
  ASSUME ListInv, OneByOne
  PROVE  /\ SingleIds(runs)
         /\ \A h \in DOMAIN runs : IdsOf(h) = {h}
         /\ \A r \in Client : /\ chain[r] \in Seq(Id) /\ Distinct(chain[r])
                              /\ ToSet(chain[r]) \subseteq DOMAIN runs /\ ToSet(chain[r]) \subseteq Id
PROOF
<1>1. SingleIds(runs)
  BY DEF ListInv, RunsOK, OneByOne, SingleIds
<1>2. \A h \in DOMAIN runs : IdsOf(h) = {h}
  BY <1>1, OneId DEF SingleIds, IdsOf
<1>3. ASSUME NEW r \in Client
      PROVE  /\ chain[r] \in Seq(Id) /\ Distinct(chain[r])
             /\ ToSet(chain[r]) \subseteq DOMAIN runs /\ ToSet(chain[r]) \subseteq Id
  <2>1. chain[r] \in Seq(Id) /\ Distinct(chain[r])
    BY DEF ListInv, Shapes, Sound
  <2>2. ToSet(chain[r]) \subseteq Id
    BY <2>1 DEF ToSet
  <2>3. ToSet(chain[r]) \subseteq DOMAIN runs
    BY <1>2 DEF ListInv, Holds
  <2>4. QED BY <2>1, <2>2, <2>3
<1>4. QED BY <1>1, <1>2, <1>3

\* It holds at the start,
LEMMA OrderInit == ListInit => OrderInv
PROOF
<1> SUFFICES ASSUME ListInit PROVE OrderInv
  OBVIOUS
<1>1. ListInv
  BY ListInitInv
<1>2. runs = <<>> /\ DOMAIN runs = {}
  BY DEF ListInit
<1>3. ASSUME NEW r \in Client
      PROVE  /\ starts[r] = ToSet(chain[r]) /\ deleted[r] = UNION applied[r]
             /\ NoGap(ToSet(chain[r]))
             /\ Rules(ToSet(chain[r]), Where(chain[r]), Lefts(runs), Rights(runs))
  <2>1. chain[r] = <<>> /\ ToSet(chain[r]) = {} /\ starts[r] = {} /\ deleted[r] = {} /\ applied[r] = {}
    BY DEF ListInit, ToSet
  <2>2. PICK P : P = Where(chain[r])
    OBVIOUS
  <2>3. P = [i \in {} \cup {None} |-> Pos(chain[r], i)] /\ Pos(chain[r], None) = 0
    BY <2>1, <2>2 DEF Where, Pos
  <2>4. Places({}, P)
    BY <2>3 DEF Places
  <2>5. Rules({}, P, Lefts(runs), Rights(runs))
    BY <2>4 DEF Rules, BetweenOrigins, NoCross, TieBreak, RightOrigin, OwnItemsApart
  <2>6. QED BY <2>1, <2>2, <2>5 DEF NoGap
<1>4. OriginsOlder(DOMAIN runs, Lefts(runs), Rights(runs), [i \in {} |-> 0])
  BY <1>2 DEF OriginsOlder
<1>5. QED BY <1>1, <1>3, <1>4 DEF OrderInv, Ordered

\* The replica an item is linked in on.
LEMMA LinkedKeepsOrder ==
  ASSUME NEW r \in Client, chain[r] \in Seq(Id), Distinct(chain[r]), starts[r] = ToSet(chain[r]),
         NEW rs, SingleIds(rs), ToSet(chain[r]) \subseteq DOMAIN rs, NEW t \in DOMAIN rs,
         NEW L, L = Lefts(rs), NEW R, R = Rights(rs),
         Rules(ToSet(chain[r]), Where(chain[r]), L, R),
         NewItem(ToSet(chain[r]), Where(chain[r]), L, R, t),
         NEW q, LinkedIn(r, t, rs, q)
  PROVE  /\ Rules(ToSet(chain'[r]), Where(chain'[r]), L, R)
         /\ ToSet(chain'[r]) = ToSet(chain[r]) \cup {t}
         /\ starts'[r] = ToSet(chain'[r]) /\ deleted'[r] = deleted[r]
PROOF
<1>1. PICK ch, S, P, d : ch = chain[r] /\ S = ToSet(ch) /\ P = Where(ch) /\ d = chain'[r]
  OBVIOUS
<1>2. t \in Id /\ rs[t].len = 1 /\ t \notin S
  BY <1>1 DEF SingleIds, NewItem
<1>3. /\ q = PlaceEnd(ch, S, rs, t) /\ d = Splice(ch, q, NewIds(t, 1))
      /\ starts'[r] = S \cup {t} /\ deleted'[r] = deleted[r]
  BY <1>1, <1>2 DEF LinkedIn
<1>4. S \subseteq Id
  BY <1>1 DEF ToSet
<1>5. /\ q \in 0..Len(ch) /\ P[L[t]] <= q /\ (R[t] # None => q < P[R[t]])
      /\ Fits(InBetween(S, P, L, R, t), P, L, R, t, q)
  BY <1>1, <1>3, PlaceFits
<1>6. q \in Nat
  BY <1>5
<1>7. Rules(S \cup {t}, Shifted(S, P, t, q), L, R)
  BY <1>1, <1>4, <1>5, <1>6, LinkedInOrder
<1>8. ToSet(d) = S \cup {t} /\ Where(d) = Shifted(S, P, t, q)
  BY <1>1, <1>2, <1>3, <1>5, WhereSpliced
<1>9. QED BY <1>1, <1>3, <1>7, <1>8

\* A replica nothing is linked in on keeps its order.
LEMMA OldOrder ==
  ASSUME ListInv, OneByOne, Ordered, NEW s \in Client, NEW rs,
         \A h \in DOMAIN runs : h \in DOMAIN rs /\ rs[h] = runs[h]
  PROVE  Rules(ToSet(chain[s]), Where(chain[s]), Lefts(rs), Rights(rs))
PROOF
<1>1. PICK S : S = ToSet(chain[s])
  OBVIOUS
<1>2. PICK L, R, L2, R2 : L = Lefts(runs) /\ R = Rights(runs) /\ L2 = Lefts(rs) /\ R2 = Rights(rs)
  OBVIOUS
<1>3. S \subseteq DOMAIN runs
  BY <1>1, Singles
<1>4. \A i \in S : L2[i] = L[i] /\ R2[i] = R[i]
  BY <1>2, <1>3 DEF Lefts, Rights
<1>5. Rules(S, Where(chain[s]), L, R)
  BY <1>1, <1>2 DEF Ordered
<1>6. Rules(S, Where(chain[s]), L2, R2)
  BY <1>4, <1>5, RulesOf
<1>7. QED BY <1>1, <1>2, <1>6

\* What an author knows of the item it types.
LEMMA TypedFits ==
  ASSUME ListInv, OneByOne, Ordered, NEW r \in Client, NEW p \in 0..Len(chain[r]), NEW len,
         NEW t, NEW rs, NEW n, Typed(r, p, len, t, rs, n), OneByOne'
  PROVE  /\ len = 1 /\ SingleIds(rs) /\ DOMAIN rs = DOMAIN runs \cup {t}
         /\ \A h \in DOMAIN runs : rs[h] = runs[h]
         /\ NewItem(ToSet(chain[r]), Where(chain[r]), Lefts(rs), Rights(rs), t)
         /\ NoGap(ToSet(chain[r]) \cup {t})
PROOF
<1>1. /\ NewRun(r, p, len, t, rs)
      /\ t \in Id /\ t \notin DOMAIN runs
      /\ n \in Nat /\ t = <<r, n>>
      /\ {i \in ToSet(chain[r]) : i[1] = r} = {r} \X (0..n - 1)
      /\ runs' = rs /\ rs[t].len = len
      /\ rs[t].left = IF p = 0 THEN None ELSE chain[r][p]
      /\ rs[t].right = IF p = Len(chain[r]) THEN None ELSE chain[r][p + 1]
  BY DEF Typed
<1>2. DOMAIN rs = DOMAIN runs \cup {t} /\ \A h \in DOMAIN runs : rs[h] = runs[h]
  BY <1>1 DEF NewRun
<1>3. len = 1
  BY <1>1, <1>2 DEF OneByOne
<1>4. SingleIds(runs) /\ chain[r] \in Seq(Id) /\ Distinct(chain[r]) /\ ToSet(chain[r]) \subseteq DOMAIN runs
      /\ ToSet(chain[r]) \subseteq Id
  BY Singles
<1>5. SingleIds(rs)
  BY <1>1, <1>2, <1>3, <1>4 DEF SingleIds
<1>6. PICK ch, S, P, L, R : ch = chain[r] /\ S = ToSet(ch) /\ P = Where(ch) /\ L = Lefts(rs) /\ R = Rights(rs)
  OBVIOUS
<1>7. Rules(S, P, L, R)
  BY <1>2, <1>6, OldOrder
<1>8. /\ \A k \in DOMAIN ch : ch[k] \in S /\ P[ch[k]] = k
      /\ \A i \in S : P[i] \in 1..Len(ch) /\ ch[P[i]] = i
      /\ P[None] = 0 /\ None \notin S
      /\ \A i \in S \cup {None} : P[i] \in 0..Len(ch)
  BY <1>4, <1>6, WhereIs
<1>9. PICK l, x : l = L[t] /\ x = R[t]
  OBVIOUS
<1>10. l = (IF p = 0 THEN None ELSE ch[p]) /\ x = (IF p = Len(ch) THEN None ELSE ch[p + 1])
  BY <1>1, <1>2, <1>6, <1>9 DEF Lefts, Rights
<1>11. DOMAIN ch = 1..Len(ch) /\ Len(ch) \in Nat /\ p \in 0..Len(ch)
  BY <1>4, <1>6
<1>12. l \in S \cup {None} /\ P[l] = p
  BY <1>8, <1>10, <1>11
<1>13. /\ x \in S \cup {None}
       /\ x # None <=> p < Len(ch)
       /\ x # None => P[x] = p + 1
  <2>1. CASE p = Len(ch)
    BY <2>1, <1>10, <1>11
  <2>2. CASE p # Len(ch)
    <3>1. p + 1 \in DOMAIN ch /\ p < Len(ch)
      <4>1. PICK m : m = Len(ch)
        OBVIOUS
      <4>2. p + 1 \in 1..m /\ p < m
        BY <4>1, <2>2, <1>11
      <4>3. QED BY <4>1, <4>2, <1>11
    <3>2. x = ch[p + 1]
      BY <2>2, <1>10
    <3>3. x \in S /\ P[x] = p + 1
      BY <3>1, <3>2, <1>8
    <3>4. QED BY <3>1, <3>3, <1>8
  <2>3. QED BY <2>1, <2>2
<1>14. x # None => P[l] < P[x] /\ P[L[x]] <= P[l]
  <2> SUFFICES ASSUME x # None PROVE P[l] < P[x] /\ P[L[x]] <= P[l]
    OBVIOUS
  <2>1. P[L[x]] < P[x] /\ L[x] \in S \cup {None}
    BY <1>7, <1>13 DEF Rules, BetweenOrigins
  <2>2. P[L[x]] \in 0..Len(ch) /\ P[x] = p + 1 /\ P[l] = p
    BY <2>1, <1>8, <1>12, <1>13
  <2>3. QED BY <2>1, <2>2, <1>11
<1>15. ASSUME NEW a \in S, a[1] = t[1]
       PROVE  a[2] < t[2] /\ (P[a] <= P[l] \/ (x # None /\ P[x] <= P[a]))
  <2>1. a \in {r} \X (0..n - 1) /\ t[2] = n
    BY <1>1, <1>6, <1>15
  <2>2. a[2] < t[2]
    BY <2>1, <1>1
  <2>3. P[a] \in 1..Len(ch)
    BY <1>8
  <2>4. P[a] <= p \/ (p < Len(ch) /\ p + 1 <= P[a])
    BY <2>3, <1>11
  <2>5. QED BY <2>2, <2>4, <1>12, <1>13
<1>16. NewItem(S, P, L, R, t)
  BY <1>1, <1>4, <1>6, <1>9, <1>12, <1>13, <1>14, <1>15 DEF NewItem
<1>17. NoGap(S \cup {t})
  <2>1. NoGap(S)
    BY <1>6 DEF Ordered
  <2>2. \A k \in 0..n - 1 : <<r, k>> \in S
    BY <1>1, <1>6
  <2>3. ASSUME NEW i \in S \cup {t}, NEW k \in 0..i[2] - 1 PROVE <<i[1], k>> \in S
    <3>1. CASE i \in S
      BY <3>1, <2>1 DEF NoGap
    <3>2. CASE i = t
      <4>1. i[1] = r /\ i[2] = n
        BY <3>2, <1>1
      <4>2. QED BY <4>1, <2>2
    <3>3. QED BY <3>1, <3>2
  <2>4. QED BY <2>3 DEF NoGap
<1>18. QED BY <1>2, <1>3, <1>5, <1>6, <1>16, <1>17

\* Two replicas have the items they share in the same order.
LEMMA SharedOrder ==
  ASSUME ListInv, OneByOne, Ordered, NEW r \in Client, NEW s \in Client,
         NEW S, S = ToSet(chain[r]), NEW T, T = ToSet(chain[s]),
         NEW P, P = Where(chain[r]), NEW Q, Q = Where(chain[s])
  PROVE  \A a, b \in (S \cap T) \cup {None} : P[a] < P[b] <=> Q[a] < Q[b]
PROOF
<1>1. PICK L, R : L = Lefts(runs) /\ R = Rights(runs)
  OBVIOUS
<1>2. S \subseteq Id /\ T \subseteq Id /\ S \subseteq DOMAIN runs
  BY Singles
<1>3. Rules(S, P, L, R) /\ Rules(T, Q, L, R)
  BY <1>1 DEF Ordered
<1>4. PICK rk : OriginsOlder(DOMAIN runs, L, R, rk)
  BY <1>1 DEF Ordered
<1>5. PICK D : D = DOMAIN runs
  OBVIOUS
<1>6. OriginsOlder(D, L, R, rk) /\ S \subseteq D
  BY <1>2, <1>4, <1>5
<1>7. SameOrderOn(S, T, P, Q)
  BY <1>2, <1>3, <1>6, SameOrder
<1>8. QED BY <1>7 DEF SameOrderOn

\* What the author of an item knew of it, the replica it is delivered to knows.
LEMMA DeliveredFits ==
  ASSUME ListInv, OneByOne, Ordered, NEW r \in Client, NEW t \in DOMAIN runs, Deliver(r, t)
  PROVE  /\ NewItem(ToSet(chain[r]), Where(chain[r]), Lefts(runs), Rights(runs), t)
         /\ NoGap(ToSet(chain[r]) \cup {t})
PROOF
<1>1. /\ t \in Id /\ t[1] # r
      /\ runs[t].left \in ToSet(chain[r]) \cup {None} /\ runs[t].right \in ToSet(chain[r]) \cup {None}
  BY Delivering
<1>2. t \notin ToSet(chain[r]) /\ \A k \in 0..t[2] - 1 : <<t[1], k>> \in ToSet(chain[r])
  BY DEF Deliver, Ready
<1>3. PICK u : u = t[1] /\ u \in Client
  BY <1>1, Ids
<1>4. t \in ToSet(chain[u])
  BY <1>3 DEF ListInv, Holds
<1>5. PICK S, T, P, Q, L, R : /\ S = ToSet(chain[r]) /\ T = ToSet(chain[u])
                              /\ P = Where(chain[r]) /\ Q = Where(chain[u])
                              /\ L = Lefts(runs) /\ R = Rights(runs)
  OBVIOUS
<1>6. /\ S \subseteq Id /\ T \subseteq Id /\ S \subseteq DOMAIN runs
      /\ chain[r] \in Seq(Id) /\ Distinct(chain[r]) /\ chain[u] \in Seq(Id) /\ Distinct(chain[u])
  BY <1>3, <1>5, Singles
<1>7. Rules(S, P, L, R) /\ Rules(T, Q, L, R)
  BY <1>3, <1>5 DEF Ordered
<1>8. \A a, b \in (S \cap T) \cup {None} : P[a] < P[b] <=> Q[a] < Q[b]
  BY <1>3, <1>5, SharedOrder
<1>9. /\ \A i \in S \cup {None} : P[i] \in Nat
      /\ \A i \in T \cup {None} : Q[i] \in Nat
  BY <1>7 DEF Rules, Places
<1>10. PICK l, x : l = L[t] /\ x = R[t]
  OBVIOUS
<1>11. l \in S \cup {None} /\ x \in S \cup {None}
  BY <1>1, <1>5, <1>10 DEF Lefts, Rights
<1>12. /\ l \in T \cup {None} /\ x \in T \cup {None}
       /\ Q[l] < Q[t] /\ (x # None => Q[t] < Q[x])
  BY <1>4, <1>5, <1>7, <1>10 DEF Rules, BetweenOrigins
<1>13. l \in (S \cap T) \cup {None} /\ x \in (S \cap T) \cup {None}
  BY <1>11, <1>12
<1>14. x # None => P[l] < P[x] /\ P[L[x]] <= P[l]
  <2> SUFFICES ASSUME x # None PROVE P[l] < P[x] /\ P[L[x]] <= P[l]
    OBVIOUS
  <2>1. Q[l] < Q[x]
    BY <1>4, <1>5, <1>9, <1>12
  <2>2. P[l] < P[x]
    BY <2>1, <1>8, <1>13
  <2>3. L[x] \in (S \cap T) \cup {None}
    BY <1>7, <1>11, <1>12 DEF Rules, BetweenOrigins
  <2>4. Q[L[x]] <= Q[l]
    BY <1>4, <1>5, <1>7, <1>10 DEF Rules, RightOrigin
  <2>5. ~(Q[l] < Q[L[x]])
    BY <2>3, <2>4, <1>9, <1>12
  <2>6. ~(P[l] < P[L[x]])
    BY <2>3, <2>5, <1>8, <1>13
  <2>7. QED BY <2>2, <2>3, <2>6, <1>9, <1>11
<1>15. ASSUME NEW a \in S, a[1] = t[1]
       PROVE  a[2] < t[2] /\ (P[a] <= P[l] \/ (x # None /\ P[x] <= P[a]))
  <2>1. a \in Id /\ a[2] \in Nat /\ a = <<a[1], a[2]>> /\ t[2] \in Nat /\ t = <<t[1], t[2]>>
    BY <1>1, <1>6, Ids
  <2>2. a[2] # t[2]
    BY <2>1, <1>2, <1>5, <1>15
  <2>3. ~(t[2] < a[2])
    <3> SUFFICES ASSUME t[2] < a[2] PROVE FALSE
      OBVIOUS
    <3>1. t[2] \in 0..a[2] - 1
      BY <2>1
    <3>2. NoGap(S)
      BY <1>5 DEF Ordered
    <3>3. <<a[1], t[2]>> \in S
      BY <3>1, <3>2 DEF NoGap
    <3>4. QED BY <3>3, <2>1, <1>2, <1>5, <1>15
  <2>4. a[2] < t[2]
    BY <2>1, <2>2, <2>3
  <2>5. a \in T
    BY <1>3, <1>5, <1>6, <1>15 DEF ListInv, Holds
  <2>6. Q[a] <= Q[l] \/ (x # None /\ Q[x] <= Q[a])
    BY <2>4, <2>5, <1>4, <1>5, <1>7, <1>10, <1>15 DEF Rules, OwnItemsApart
  <2>7. a \in (S \cap T) \cup {None}
    BY <2>5
  <2>8. CASE Q[a] <= Q[l]
    <3>1. ~(Q[l] < Q[a])
      BY <2>8, <2>5, <1>9, <1>12
    <3>2. ~(P[l] < P[a])
      BY <3>1, <2>7, <1>8, <1>13
    <3>3. QED BY <3>2, <2>4, <1>9, <1>11
  <2>9. CASE x # None /\ Q[x] <= Q[a]
    <3>1. ~(Q[a] < Q[x])
      BY <2>9, <2>5, <1>9, <1>12
    <3>2. ~(P[a] < P[x])
      BY <3>1, <2>7, <1>8, <1>13
    <3>3. QED BY <3>2, <2>4, <2>9, <1>9, <1>11
  <2>10. QED BY <2>6, <2>8, <2>9
<1>16. NewItem(S, P, L, R, t)
  BY <1>1, <1>2, <1>5, <1>10, <1>11, <1>14, <1>15 DEF NewItem
<1>17. NoGap(S \cup {t})
  <2>1. NoGap(S)
    BY <1>5 DEF Ordered
  <2>2. QED BY <2>1, <1>2, <1>5 DEF NoGap
<1>18. QED BY <1>5, <1>16, <1>17

\* Insert keeps it: the author knows of the item what DeliveredFits has to find out,
LEMMA OrderInsert ==
  ASSUME OrderInv, NEW r \in Client, NEW p \in 0..Len(chain[r]), NEW len \in 1..MaxLen,
         Insert(r, p, len), OneByOne'
  PROVE  Ordered'
PROOF
<1> PICK t, rs, n : Typed(r, p, len, t, rs, n)
  BY Inserting DEF OrderInv
<1>1. /\ NewRun(r, p, len, t, rs) /\ t \in Id /\ t \notin DOMAIN runs
      /\ RunIds(t, len) \subseteq Id /\ RunIds(t, len) \cap ToSet(chain[r]) = {}
      /\ runs' = rs /\ Integrate(r, t, rs) /\ removals' = removals /\ applied' = applied
      /\ rs[t].len = len /\ len \in Nat \ {0}
      /\ rs[t].left \in ToSet(chain[r]) \cup {None} /\ rs[t].right \in ToSet(chain[r]) \cup {None}
  BY DEF Typed
<1>2. DOMAIN rs = DOMAIN runs \cup {t} /\ \A h \in DOMAIN runs : rs[h] = runs[h]
  BY <1>1 DEF NewRun
<1>3. OneByOne /\ ListInv /\ Ordered
  BY <1>1, <1>2 DEF OneByOne, OrderInv
<1>4. /\ \A s \in Client \ {r} : /\ chain'[s] = chain[s] /\ starts'[s] = starts[s]
                                 /\ deleted'[s] = deleted[s]
      /\ \E q : LinkedIn(r, t, rs, q)
  <2>1. Shapes /\ Sound(chain[r], starts[r], deleted[r]) /\ t \in DOMAIN rs
    BY <1>2, <1>3 DEF ListInv
  <2>2. QED BY <2>1, <1>1, Linking
<1>5. PICK q : LinkedIn(r, t, rs, q)
  BY <1>4
<1>6. PICK L, R : L = Lefts(rs) /\ R = Rights(rs)
  OBVIOUS
<1>7. /\ SingleIds(rs)
      /\ NewItem(ToSet(chain[r]), Where(chain[r]), L, R, t)
      /\ NoGap(ToSet(chain[r]) \cup {t})
  BY <1>3, <1>6, TypedFits
<1>8. \A s \in Client : Rules(ToSet(chain[s]), Where(chain[s]), L, R)
  BY <1>2, <1>3, <1>6, OldOrder
<1>9. /\ chain[r] \in Seq(Id) /\ Distinct(chain[r]) /\ ToSet(chain[r]) \subseteq DOMAIN runs
  BY <1>3, Singles
<1>10. /\ Rules(ToSet(chain'[r]), Where(chain'[r]), L, R)
       /\ ToSet(chain'[r]) = ToSet(chain[r]) \cup {t}
       /\ starts'[r] = ToSet(chain'[r]) /\ deleted'[r] = deleted[r]
  <2>1. starts[r] = ToSet(chain[r])
    BY <1>3 DEF Ordered
  <2>2. ToSet(chain[r]) \subseteq DOMAIN rs /\ t \in DOMAIN rs
    BY <1>2, <1>9
  <2>3. QED BY <2>1, <2>2, <1>5, <1>6, <1>7, <1>8, <1>9, LinkedKeepsOrder
<1>11. ASSUME NEW s \in Client
       PROVE  /\ starts'[s] = ToSet(chain'[s]) /\ deleted'[s] = UNION applied'[s]
              /\ NoGap(ToSet(chain'[s]))
              /\ Rules(ToSet(chain'[s]), Where(chain'[s]), L, R)
  <2>1. starts[s] = ToSet(chain[s]) /\ deleted[s] = UNION applied[s] /\ NoGap(ToSet(chain[s]))
    BY <1>3 DEF Ordered
  <2>2. CASE s = r
    BY <2>1, <2>2, <1>1, <1>7, <1>10
  <2>3. CASE s # r
    BY <2>1, <2>3, <1>1, <1>4, <1>8
  <2>4. QED BY <2>2, <2>3
<1>12. \E rk : OriginsOlder(DOMAIN rs, L, R, rk)
  <2>1. PICK old : OriginsOlder(DOMAIN runs, Lefts(runs), Rights(runs), old)
    BY <1>3 DEF Ordered
  <2>2. PICK l, x : l = L[t] /\ x = R[t]
    OBVIOUS
  <2>3. l \in DOMAIN runs \cup {None} /\ x \in DOMAIN runs \cup {None}
    BY <2>2, <1>1, <1>2, <1>6, <1>9 DEF Lefts, Rights
  <2>4. None \notin DOMAIN runs
    BY <1>3, Ids DEF ListInv, RunsOK
  <2>5. PICK A : A = [i \in DOMAIN runs \cup {None} |-> IF i = None THEN 0 ELSE old[i]]
    OBVIOUS
  <2>6. A \in [DOMAIN runs \cup {None} -> Nat]
    BY <2>1, <2>5 DEF OriginsOlder
  <2>7. PICK new : new = [i \in DOMAIN rs |-> IF i = t THEN A[l] + A[x] + 1 ELSE A[i]]
    OBVIOUS
  <2>8. A[l] \in Nat /\ A[x] \in Nat /\ \A i \in DOMAIN runs : A[i] \in Nat /\ A[i] = old[i]
    BY <2>3, <2>4, <2>5, <2>6
  <2>9. /\ new \in [DOMAIN rs -> Nat] /\ new[t] = A[l] + A[x] + 1
        /\ \A i \in DOMAIN runs : new[i] = old[i] /\ old[i] \in Nat
    BY <2>7, <2>8, <1>1, <1>2
  <2>10. ASSUME NEW a \in DOMAIN rs
         PROVE  /\ L[a] # None => L[a] \in DOMAIN rs /\ new[L[a]] < new[a]
                /\ R[a] # None => R[a] \in DOMAIN rs /\ new[R[a]] < new[a]
    <3>1. CASE a = t
      <4>1. l # None => l \in DOMAIN rs /\ new[l] < new[t]
        <5> SUFFICES ASSUME l # None PROVE l \in DOMAIN rs /\ new[l] < new[t]
          OBVIOUS
        <5>1. l \in DOMAIN runs
          BY <2>3
        <5>2. new[l] = A[l] /\ l \in DOMAIN rs
          BY <5>1, <2>8, <2>9, <1>2
        <5>3. QED BY <5>2, <2>8, <2>9
      <4>2. x # None => x \in DOMAIN rs /\ new[x] < new[t]
        <5> SUFFICES ASSUME x # None PROVE x \in DOMAIN rs /\ new[x] < new[t]
          OBVIOUS
        <5>1. x \in DOMAIN runs
          BY <2>3
        <5>2. new[x] = A[x] /\ x \in DOMAIN rs
          BY <5>1, <2>8, <2>9, <1>2
        <5>3. QED BY <5>2, <2>8, <2>9
      <4>3. QED BY <3>1, <4>1, <4>2, <2>2
    <3>2. CASE a # t
      <4>1. a \in DOMAIN runs
        BY <3>2, <1>2
      <4>2. L[a] = Lefts(runs)[a] /\ R[a] = Rights(runs)[a]
        BY <4>1, <1>2, <1>6 DEF Lefts, Rights
      <4>3. /\ L[a] # None => L[a] \in DOMAIN runs /\ old[L[a]] < old[a]
            /\ R[a] # None => R[a] \in DOMAIN runs /\ old[R[a]] < old[a]
        BY <4>1, <4>2, <2>1 DEF OriginsOlder
      <4>4. QED BY <4>1, <4>3, <2>9, <1>2
    <3>3. QED BY <3>1, <3>2
  <2>11. OriginsOlder(DOMAIN rs, L, R, new)
    BY <2>9, <2>10 DEF OriginsOlder
  <2>12. QED BY <2>11
<1>13. QED BY <1>1, <1>6, <1>11, <1>12 DEF Ordered

\* Deliver keeps it,
LEMMA OrderDeliver ==
  ASSUME OrderInv, NEW r \in Client, NEW t \in DOMAIN runs, Deliver(r, t), OneByOne'
  PROVE  Ordered'
PROOF
<1>1. UNCHANGED <<runs, removals, applied>>
  BY DEF Deliver
<1>2. OneByOne /\ ListInv /\ Ordered
  BY <1>1 DEF OneByOne, OrderInv
<1>3. /\ t \in Id /\ IdsOf(t) \subseteq Id /\ IdsOf(t) \cap ToSet(chain[r]) = {}
      /\ runs[t].len \in Nat \ {0}
      /\ runs[t].left \in ToSet(chain[r]) \cup {None} /\ runs[t].right \in ToSet(chain[r]) \cup {None}
      /\ Integrate(r, t, runs) /\ runs' = runs /\ applied' = applied
  BY <1>2, Delivering
<1>4. /\ \A s \in Client \ {r} : /\ chain'[s] = chain[s] /\ starts'[s] = starts[s]
                                 /\ deleted'[s] = deleted[s]
      /\ \E q : LinkedIn(r, t, runs, q)
  <2>1. Shapes /\ Sound(chain[r], starts[r], deleted[r]) /\ IdsOf(t) = RunIds(t, runs[t].len)
    BY <1>2 DEF ListInv, IdsOf
  <2>2. QED BY <2>1, <1>3, Linking
<1>5. PICK q : LinkedIn(r, t, runs, q)
  BY <1>4
<1>6. PICK L, R : L = Lefts(runs) /\ R = Rights(runs)
  OBVIOUS
<1>7. NewItem(ToSet(chain[r]), Where(chain[r]), L, R, t) /\ NoGap(ToSet(chain[r]) \cup {t})
  BY <1>2, <1>6, DeliveredFits
<1>8. \A s \in Client : Rules(ToSet(chain[s]), Where(chain[s]), L, R)
  BY <1>2, <1>6 DEF Ordered
<1>9. /\ SingleIds(runs) /\ chain[r] \in Seq(Id) /\ Distinct(chain[r])
      /\ ToSet(chain[r]) \subseteq DOMAIN runs
  BY <1>2, Singles
<1>10. /\ Rules(ToSet(chain'[r]), Where(chain'[r]), L, R)
       /\ ToSet(chain'[r]) = ToSet(chain[r]) \cup {t}
       /\ starts'[r] = ToSet(chain'[r]) /\ deleted'[r] = deleted[r]
  <2>1. starts[r] = ToSet(chain[r])
    BY <1>2 DEF Ordered
  <2>2. QED BY <2>1, <1>5, <1>6, <1>7, <1>8, <1>9, LinkedKeepsOrder
<1>11. ASSUME NEW s \in Client
       PROVE  /\ starts'[s] = ToSet(chain'[s]) /\ deleted'[s] = UNION applied'[s]
              /\ NoGap(ToSet(chain'[s]))
              /\ Rules(ToSet(chain'[s]), Where(chain'[s]), L, R)
  <2>1. starts[s] = ToSet(chain[s]) /\ deleted[s] = UNION applied[s] /\ NoGap(ToSet(chain[s]))
    BY <1>2 DEF Ordered
  <2>2. CASE s = r
    BY <2>1, <2>2, <1>3, <1>7, <1>10
  <2>3. CASE s # r
    BY <2>1, <2>3, <1>3, <1>4, <1>8
  <2>4. QED BY <2>2, <2>3
<1>12. \E rk : OriginsOlder(DOMAIN runs, L, R, rk)
  BY <1>2, <1>6 DEF Ordered
<1>13. QED BY <1>3, <1>6, <1>11, <1>12 DEF Ordered

\* A removal cuts nothing, where every node is one id, and flags what it names.
LEMMA OrderRemoval ==
  ASSUME OrderInv, NEW r \in Client, NEW ids, NEW st, st \subseteq ToSet(chain[r]), starts[r] \subseteq st,
         starts' = [starts EXCEPT ![r] = st], deleted' = [deleted EXCEPT ![r] = deleted[r] \cup ids],
         applied' = [applied EXCEPT ![r] = applied[r] \cup {ids}],
         UNCHANGED <<runs, chain>>, OneByOne'
  PROVE  Ordered'
PROOF
<1>1. runs' = runs /\ chain' = chain
  OBVIOUS
<1>2. OneByOne /\ ListInv /\ Ordered
  BY <1>1 DEF OneByOne, OrderInv
<1>3. Shapes /\ applied \in [Client -> SUBSET removals]
  BY <1>2 DEF ListInv
<1>4. ASSUME NEW s \in Client
      PROVE  starts'[s] = ToSet(chain[s]) /\ deleted'[s] = UNION applied'[s]
  <2>1. starts[s] = ToSet(chain[s]) /\ deleted[s] = UNION applied[s]
    BY <1>2 DEF Ordered
  <2>2. CASE s = r
    <3>1. starts'[s] = st /\ deleted'[s] = deleted[s] \cup ids /\ applied'[s] = applied[s] \cup {ids}
      BY <2>2, <1>3 DEF Shapes
    <3>2. UNION (applied[s] \cup {ids}) = (UNION applied[s]) \cup ids
      OBVIOUS
    <3>3. QED BY <2>1, <2>2, <3>1, <3>2
  <2>3. CASE s # r
    BY <2>1, <2>3, <1>3 DEF Shapes
  <2>4. QED BY <2>2, <2>3
<1>5. QED BY <1>1, <1>2, <1>4 DEF Ordered

\* so every step does,
LEMMA OrderNext == OrderInv /\ [ListNext]_listVars => OrderInv'
PROOF
<1> SUFFICES ASSUME OrderInv, [ListNext]_listVars PROVE OrderInv'
  OBVIOUS
<1>1. ListInv'
  BY ListNextInv DEF OrderInv
<1>2. ASSUME ListNext, OneByOne' PROVE Ordered'
  <2>1. PICK r \in Client :
          \/ \E p \in 0..Len(chain[r]), len \in 1..MaxLen : Insert(r, p, len)
          \/ \E h \in DOMAIN runs : Deliver(r, h)
          \/ \E p \in DOMAIN chain[r], n \in 1..MaxLen : RemoveRange(r, p, n)
          \/ \E ids \in removals : DeliverRemoval(r, ids)
    BY <1>2 DEF ListNext
  <2>2. starts[r] \subseteq ToSet(chain[r])
    BY DEF OrderInv, ListInv, Sound
  <2>3. ASSUME NEW p \in DOMAIN chain[r], NEW n \in 1..MaxLen, RemoveRange(r, p, n) PROVE Ordered'
    <3>1. PICK live : live = Among(SubSeq(chain[r], p, Len(chain[r])), ToSet(chain[r]) \ deleted[r])
      OBVIOUS
    <3>2. PICK ids, st : /\ ids = ToSet(SubSeq(live, 1, n))
                         /\ st = starts[r] \cup ({live[1], Next1(live[n])} \cap ToSet(chain[r]))
      OBVIOUS
    <3>3. /\ starts' = [starts EXCEPT ![r] = st]
          /\ deleted' = [deleted EXCEPT ![r] = deleted[r] \cup ids]
          /\ applied' = [applied EXCEPT ![r] = applied[r] \cup {ids}]
          /\ UNCHANGED <<runs, chain>>
      BY <2>3, <3>1, <3>2 DEF RemoveRange
    <3>4. st \subseteq ToSet(chain[r]) /\ starts[r] \subseteq st
      BY <2>2, <3>2
    <3>5. QED BY <3>3, <3>4, <1>2, OrderRemoval
  <2>4. ASSUME NEW ids \in removals, DeliverRemoval(r, ids) PROVE Ordered'
    <3>1. PICK st : st = starts[r] \cup RangeStarts(chain[r], starts[r], deleted[r], ids)
      OBVIOUS
    <3>2. /\ starts' = [starts EXCEPT ![r] = st]
          /\ deleted' = [deleted EXCEPT ![r] = deleted[r] \cup (ids \ deleted[r])]
          /\ applied' = [applied EXCEPT ![r] = applied[r] \cup {ids}]
          /\ UNCHANGED <<runs, chain>>
      BY <2>4, <3>1 DEF DeliverRemoval, DeleteRange, RangeStarts, RangeCuts
    <3>3. st \subseteq ToSet(chain[r]) /\ starts[r] \subseteq st
      BY <2>2, <3>1 DEF RangeStarts
    <3>4. deleted[r] \cup (ids \ deleted[r]) = deleted[r] \cup ids
      OBVIOUS
    <3>5. QED BY <3>2, <3>3, <3>4, <1>2, OrderRemoval
  <2>5. QED BY <2>1, <2>3, <2>4, <1>2, OrderInsert, OrderDeliver
<1>3. ASSUME UNCHANGED listVars, OneByOne' PROVE Ordered'
  BY <1>3 DEF listVars, replicas, OrderInv, OneByOne, Ordered
<1>4. QED BY <1>1, <1>2, <1>3 DEF OrderInv

\* and it always holds.
LEMMA OrderHolds == ListSpec => []OrderInv
PROOF
<1>1. QED BY OrderInit, OrderNext, PTL DEF ListSpec

\* Wherever integrate's conflict loop puts an item typed by itself, it is between
\* the neighbours its author saw, on every replica (store.rs, integrate).
THEOREM StaysBetweenOrigins == ListSpec => []OriginsKept
PROOF
<1>1. ASSUME OrderInv PROVE OriginsKept
  <2> SUFFICES ASSUME OneByOne, NEW r \in Client, NEW p \in DOMAIN chain[r]
               PROVE  /\ Pos(chain[r], OriginLeft(runs, chain[r][p])) < p
                      /\ OriginRight(runs, chain[r][p]) # None =>
                           p < Pos(chain[r], OriginRight(runs, chain[r][p]))
    BY DEF OriginsKept
  <2>1. ListInv /\ Ordered
    BY <1>1 DEF OrderInv
  <2>2. PICK ch, S, P, L, R, i : /\ ch = chain[r] /\ S = ToSet(ch) /\ P = Where(ch)
                                 /\ L = Lefts(runs) /\ R = Rights(runs) /\ i = ch[p]
    OBVIOUS
  <2>3. SingleIds(runs) /\ ch \in Seq(Id) /\ Distinct(ch) /\ S \subseteq DOMAIN runs
    BY <2>1, <2>2, Singles
  <2>4. /\ i \in S /\ P[i] = p
        /\ \A j \in S \cup {None} : P[j] = Pos(ch, j)
    BY <2>2, <2>3, WhereIs
  <2>5. /\ L[i] \in S \cup {None} /\ R[i] \in S \cup {None}
        /\ P[L[i]] < P[i] /\ (R[i] # None => P[i] < P[R[i]])
    BY <2>1, <2>2, <2>4 DEF Ordered, Rules, BetweenOrigins
  <2>6. OriginLeft(runs, i) = L[i] /\ OriginRight(runs, i) = R[i]
    BY <2>2, <2>3, <2>4, OwnOrigins
  <2>7. QED BY <2>2, <2>4, <2>5, <2>6
<1>2. QED BY <1>1, OrderHolds, PTL

\* Replicas with the same items have them in the same order.
LEMMA SameItemsSameOrder == OrderInv => ListsConverge
PROOF
<1> SUFFICES ASSUME OrderInv, OneByOne, NEW r \in Client, NEW s \in Client,
                    ToSet(chain[r]) = ToSet(chain[s])
             PROVE  chain[r] = chain[s]
  BY DEF ListsConverge
<1>1. ListInv /\ Ordered
  BY DEF OrderInv
<1>2. chain[r] \in Seq(Id) /\ Distinct(chain[r]) /\ chain[s] \in Seq(Id) /\ Distinct(chain[s])
  BY <1>1, Singles
<1>3. \A a, b \in (ToSet(chain[r]) \cap ToSet(chain[s])) \cup {None} :
         Where(chain[r])[a] < Where(chain[r])[b] <=> Where(chain[s])[a] < Where(chain[s])[b]
  BY <1>1, SharedOrder
<1>4. \A i, j \in ToSet(chain[r]) :
         Where(chain[r])[i] < Where(chain[r])[j] <=> Where(chain[s])[i] < Where(chain[s])[j]
  BY <1>3
<1>5. QED BY <1>2, <1>4, SameSeq

\* Replicas that have the same items, typed one at a time, have them in the same
\* order, whatever the order they arrived in (store.rs, integrate).
THEOREM SameOrderEverywhere == ListSpec => []ListsConverge
PROOF
<1>1. QED BY SameItemsSameOrder, OrderHolds, PTL

\* Replicas that have the same items, typed one at a time, and the same deletions
\* show the same content (remove_at on one, delete_range on the other).
THEOREM SameContentEverywhere == ListSpec => []ContentConverges
PROOF
<1>1. ASSUME OrderInv PROVE ContentConverges
  <2> SUFFICES ASSUME OneByOne, NEW r \in Client, NEW s \in Client,
                      ToSet(chain[r]) = ToSet(chain[s]), applied[r] = applied[s]
               PROVE  Visible(r) = Visible(s)
    BY DEF ContentConverges
  <2>1. chain[r] = chain[s]
    BY <1>1, SameItemsSameOrder DEF ListsConverge
  <2>2. deleted[r] = deleted[s]
    BY <1>1 DEF OrderInv, Ordered
  <2>3. QED BY <2>1, <2>2 DEF Visible
<1>2. QED BY <1>1, OrderHolds, PTL

-----------------------------------------------------------------------------
(* Ranges of clocks and lists of them (DeleteSets).                        *)

\* What a list of ranges covers.
Cover(l) == UNION {Clocks(l[i]) : i \in DOMAIN l}

\* A range is a pair of bounds, the first below the second.
LEMMA RangeIs ==
  ASSUME NEW r \in Ranges
  PROVE  r = <<r[1], r[2]>> /\ r[1] \in 0..MaxItems /\ r[2] \in 0..MaxItems /\ r[1] < r[2]
PROOF
<1>1. QED BY DEF Ranges

\* Two ranges that overlap or touch cover what their hull does.
LEMMA HullIs ==
  ASSUME NEW l \in Ranges, NEW r \in Ranges, Continuous(l, r)
  PROVE  Hull(l, r) \in Ranges /\ Clocks(Hull(l, r)) = Clocks(l) \cup Clocks(r)
PROOF
<1>1. PICK a, b, c, d : a = l[1] /\ b = l[2] /\ c = r[1] /\ d = r[2]
  OBVIOUS
<1>2. /\ a \in 0..MaxItems /\ b \in 0..MaxItems /\ a < b /\ MaxItems \in Nat
      /\ c \in 0..MaxItems /\ d \in 0..MaxItems /\ c < d
  BY <1>1, RangeIs, DeleteSetsAssumption
<1>3. b >= c /\ a <= d
  BY <1>1 DEF Continuous
<1>4. PICK x, y : x = (IF a < c THEN a ELSE c) /\ y = (IF b > d THEN b ELSE d)
  OBVIOUS
<1>5. Hull(l, r) = <<x, y>>
  BY <1>1, <1>4 DEF Hull
<1>6. x \in 0..MaxItems /\ y \in 0..MaxItems /\ x < y
  BY <1>2, <1>4
<1>7. Hull(l, r) \in Ranges
  BY <1>5, <1>6 DEF Ranges
<1>8. x..(y - 1) = (a..(b - 1)) \cup (c..(d - 1))
  BY <1>2, <1>3, <1>4
<1>9. QED BY <1>1, <1>5, <1>7, <1>8 DEF Clocks

Replaced(l, i, h, C) ==
  /\ ReplaceAt(l, i, h) \in Seq(Ranges) /\ Len(ReplaceAt(l, i, h)) = Len(l)
  /\ DOMAIN ReplaceAt(l, i, h) = DOMAIN l
  /\ ReplaceAt(l, i, h)[i] = h
  /\ \A j \in DOMAIN l : j # i => ReplaceAt(l, i, h)[j] = l[j]
  /\ Cover(ReplaceAt(l, i, h)) = Cover(l) \cup C

\* An element exchanged for one that covers more.
LEMMA ReplaceCovers ==
  ASSUME NEW l \in Seq(Ranges), NEW i \in DOMAIN l, NEW h \in Ranges, NEW C,
         Clocks(h) = Clocks(l[i]) \cup C
  PROVE  Replaced(l, i, h, C)
PROOF
<1>1. PICK m : m = [l EXCEPT ![i] = h]
  OBVIOUS
<1>2. m = ReplaceAt(l, i, h)
  BY <1>1 DEF ReplaceAt
<1>3. /\ m \in Seq(Ranges) /\ Len(m) = Len(l) /\ DOMAIN m = DOMAIN l
      /\ m[i] = h /\ \A j \in DOMAIN l : j # i => m[j] = l[j]
  BY <1>1
<1>4. Cover(m) = Cover(l) \cup C
  <2>1. Clocks(m[i]) = Clocks(l[i]) \cup C
    BY <1>3
  <2>2. \A j \in DOMAIN l : j # i => Clocks(m[j]) = Clocks(l[j])
    BY <1>3
  <2>3. DOMAIN m = DOMAIN l
    BY <1>3
  <2>4. QED BY <2>1, <2>2, <2>3 DEF Cover
<1>5. QED BY <1>2, <1>3, <1>4 DEF Replaced

\* The list without one of its elements.
LEMMA RemoveIs ==
  ASSUME NEW l \in Seq(Ranges), NEW i \in Nat, i >= 1, i < Len(l)
  PROVE  /\ RemoveAt(l, i + 1) \in Seq(Ranges) /\ Len(RemoveAt(l, i + 1)) = Len(l) - 1
         /\ \A j \in 1..i : RemoveAt(l, i + 1)[j] = l[j]
         /\ \A j \in (i + 1)..(Len(l) - 1) : RemoveAt(l, i + 1)[j] = l[j + 1]
PROOF
<1>1. PICK n : n = Len(l)
  OBVIOUS
<1>2. n \in Nat /\ i + 1 \in 1..n /\ (i + 1) - 1 = i /\ (i + 1) + 1 \in Nat \ {0}
  BY <1>1
<1>3. PICK a, b : a = SubSeq(l, 1, (i + 1) - 1) /\ b = SubSeq(l, (i + 1) + 1, n)
  OBVIOUS
<1>4. a \in Seq(Ranges) /\ Len(a) = i /\ \A q \in 1..Len(a) : a[q] = l[q]
  <2>1. i <= n /\ 1 \in Nat \ {0} /\ 1 <= i /\ i - 1 + 1 = i /\ \A q \in Nat : q + 1 - 1 = q
    BY <1>1, <1>2
  <2>2. /\ SubSeq(l, 1, i) \in Seq(Ranges)
        /\ Len(SubSeq(l, 1, i)) = IF 1 <= i THEN i - 1 + 1 ELSE 0
        /\ \A q \in 1..Len(SubSeq(l, 1, i)) : SubSeq(l, 1, i)[q] = l[q + 1 - 1]
    BY <2>1, <1>1, SliceIs
  <2>3. QED BY <2>1, <2>2, <1>2, <1>3
<1>5. b \in Seq(Ranges) /\ Len(b) = n - i - 1 /\ \A q \in 1..Len(b) : b[q] = l[q + i + 1]
  <2>1. PICK m : m = (i + 1) + 1
    OBVIOUS
  <2>2. m \in Nat \ {0} /\ n <= Len(l)
    BY <1>1, <1>2, <2>1
  <2>3. /\ SubSeq(l, m, n) \in Seq(Ranges)
        /\ Len(SubSeq(l, m, n)) = IF m <= n THEN n - m + 1 ELSE 0
        /\ \A q \in 1..Len(SubSeq(l, m, n)) : SubSeq(l, m, n)[q] = l[q + m - 1]
    BY <2>2, <1>2, SliceIs
  <2>4. Len(b) = n - i - 1
    BY <2>1, <2>3, <1>2, <1>3
  <2>5. \A q \in 1..Len(b) : q + m - 1 = q + i + 1
    BY <2>1, <2>4, <1>2
  <2>6. QED BY <2>1, <2>3, <2>4, <2>5, <1>3
<1>6. RemoveAt(l, i + 1) = a \o b
  BY <1>1, <1>3 DEF RemoveAt
<1>7. a \o b \in Seq(Ranges) /\ Joined(a \o b, a, b)
  BY <1>4, <1>5, CatIs
<1>8. PICK c : c = a \o b
  OBVIOUS
<1>9. /\ c \in Seq(Ranges) /\ Len(c) = Len(a) + Len(b)
      /\ \A q \in 1..Len(a) : c[q] = a[q]
      /\ \A k \in 1..Len(b) : c[Len(a) + k] = b[k]
  BY <1>7, <1>8 DEF Joined
<1>10. Len(c) = n - 1
  BY <1>2, <1>4, <1>5, <1>9
<1>11. \A j \in 1..i : c[j] = l[j]
  BY <1>4, <1>9
<1>12. ASSUME NEW j \in (i + 1)..(n - 1) PROVE c[j] = l[j + 1]
  <2>1. j - i \in 1..Len(b) /\ Len(a) + (j - i) = j /\ (j - i) + i + 1 = j + 1
    BY <1>2, <1>4, <1>5
  <2>2. PICK k : k = j - i
    OBVIOUS
  <2>3. c[Len(a) + k] = b[k]
    BY <2>1, <2>2, <1>9
  <2>4. b[k] = l[k + i + 1]
    BY <2>1, <2>2, <1>5
  <2>5. Len(a) + k = j /\ k + i + 1 = j + 1
    BY <2>1, <2>2
  <2>6. QED BY <2>3, <2>4, <2>5
<1>13. QED BY <1>1, <1>6, <1>8, <1>9, <1>10, <1>11, <1>12

\* What m is when l's elements i and i + 1 became one.
NextMerged(m, l, i) ==
  /\ m \in Seq(Ranges) /\ Len(m) = Len(l) - 1
  /\ m[i] = Hull(l[i], l[i + 1])
  /\ \A j \in 1..(i - 1) : m[j] = l[j]
  /\ \A j \in (i + 1)..(Len(l) - 1) : m[j] = l[j + 1]
  /\ Cover(m) = Cover(l)

\* Neighbours merged.
LEMMA MergeNextIs ==
  ASSUME NEW l \in Seq(Ranges), NEW i \in Nat, i >= 1, i < Len(l), Continuous(l[i], l[i + 1])
  PROVE  NextMerged(MergeNext(l, i), l, i)
PROOF
<1>1. PICK n, h, p : n = Len(l) /\ h = Hull(l[i], l[i + 1]) /\ p = ReplaceAt(l, i, h)
  OBVIOUS
<1>2. i \in 1..n /\ i + 1 \in 1..n /\ DOMAIN l = 1..n /\ n \in Nat
  BY <1>1
<1>3. l[i] \in Ranges /\ l[i + 1] \in Ranges
  BY <1>2
<1>4. h \in Ranges /\ Clocks(h) = Clocks(l[i]) \cup Clocks(l[i + 1])
  BY <1>1, <1>3, HullIs
<1>5. /\ p \in Seq(Ranges) /\ Len(p) = n /\ p[i] = h
      /\ \A j \in 1..n : j # i => p[j] = l[j]
      /\ Cover(p) = Cover(l) \cup Clocks(l[i + 1])
  <2>1. i \in DOMAIN l
    BY <1>2
  <2>2. PICK C : C = Clocks(l[i + 1])
    OBVIOUS
  <2>3. h \in Ranges /\ Clocks(h) = Clocks(l[i]) \cup C
    BY <2>2, <1>4
  <2>4. Replaced(l, i, h, C)
    BY <2>1, <2>3, ReplaceCovers
  <2>5. QED BY <2>2, <2>4, <1>1, <1>2 DEF Replaced
<1>6. PICK m : m = RemoveAt(p, i + 1)
  OBVIOUS
<1>7. MergeNext(l, i) = m
  BY <1>1, <1>6 DEF MergeNext
<1>8. /\ m \in Seq(Ranges) /\ Len(m) = n - 1
      /\ \A j \in 1..i : m[j] = p[j]
      /\ \A j \in (i + 1)..(n - 1) : m[j] = p[j + 1]
  <2>1. i < Len(p)
    BY <1>1, <1>5
  <2>2. QED BY <2>1, <1>5, <1>6, RemoveIs
<1>9. m[i] = h /\ \A j \in 1..(i - 1) : m[j] = l[j]
  <2>1. i \in 1..i /\ \A j \in 1..(i - 1) : j \in 1..i /\ j \in 1..n /\ j # i
    BY <1>2
  <2>2. QED BY <2>1, <1>5, <1>8
<1>10. \A j \in (i + 1)..(n - 1) : m[j] = l[j + 1]
  <2>1. \A j \in (i + 1)..(n - 1) : j + 1 \in 1..n /\ j + 1 # i
    BY <1>2
  <2>2. QED BY <2>1, <1>5, <1>8
<1>11. DOMAIN m = 1..(n - 1)
  BY <1>8
<1>12. Cover(m) \subseteq Cover(l)
  <2>1. ASSUME NEW j \in 1..(n - 1) PROVE Clocks(m[j]) \subseteq Cover(l)
    <3>1. CASE j = i
      BY <3>1, <1>2, <1>4, <1>9 DEF Cover
    <3>2. CASE j < i
      <4>1. j \in 1..(i - 1) /\ j \in 1..n
        BY <3>2, <1>2
      <4>2. QED BY <4>1, <1>2, <1>9 DEF Cover
    <3>3. CASE j > i
      <4>1. j \in (i + 1)..(n - 1) /\ j + 1 \in 1..n
        BY <3>3, <1>2
      <4>2. QED BY <4>1, <1>2, <1>10 DEF Cover
    <3>4. QED BY <3>1, <3>2, <3>3, <1>2
  <2>2. QED BY <2>1, <1>11 DEF Cover
<1>13. Cover(l) \subseteq Cover(m)
  <2>1. i \in 1..(n - 1)
    BY <1>2
  <2>2. ASSUME NEW j \in 1..n PROVE Clocks(l[j]) \subseteq Cover(m)
    <3>1. CASE j = i \/ j = i + 1
      BY <3>1, <2>1, <1>4, <1>9, <1>11 DEF Cover
    <3>2. CASE j < i
      <4>1. j \in 1..(i - 1) /\ j \in 1..(n - 1)
        BY <3>2, <1>2
      <4>2. QED BY <4>1, <1>9, <1>11 DEF Cover
    <3>3. CASE j > i + 1
      <4>1. j - 1 \in (i + 1)..(n - 1) /\ j - 1 \in 1..(n - 1) /\ (j - 1) + 1 = j
        BY <3>3, <1>2
      <4>2. m[j - 1] = l[j]
        BY <4>1, <1>10
      <4>3. QED BY <4>1, <4>2, <1>11 DEF Cover
    <3>4. QED BY <3>1, <3>2, <3>3, <1>2
  <2>3. QED BY <2>2, <1>2 DEF Cover
<1>14. QED BY <1>1, <1>7, <1>8, <1>9, <1>10, <1>12, <1>13 DEF NextMerged

\* What m is when r was put into l at place i.
Inserted(m, l, i, r) ==
  /\ m \in Seq(Ranges) /\ Len(m) = Len(l) + 1
  /\ m[i] = r
  /\ \A j \in 1..(i - 1) : m[j] = l[j]
  /\ \A j \in i..Len(l) : m[j + 1] = l[j]
  /\ Cover(m) = Cover(l) \cup Clocks(r)

\* A range inserted.
LEMMA InsertIs ==
  ASSUME NEW l \in Seq(Ranges), NEW i \in 1..(Len(l) + 1), NEW r \in Ranges
  PROVE  Inserted(InsertAt(l, i, r), l, i, r)
PROOF
<1>1. PICK n, k : n = Len(l) /\ k = i - 1
  OBVIOUS
<1>2. n \in Nat /\ k \in 0..n /\ i = k + 1 /\ i \in Nat \ {0} /\ DOMAIN l = 1..n
  BY <1>1
<1>3. PICK a, b, c : a = SubSeq(l, 1, k) /\ b = <<r>> /\ c = SubSeq(l, i, n)
  OBVIOUS
<1>4. a \in Seq(Ranges) /\ Len(a) = k /\ \A q \in 1..k : a[q] = l[q]
  <2>1. k \in Nat /\ k <= Len(l) /\ 1 \in Nat \ {0}
    BY <1>1, <1>2
  <2>2. /\ SubSeq(l, 1, k) \in Seq(Ranges)
        /\ Len(SubSeq(l, 1, k)) = IF 1 <= k THEN k - 1 + 1 ELSE 0
        /\ \A q \in 1..Len(SubSeq(l, 1, k)) : SubSeq(l, 1, k)[q] = l[q + 1 - 1]
    BY <2>1, SliceIs
  <2>3. Len(a) = k
    BY <2>1, <2>2, <1>3
  <2>4. \A q \in 1..k : q + 1 - 1 = q
    OBVIOUS
  <2>5. QED BY <2>2, <2>3, <2>4, <1>3
<1>5. c \in Seq(Ranges) /\ Len(c) = n - k /\ \A q \in 1..(n - k) : c[q] = l[q + k]
  <2>1. n <= Len(l)
    BY <1>1, <1>2
  <2>2. /\ SubSeq(l, i, n) \in Seq(Ranges)
        /\ Len(SubSeq(l, i, n)) = IF i <= n THEN n - i + 1 ELSE 0
        /\ \A q \in 1..Len(SubSeq(l, i, n)) : SubSeq(l, i, n)[q] = l[q + i - 1]
    BY <2>1, <1>2, SliceIs
  <2>3. Len(c) = n - k
    BY <2>2, <1>2, <1>3
  <2>4. \A q \in 1..(n - k) : q + i - 1 = q + k
    BY <1>2
  <2>5. QED BY <2>2, <2>3, <2>4, <1>3
<1>6. b \in Seq(Ranges) /\ Len(b) = 1 /\ b[1] = r
  BY <1>3
<1>7. InsertAt(l, i, r) = (a \o b) \o c
  BY <1>1, <1>3 DEF InsertAt
<1>8. PICK d : d = a \o b
  OBVIOUS
<1>9. /\ d \in Seq(Ranges) /\ Len(d) = i
      /\ \A q \in 1..k : d[q] = l[q]
      /\ d[i] = r
  <2>1. a \o b \in Seq(Ranges) /\ Joined(a \o b, a, b)
    BY <1>4, <1>6, CatIs
  <2>2. /\ d \in Seq(Ranges) /\ Len(d) = Len(a) + Len(b)
        /\ \A q \in 1..Len(a) : d[q] = a[q]
        /\ \A q \in 1..Len(b) : d[Len(a) + q] = b[q]
    BY <2>1, <1>8 DEF Joined
  <2>3. Len(d) = i
    BY <2>2, <1>2, <1>4, <1>6
  <2>4. d[k + 1] = b[1]
    <3>1. 1 \in 1..Len(b)
      BY <1>6
    <3>2. d[Len(a) + 1] = b[1]
      BY <3>1, <2>2
    <3>3. QED BY <3>2, <1>4
  <2>5. QED BY <2>2, <2>3, <2>4, <1>2, <1>4, <1>6
<1>10. PICK m : m = d \o c
  OBVIOUS
<1>11. /\ m \in Seq(Ranges) /\ Len(m) = n + 1
       /\ \A q \in 1..k : m[q] = l[q]
       /\ m[i] = r
       /\ \A q \in i..n : m[q + 1] = l[q]
  <2>1. d \o c \in Seq(Ranges) /\ Joined(d \o c, d, c)
    BY <1>5, <1>9, CatIs
  <2>2. /\ m \in Seq(Ranges) /\ Len(m) = Len(d) + Len(c)
        /\ \A q \in 1..Len(d) : m[q] = d[q]
        /\ \A q \in 1..Len(c) : m[Len(d) + q] = c[q]
    BY <2>1, <1>10 DEF Joined
  <2>3. Len(m) = n + 1
    BY <2>2, <1>2, <1>5, <1>9
  <2>4. \A q \in 1..i : m[q] = d[q]
    BY <2>2, <1>9
  <2>5. (\A q \in 1..k : q \in 1..i) /\ i \in 1..i
    BY <1>2
  <2>6. ASSUME NEW q \in i..n PROVE m[q + 1] = l[q]
    <3>1. q - k \in 1..(n - k) /\ i + (q - k) = q + 1 /\ (q - k) + k = q
      BY <1>2
    <3>2. m[i + (q - k)] = c[q - k]
      BY <3>1, <2>2, <1>5, <1>9
    <3>3. QED BY <3>1, <3>2, <1>5
  <2>7. QED BY <2>2, <2>3, <2>4, <2>5, <2>6, <1>9
<1>12. Cover(m) = Cover(l) \cup Clocks(r)
  <2>1. DOMAIN m = 1..(n + 1)
    BY <1>2, <1>11
  <2>2. ASSUME NEW q \in 1..(n + 1) PROVE Clocks(m[q]) \subseteq Cover(l) \cup Clocks(r)
    <3>1. CASE q = i
      BY <3>1, <1>11
    <3>2. CASE q < i
      <4>1. q \in 1..k /\ q \in 1..n
        BY <3>2, <1>2
      <4>2. QED BY <4>1, <1>2, <1>11 DEF Cover
    <3>3. CASE q > i
      <4>1. q - 1 \in i..n /\ (q - 1) + 1 = q /\ q - 1 \in 1..n
        BY <3>3, <1>2
      <4>2. m[q] = l[q - 1]
        BY <4>1, <1>11
      <4>3. QED BY <4>1, <4>2, <1>2 DEF Cover
    <3>4. QED BY <3>1, <3>2, <3>3, <1>2
  <2>3. ASSUME NEW q \in 1..n PROVE Clocks(l[q]) \subseteq Cover(m)
    <3>1. CASE q < i
      <4>1. q \in 1..k /\ q \in 1..(n + 1)
        BY <3>1, <1>2
      <4>2. QED BY <4>1, <2>1, <1>11 DEF Cover
    <3>2. CASE q >= i
      <4>1. q \in i..n /\ q + 1 \in 1..(n + 1)
        BY <3>2, <1>2
      <4>2. QED BY <4>1, <2>1, <1>11 DEF Cover
    <3>3. QED BY <3>1, <3>2, <1>2
  <2>4. Clocks(r) \subseteq Cover(m)
    <3>1. i \in 1..(n + 1)
      BY <1>2
    <3>2. QED BY <3>1, <2>1, <1>11 DEF Cover
  <2>5. Cover(m) \subseteq Cover(l) \cup Clocks(r)
    BY <2>1, <2>2 DEF Cover
  <2>6. Cover(l) \subseteq Cover(m)
    BY <2>3, <1>2 DEF Cover
  <2>7. QED BY <2>4, <2>5, <2>6
<1>13. QED BY <1>1, <1>2, <1>7, <1>8, <1>10, <1>11, <1>12 DEF Inserted

\* The merge with the element before, which squash_around tries first.
LEMMA SquashBeforeKeeps ==
  ASSUME NEW l \in Seq(Ranges), NEW i \in 1..Len(l)
  PROVE  /\ SquashBefore(l, i) \in Seq(Ranges) /\ Cover(SquashBefore(l, i)) = Cover(l)
         /\ SquashBefore(l, i) # <<>>
PROOF
<1>1. CASE i > 1 /\ Continuous(l[i - 1], l[i])
  <2>1. PICK k : k = i - 1
    OBVIOUS
  <2>2. k \in Nat /\ k >= 1 /\ k < Len(l) /\ k + 1 = i /\ Len(l) \in Nat
    BY <2>1, <1>1
  <2>3. NextMerged(MergeNext(l, k), l, k)
    BY <2>1, <2>2, <1>1, MergeNextIs
  <2>4. SquashBefore(l, i) = MergeNext(l, k)
    BY <2>1, <1>1 DEF SquashBefore
  <2>5. PICK m : m = MergeNext(l, k)
    OBVIOUS
  <2>6. m \in Seq(Ranges) /\ Len(m) = Len(l) - 1 /\ Cover(m) = Cover(l)
    BY <2>3, <2>5 DEF NextMerged
  <2>7. m # <<>>
    BY <2>2, <2>6
  <2>8. QED BY <2>4, <2>5, <2>6, <2>7
<1>2. CASE ~(i > 1 /\ Continuous(l[i - 1], l[i]))
  <2>1. SquashBefore(l, i) = l
    BY <1>2 DEF SquashBefore
  <2>2. l # <<>>
    OBVIOUS
  <2>3. QED BY <2>1, <2>2
<1>3. QED BY <1>1, <1>2

\* squash_around only joins what touches: it changes no clock.
LEMMA SquashAroundKeeps ==
  ASSUME NEW l \in Seq(Ranges), NEW i \in 1..Len(l)
  PROVE  /\ SquashAround(l, i) \in Seq(Ranges) /\ Cover(SquashAround(l, i)) = Cover(l)
         /\ SquashAround(l, i) # <<>>
PROOF
<1>1. PICK m : m = SquashBefore(l, i)
  OBVIOUS
<1>2. m \in Seq(Ranges) /\ Cover(m) = Cover(l) /\ m # <<>>
  BY <1>1, SquashBeforeKeeps
<1>3. SquashAround(l, i) = IF i < Len(m) /\ Continuous(m[i], m[i + 1]) THEN MergeNext(m, i) ELSE m
  BY <1>1 DEF SquashAround, SquashBefore
<1>4. CASE i < Len(m) /\ Continuous(m[i], m[i + 1])
  <2>1. i \in Nat /\ i >= 1 /\ Len(m) \in Nat
    BY <1>2
  <2>2. NextMerged(MergeNext(m, i), m, i)
    BY <2>1, <1>2, <1>4, MergeNextIs
  <2>3. PICK n : n = MergeNext(m, i)
    OBVIOUS
  <2>4. n \in Seq(Ranges) /\ Len(n) = Len(m) - 1 /\ Cover(n) = Cover(m)
    BY <2>2, <2>3 DEF NextMerged
  <2>5. n # <<>>
    BY <2>1, <2>4, <1>4
  <2>6. QED BY <2>3, <2>4, <2>5, <1>2, <1>3, <1>4
<1>5. CASE ~(i < Len(m) /\ Continuous(m[i], m[i + 1]))
  BY <1>2, <1>3, <1>5
<1>6. QED BY <1>4, <1>5

\* What a list of ranges may have become when the clocks C were added.
Widened(C, D) == {u \in Seq(Ranges) : u # <<>> /\ Cover(u) = C \cup D}

\* push_inner adds the clocks of the range, wherever the bisection ends.
LEMMA PushInnerKeeps ==
  ASSUME NEW l \in Seq(Ranges), NEW r \in Ranges
  PROVE  PushInner(l, r) \subseteq Widened(Cover(l), Clocks(r))
PROOF
<1>1. CASE l = <<>>
  <2>1. PICK u : u = <<r>>
    OBVIOUS
  <2>2. u \in Seq(Ranges) /\ u # <<>> /\ DOMAIN u = {1} /\ u[1] = r
    BY <2>1
  <2>3. Cover(u) = Clocks(r)
    BY <2>2 DEF Cover
  <2>4. Cover(l) = {}
    BY <1>1 DEF Cover
  <2>5. PushInner(l, r) = {u}
    BY <1>1, <2>1 DEF PushInner
  <2>6. QED BY <2>2, <2>3, <2>4, <2>5 DEF Widened
<1>2. CASE l # <<>>
  <2>1. ASSUME NEW i \in Found(l, r)
        PROVE  SquashAround(ReplaceAt(l, i, Hull(l[i], r)), i) \in Widened(Cover(l), Clocks(r))
    <3>1. i \in DOMAIN l /\ l[i] \in Ranges
      BY DEF Found
    <3>2. Continuous(l[i], r)
      BY DEF Found, Compared
    <3>3. PICK h : h = Hull(l[i], r)
      OBVIOUS
    <3>4. h \in Ranges /\ Clocks(h) = Clocks(l[i]) \cup Clocks(r)
      BY <3>1, <3>2, <3>3, HullIs
    <3>5. PICK C : C = Clocks(r)
      OBVIOUS
    <3>6. Replaced(l, i, h, C)
      BY <3>1, <3>4, <3>5, ReplaceCovers
    <3>7. PICK m : m = ReplaceAt(l, i, h)
      OBVIOUS
    <3>8. m \in Seq(Ranges) /\ i \in 1..Len(m) /\ Cover(m) = Cover(l) \cup C
      BY <3>1, <3>6, <3>7 DEF Replaced
    <3>9. SquashAround(m, i) \in Widened(Cover(l), C)
      BY <3>8, SquashAroundKeeps DEF Widened
    <3>10. QED BY <3>3, <3>5, <3>7, <3>9
  <2>2. ASSUME NEW i \in InsertPlaces(l, r)
        PROVE  SquashAround(InsertAt(l, i, r), i) \in Widened(Cover(l), Clocks(r))
    <3>1. i \in 1..(Len(l) + 1)
      BY DEF InsertPlaces
    <3>2. Inserted(InsertAt(l, i, r), l, i, r)
      BY <3>1, InsertIs
    <3>3. PICK m : m = InsertAt(l, i, r)
      OBVIOUS
    <3>4. m \in Seq(Ranges) /\ i \in 1..Len(m) /\ Cover(m) = Cover(l) \cup Clocks(r)
      BY <3>1, <3>2, <3>3 DEF Inserted
    <3>5. SquashAround(m, i) \in Widened(Cover(l), Clocks(r))
      BY <3>4, SquashAroundKeeps DEF Widened
    <3>6. QED BY <3>3, <3>5
  <2>3. QED BY <2>1, <2>2, <1>2 DEF PushInner
<1>3. QED BY <1>1, <1>2

-----------------------------------------------------------------------------
(* Entries of a delete set.                                                *)

RangeLists == [frag : BOOLEAN, list : Seq(Ranges)]
Entries == {o \in RangeLists : o.frag \/ Len(o.list) = 1}

\* An entry covers what its list of ranges covers.
LEMMA CoversIs ==
  ASSUME NEW o
  PROVE  Covers(o) = Cover(o.list)
PROOF
<1>1. QED BY DEF Covers, Cover

\* An entry of one range (OrderRange::Range).
LEMMA SingleIs ==
  ASSUME NEW r \in Ranges
  PROVE  Single(r) \in Entries /\ Covers(Single(r)) = Clocks(r)
PROOF
<1>1. PICK u, o : u = <<r>> /\ o = [frag |-> FALSE, list |-> u]
  OBVIOUS
<1>2. u \in Seq(Ranges) /\ Len(u) = 1 /\ DOMAIN u = {1} /\ u[1] = r
  BY <1>1
<1>3. Cover(u) = Clocks(r)
  BY <1>2 DEF Cover
<1>4. o \in Entries /\ o.list = u
  BY <1>1, <1>2 DEF Entries, RangeLists
<1>5. Single(r) = o
  BY <1>1 DEF Single
<1>6. QED BY <1>3, <1>4, <1>5, CoversIs

\* An entry of a list of ranges (OrderRange::Fragment).
LEMMA FragmentIs ==
  ASSUME NEW l \in Seq(Ranges)
  PROVE  Fragment(l) \in Entries /\ Covers(Fragment(l)) = Cover(l)
PROOF
<1>1. PICK o : o = [frag |-> TRUE, list |-> l]
  OBVIOUS
<1>2. o \in Entries /\ o.list = l
  BY <1>1 DEF Entries, RangeLists
<1>3. Fragment(l) = o
  BY <1>1 DEF Fragment
<1>4. QED BY <1>2, <1>3, CoversIs

\* make_single (range.rs) changes the form of an entry and no clock.
LEMMA MakeSingleIs ==
  ASSUME NEW l \in Seq(Ranges)
  PROVE  MakeSingle(l) \in Entries /\ Covers(MakeSingle(l)) = Cover(l)
PROOF
<1>1. CASE Len(l) = 1
  <2>1. l[1] \in Ranges /\ DOMAIN l = {1}
    BY <1>1
  <2>2. Cover(l) = Clocks(l[1])
    BY <2>1 DEF Cover
  <2>3. QED BY <2>1, <2>2, <1>1, SingleIs DEF MakeSingle
<1>2. CASE Len(l) # 1
  BY <1>2, FragmentIs DEF MakeSingle
<1>3. QED BY <1>1, <1>2

\* What an entry may be that covers C.
Covering(C) == {o \in Entries : Covers(o) = C}

\* push adds the clocks of the range.
LEMMA PushKeeps ==
  ASSUME NEW o \in Entries, NEW r \in Ranges
  PROVE  Push(o, r) \subseteq Covering(Covers(o) \cup Clocks(r))
PROOF
<1>1. o.list \in Seq(Ranges) /\ o.frag \in BOOLEAN
  BY DEF Entries, RangeLists
<1>2. Covers(o) = Cover(o.list)
  BY CoversIs
<1>3. CASE o.frag /\ o.list = <<>>
  <2>1. Covers(o) = {}
    BY <1>2, <1>3 DEF Cover
  <2>2. Push(o, r) = {Single(r)}
    BY <1>3 DEF Push
  <2>3. QED BY <2>1, <2>2, SingleIs DEF Covering
<1>4. CASE o.frag /\ o.list # <<>>
  <2>1. Push(o, r) = {MakeSingle(l) : l \in PushInner(o.list, r)}
    BY <1>4 DEF Push
  <2>2. ASSUME NEW l \in PushInner(o.list, r)
        PROVE  MakeSingle(l) \in Covering(Covers(o) \cup Clocks(r))
    <3>1. l \in Seq(Ranges) /\ Cover(l) = Cover(o.list) \cup Clocks(r)
      BY <1>1, PushInnerKeeps DEF Widened
    <3>2. QED BY <3>1, <1>2, MakeSingleIs DEF Covering
  <2>3. QED BY <2>1, <2>2
<1>5. CASE ~o.frag
  <2>1. PICK q, l : l = o.list /\ q = l[1]
    OBVIOUS
  <2>2. Len(l) = 1 /\ l \in Seq(Ranges)
    BY <2>1, <1>1, <1>5 DEF Entries
  <2>3. DOMAIN l = {1} /\ q \in Ranges
    BY <2>1, <2>2
  <2>4. Covers(o) = Clocks(q)
    BY <2>1, <2>3, <1>2 DEF Cover
  <2>5. q[1] # q[2]
    <3>1. MaxItems \in Nat
      BY DeleteSetsAssumption
    <3>2. q[1] \in 0..MaxItems /\ q[2] \in 0..MaxItems /\ q[1] < q[2]
      BY <2>3, RangeIs
    <3>3. QED BY <3>1, <3>2
  <2>6. Push(o, r) = {IF Continuous(q, r) THEN Single(Hull(q, r))
                      ELSE Fragment(IF q[1] < r[1] THEN <<q, r>> ELSE <<r, q>>)}
    BY <2>1, <2>5, <1>5 DEF Push
  <2>7. CASE Continuous(q, r)
    <3>1. Hull(q, r) \in Ranges /\ Clocks(Hull(q, r)) = Clocks(q) \cup Clocks(r)
      BY <2>3, <2>7, HullIs
    <3>2. QED BY <3>1, <2>4, <2>6, <2>7, SingleIs DEF Covering
  <2>8. CASE ~Continuous(q, r)
    <3>1. PICK u : u = IF q[1] < r[1] THEN <<q, r>> ELSE <<r, q>>
      OBVIOUS
    <3>2. u \in {<<q, r>>, <<r, q>>}
      BY <3>1
    <3>3. u \in Seq(Ranges) /\ Cover(u) = Clocks(q) \cup Clocks(r)
      <4>1. ASSUME NEW a \in Ranges, NEW b \in Ranges
            PROVE  <<a, b>> \in Seq(Ranges) /\ Cover(<<a, b>>) = Clocks(a) \cup Clocks(b)
        <5>1. PICK w : w = <<a, b>>
          OBVIOUS
        <5>2. w \in Seq(Ranges) /\ DOMAIN w = {1, 2} /\ w[1] = a /\ w[2] = b
          BY <5>1
        <5>3. Cover(w) = Clocks(a) \cup Clocks(b)
          BY <5>2 DEF Cover
        <5>4. QED BY <5>1, <5>2, <5>3
      <4>2. /\ <<q, r>> \in Seq(Ranges) /\ Cover(<<q, r>>) = Clocks(q) \cup Clocks(r)
            /\ <<r, q>> \in Seq(Ranges) /\ Cover(<<r, q>>) = Clocks(r) \cup Clocks(q)
        BY <4>1, <2>3
      <4>3. QED BY <4>2, <3>2
    <3>4. Push(o, r) = {Fragment(u)}
      BY <3>1, <2>6, <2>8
    <3>5. QED BY <3>3, <3>4, <2>4, FragmentIs DEF Covering
  <2>9. QED BY <2>7, <2>8
<1>6. QED BY <1>1, <1>3, <1>4, <1>5

-----------------------------------------------------------------------------
\* No entry, or one.
Slots == Entries \cup {Vacant}

\* The value for no entry is not an entry.
LEMMA VacantIs ==
  Vacant \notin Entries
PROOF
<1>1. Ranges \subseteq (0..MaxItems) \X (0..MaxItems)
  BY DEF Ranges
<1>2. Seq(Ranges) \subseteq Seq((0..MaxItems) \X (0..MaxItems))
  BY <1>1
<1>3. Entries \subseteq [frag : BOOLEAN, list : Seq((0..MaxItems) \X (0..MaxItems))]
  BY <1>2 DEF Entries, RangeLists
<1>4. QED BY <1>3, DeleteSetsAssumption

\* What a slot of the delete set covers.
LEMMA CoversOfIs ==
  /\ CoversOf(Vacant) = {}
  /\ \A o \in Entries : CoversOf(o) = Covers(o)
PROOF
<1>1. QED BY VacantIs DEF CoversOf

\* An entry that is empty covers nothing.
LEMMA EmptyIs ==
  ASSUME NEW o \in Entries, IsEmpty(o)
  PROVE  o.frag /\ o.list = <<>> /\ Covers(o) = {}
PROOF
<1>1. o.list \in Seq(Ranges) /\ o.frag \in BOOLEAN
  BY DEF Entries, RangeLists
<1>2. o.frag
  <2>1. SUFFICES ASSUME ~o.frag PROVE FALSE
    BY <1>1
  <2>2. Len(o.list) = 1
    BY <2>1 DEF Entries
  <2>3. o.list[1] \in Ranges /\ o.list[1][1] >= o.list[1][2]
    BY <1>1, <2>1, <2>2 DEF IsEmpty
  <2>4. PICK q : q = o.list[1]
    OBVIOUS
  <2>5. q[1] \in 0..MaxItems /\ q[2] \in 0..MaxItems /\ q[1] < q[2] /\ q[1] >= q[2] /\ MaxItems \in Nat
    BY <2>3, <2>4, RangeIs, DeleteSetsAssumption
  <2>6. QED BY <2>5
<1>3. o.list = <<>>
  BY <1>2 DEF IsEmpty
<1>4. Cover(o.list) = {}
  BY <1>3 DEF Cover
<1>5. QED BY <1>2, <1>3, <1>4, CoversIs

\* add_range adds the clocks of the range.
LEMMA AddRangeKeeps ==
  ASSUME NEW v \in Slots, NEW r \in Ranges
  PROVE  AddRange(v, r) \subseteq Covering(CoversOf(v) \cup Clocks(r))
PROOF
<1>1. CASE v = Vacant
  <2>1. AddRange(v, r) = {Single(r)} /\ CoversOf(v) = {}
    BY <1>1, CoversOfIs DEF AddRange
  <2>2. QED BY <2>1, SingleIs DEF Covering
<1>2. CASE v # Vacant /\ IsEmpty(v)
  <2>1. v \in Entries /\ CoversOf(v) = {}
    BY <1>2, CoversOfIs, EmptyIs DEF Slots
  <2>2. AddRange(v, r) = {Single(r)}
    BY <1>2 DEF AddRange
  <2>3. QED BY <2>1, <2>2, SingleIs DEF Covering
<1>3. CASE v # Vacant /\ ~IsEmpty(v)
  <2>1. v \in Entries /\ CoversOf(v) = Covers(v)
    BY <1>3, CoversOfIs DEF Slots
  <2>2. AddRange(v, r) = Push(v, r)
    BY <1>3 DEF AddRange
  <2>3. QED BY <2>1, <2>2, PushKeeps
<1>4. QED BY <1>1, <1>2, <1>3

-----------------------------------------------------------------------------
(* Folds over lists of ranges.                                             *)

\* The greatest of the first numbers is the last of them.
LEMMA MaxUpto ==
  ASSUME NEW k \in Nat \ {0}
  PROVE  Max(1..k) = k /\ (1..k) \ {k} = 1..(k - 1)
PROOF
<1>1. k \in 1..k /\ \A m \in 1..k : k >= m
  OBVIOUS
<1>2. PICK S : S = 1..k
  OBVIOUS
<1>3. Max(S) \in S /\ \A m \in S : Max(S) >= m
  BY <1>1, <1>2 DEF Max
<1>4. (1..k) \ {k} = 1..(k - 1)
  OBVIOUS
<1>5. QED BY <1>1, <1>2, <1>3, <1>4

\* Taking the greatest number out of some of the first n, again and again.
LEMMA MaxOut ==
  ASSUME NEW n \in Nat, NEW s \in SUBSET (1..n)
  PROVE  /\ Cardinality(s) \in Nat /\ Cardinality(s) <= n /\ (Cardinality(s) = 0 <=> s = {})
         /\ s # {} => /\ Max(s) \in s /\ s \ {Max(s)} \in SUBSET (1..n)
                      /\ Cardinality(s \ {Max(s)}) = Cardinality(s) - 1
PROOF
<1>1. IsFiniteSet(1..n) /\ Cardinality(1..n) = n
  BY FS_Interval
<1>2. /\ IsFiniteSet(s) /\ Cardinality(s) \in Nat /\ Cardinality(s) <= n
      /\ (Cardinality(s) = 0 <=> s = {})
  <2>1. IsFiniteSet(s) /\ Cardinality(s) <= n
    BY <1>1, FS_Subset
  <2>2. Cardinality(s) \in Nat
    BY <2>1, FS_CardinalityType
  <2>3. Cardinality(s) = 0 <=> s = {}
    BY <2>1, FS_EmptySet
  <2>4. QED BY <2>1, <2>2, <2>3
<1>3. ASSUME s # {} PROVE Max(s) \in s
  <2>1. \E k \in s : \A m \in s : k >= m
    <3>1. {n - k : k \in s} \subseteq Nat /\ {n - k : k \in s} # {}
      <4>1. \A k \in s : k \in 1..n
        OBVIOUS
      <4>2. \A k \in s : n - k \in Nat
        BY <4>1
      <4>3. QED BY <4>2, <1>3
    <3>2. PICK j \in {n - k : k \in s} : \A i \in {n - k : k \in s} : j <= i
      BY <3>1, LeastOf
    <3>3. n - j \in s /\ \A m \in s : j <= n - m
      BY <3>2
    <3>4. j \in Nat /\ \A m \in s : m \in Nat
      BY <3>1
    <3>5. QED BY <3>3, <3>4
  <2>2. QED BY <2>1 DEF Max
<1>4. ASSUME s # {}
      PROVE  s \ {Max(s)} \in SUBSET (1..n) /\ Cardinality(s \ {Max(s)}) = Cardinality(s) - 1
  BY <1>2, <1>3, <1>4, FS_RemoveElement
<1>5. QED BY <1>2, <1>3, <1>4

\* g is the fold of st's steps, from the first to the last, over every set of
\* places.
FoldsTo(g, n, base, st) ==
  g = [s \in SUBSET (1..n) |-> IF s = {} THEN base ELSE st[Max(s)][g[s \ {Max(s)}]]]

\* Every fold of typed steps has a value.
LEMMA FoldExists ==
  ASSUME NEW n \in Nat, NEW X, NEW base \in X, NEW st \in [1..n -> [X -> X]]
  PROVE  \E g \in [SUBSET (1..n) -> X] : FoldsTo(g, n, base, st)
PROOF
<1> DEFINE D == SUBSET (1..n)
           F(g) == [s \in D |-> IF s = {} THEN base ELSE st[Max(s)][g[s \ {Max(s)}]]]
           Upto(k) == {s \in D : Cardinality(s) <= k}
           Part(k, g) == g \in [D -> X] /\ \A s \in Upto(k) : g[s] = F(g)[s]
           T == {k \in Nat : \E g : Part(k, g)}
<1>1. \A s \in D : /\ Cardinality(s) \in Nat /\ Cardinality(s) <= n
                   /\ (Cardinality(s) = 0 <=> s = {})
                   /\ s # {} => /\ Max(s) \in s /\ s \ {Max(s)} \in D /\ Max(s) \in 1..n
                                /\ Cardinality(s \ {Max(s)}) = Cardinality(s) - 1
  BY MaxOut
<1>2. \A g \in [D -> X] : F(g) \in [D -> X]
  <2>1. ASSUME NEW g \in [D -> X], NEW s \in D, s # {} PROVE st[Max(s)][g[s \ {Max(s)}]] \in X
    <3>1. Max(s) \in 1..n /\ g[s \ {Max(s)}] \in X
      BY <2>1, <1>1
    <3>2. QED BY <3>1
  <2> HIDE DEF D
  <2>2. QED BY <2>1
<1>3. 0 \in T
  <2>1. PICK g : g = [s \in D |-> base]
    OBVIOUS
  <2>2. g \in [D -> X]
    BY <2>1
  <2>3. ASSUME NEW s \in Upto(0) PROVE g[s] = F(g)[s]
    <3>1. s \in D /\ s = {}
      <4>1. s \in D /\ Cardinality(s) <= 0
        OBVIOUS
      <4>2. Cardinality(s) \in Nat /\ (Cardinality(s) = 0 <=> s = {})
        BY <4>1, <1>1
      <4>3. QED BY <4>1, <4>2
    <3> HIDE DEF D
    <3>2. QED BY <3>1, <2>1
  <2>4. Part(0, g)
    BY <2>2, <2>3
  <2> HIDE DEF Part
  <2>5. QED BY <2>4
<1>4. ASSUME NEW k \in Nat, k \in T PROVE k + 1 \in T
  <2>1. PICK g : Part(k, g)
    BY <1>4
  <2>2. PICK h : h = F(g)
    OBVIOUS
  <2>3. g \in [D -> X] /\ h \in [D -> X]
    BY <2>1, <2>2, <1>2
  <2>4. ASSUME NEW s \in Upto(k + 1) PROVE h[s] = F(h)[s]
    <3>1. s \in D
      OBVIOUS
    <3>2. CASE s = {}
      <4> HIDE DEF D
      <4>1. QED BY <3>1, <3>2, <2>2
    <3>3. CASE s # {}
      <4>1. PICK x, t : x = Max(s) /\ t = s \ {Max(s)}
        OBVIOUS
      <4>2. t \in Upto(k)
        <5>1. Cardinality(s) <= k + 1 /\ Cardinality(s) \in Nat /\ t \in D
              /\ Cardinality(t) = Cardinality(s) - 1
          BY <3>3, <4>1, <1>1
        <5> HIDE DEF D
        <5>2. QED BY <5>1
      <4>3. h[t] = g[t]
        <5>1. g[t] = F(g)[t]
          BY <4>2, <2>1
        <5> HIDE DEF F
        <5>2. QED BY <5>1, <2>2
      <4> HIDE DEF D
      <4>4. h[s] = st[x][g[t]]
        BY <3>1, <3>3, <4>1, <2>2
      <4>5. F(h)[s] = st[x][h[t]]
        BY <3>1, <3>3, <4>1
      <4>6. QED BY <4>3, <4>4, <4>5
    <3>4. QED BY <3>2, <3>3
  <2>5. Part(k + 1, h)
    BY <2>3, <2>4
  <2> HIDE DEF Part
  <2>6. QED BY <2>5
<1>5. n \in T
  <2> HIDE DEF T
  <2>1. QED BY <1>3, <1>4, Induction
<1>6. PICK g : Part(n, g)
  BY <1>5
<1>7. g = F(g)
  <2>1. Upto(n) = D
    BY <1>1
  <2>2. \A s \in D : g[s] = F(g)[s]
    BY <1>6, <2>1
  <2>3. g \in [D -> X] /\ F(g) \in [D -> X]
    BY <1>6, <1>2
  <2> HIDE DEF F, D
  <2>4. QED BY <2>2, <2>3
<1>8. g \in [D -> X]
  BY <1>6
<1>9. FoldsTo(g, n, base, st)
  BY <1>7 DEF FoldsTo
<1>10. QED BY <1>8, <1>9

-----------------------------------------------------------------------------
(* Adding a list of ranges to an entry.                                    *)

\* acc[k] is what can have come of the entry after k of the ranges.
AddedUpto(acc, v, rs) ==
  /\ acc[0] = {v}
  /\ \A k \in 1..Len(rs) : acc[k] = UNION {AddRange(u, rs[k]) : u \in acc[k - 1]}
  /\ AddAll(v, rs) = acc[Len(rs)]

\* The fold of AddAll, one range after the other.
LEMMA AddAllUnrolled ==
  ASSUME NEW v \in Slots, NEW rs \in Seq(Ranges)
  PROVE  \E acc : AddedUpto(acc, v, rs)
PROOF
<1> DEFINE D == DOMAIN rs
           F(g) == [s \in SUBSET D |-> IF s = {} THEN {v}
                      ELSE LET x == Max(s) IN UNION {AddRange(u, rs[x]) : u \in g[s \ {x}]}]
           it == CHOOSE g : g = F(g)
<1>1. AddAll(v, rs) = it[D]
  BY DEF AddAll, FoldLeft, MapThenFoldSet
<1>2. PICK n \in Nat : n = Len(rs) /\ D = 1..n
  OBVIOUS
<1>3. \E g : g = F(g)
  <2> DEFINE X == SUBSET Slots
             st == [k \in 1..n |-> [us \in X |-> UNION {AddRange(u, rs[k]) : u \in us}]]
  <2>1. {v} \in X
    OBVIOUS
  <2>2. st \in [1..n -> [X -> X]]
    <3>1. ASSUME NEW k \in 1..n, NEW us \in X PROVE UNION {AddRange(u, rs[k]) : u \in us} \in X
      <4>1. rs[k] \in Ranges
        BY <1>2
      <4>2. \A u \in us : AddRange(u, rs[k]) \subseteq Slots
        BY <4>1, AddRangeKeeps DEF Covering, Slots
      <4>3. QED BY <4>2
    <3> HIDE DEF X
    <3>2. QED BY <3>1
  <2>3. PICK g \in [SUBSET (1..n) -> X] : FoldsTo(g, n, {v}, st)
    <3> HIDE DEF X, st
    <3>1. QED BY <2>1, <2>2, FoldExists
  <2>4. g = F(g)
    <3>1. g = [s \in SUBSET (1..n) |-> IF s = {} THEN {v} ELSE st[Max(s)][g[s \ {Max(s)}]]]
      BY <2>3 DEF FoldsTo
    <3>2. ASSUME NEW s \in SUBSET (1..n), s # {}
          PROVE  st[Max(s)][g[s \ {Max(s)}]] = UNION {AddRange(u, rs[Max(s)]) : u \in g[s \ {Max(s)}]}
      <4>1. Max(s) \in 1..n /\ s \ {Max(s)} \in SUBSET (1..n)
        BY <3>2, MaxOut
      <4>2. g[s \ {Max(s)}] \in X
        BY <4>1
      <4>3. PICK k, us : k = Max(s) /\ us = g[s \ {Max(s)}]
        OBVIOUS
      <4>4. k \in 1..n /\ us \in X
        BY <4>1, <4>2, <4>3
      <4>5. st[k][us] = UNION {AddRange(u, rs[k]) : u \in us}
        <5> HIDE DEF X
        <5>1. QED BY <4>4
      <4> HIDE DEF st
      <4>6. QED BY <4>3, <4>5
    <3>3. F(g) = [s \in SUBSET (1..n) |-> IF s = {} THEN {v}
                    ELSE UNION {AddRange(u, rs[Max(s)]) : u \in g[s \ {Max(s)}]}]
      BY <1>2
    <3> HIDE DEF st, F
    <3>4. QED BY <3>1, <3>2, <3>3
  <2> HIDE DEF F
  <2>5. QED BY <2>4
<1>4. it = F(it)
  <2> HIDE DEF F
  <2>1. QED BY <1>3
<1>5. \A s \in SUBSET (1..n) :
        it[s] = IF s = {} THEN {v} ELSE UNION {AddRange(u, rs[Max(s)]) : u \in it[s \ {Max(s)}]}
  <2>1. PICK h : h = it
    OBVIOUS
  <2>2. h = F(h)
    BY <1>4, <2>1
  <2>3. D = 1..n
    BY <1>2
  <2> HIDE DEF it, D
  <2>4. QED BY <2>1, <2>2, <2>3
<1> HIDE DEF it, D
<1>6. PICK acc : acc = [k \in 0..n |-> it[1..k]]
  OBVIOUS
<1>7. acc[0] = {v}
  <2>1. 1..0 = {} /\ 0 \in 0..n /\ {} \in SUBSET (1..n)
    OBVIOUS
  <2>2. acc[0] = it[{}]
    BY <1>6, <2>1
  <2>3. QED BY <2>1, <2>2, <1>5
<1>8. ASSUME NEW k \in 1..n PROVE acc[k] = UNION {AddRange(u, rs[k]) : u \in acc[k - 1]}
  <2>1. k - 1 \in 0..n /\ k \in 0..n /\ 1..k \in SUBSET (1..n) /\ k \in 1..k /\ k \in Nat \ {0}
    OBVIOUS
  <2>2. Max(1..k) = k /\ (1..k) \ {k} = 1..(k - 1)
    BY <2>1, MaxUpto
  <2>3. it[1..k] = UNION {AddRange(u, rs[Max(1..k)]) : u \in it[(1..k) \ {Max(1..k)}]}
    BY <2>1, <1>5
  <2>4. acc[k] = it[1..k] /\ acc[k - 1] = it[1..(k - 1)]
    BY <2>1, <1>6
  <2>5. QED BY <2>2, <2>3, <2>4
<1>9. AddAll(v, rs) = acc[n]
  <2>1. acc[n] = it[1..n]
    BY <1>6
  <2>2. QED BY <2>1, <1>1, <1>2
<1>10. AddedUpto(acc, v, rs)
  BY <1>2, <1>7, <1>8, <1>9 DEF AddedUpto
<1>11. QED BY <1>10

\* Ranges 1 .. k of a list cover the clocks of the first k - 1 and of the k-th.
CoverUpto(rs, k) == UNION {Clocks(rs[i]) : i \in 1..k}

\* One range more covers its clocks more.
LEMMA CoverNext ==
  ASSUME NEW rs, NEW k \in Nat \ {0}
  PROVE  CoverUpto(rs, k) = CoverUpto(rs, k - 1) \cup Clocks(rs[k])
PROOF
<1>1. 1..k = (1..(k - 1)) \cup {k}
  OBVIOUS
<1>2. QED BY <1>1 DEF CoverUpto

\* Adding ranges adds their clocks, in whatever order they come.
LEMMA AddAllKeeps ==
  ASSUME NEW v \in Slots, NEW rs \in Seq(Ranges)
  PROVE  \A u \in AddAll(v, rs) : u \in Slots /\ CoversOf(u) = CoversOf(v) \cup Cover(rs)
PROOF
<1>1. PICK acc : AddedUpto(acc, v, rs)
  BY AddAllUnrolled
<1> DEFINE Good(k) == \A u \in acc[k] : u \in Slots /\ CoversOf(u) = CoversOf(v) \cup CoverUpto(rs, k)
           T == {k \in Nat : k <= Len(rs) => Good(k)}
<1>2. 0 \in T
  <2>1. acc[0] = {v} /\ CoverUpto(rs, 0) = {}
    BY <1>1 DEF AddedUpto, CoverUpto
  <2>2. QED BY <2>1
<1>3. ASSUME NEW k \in Nat, k \in T PROVE k + 1 \in T
  <2> SUFFICES ASSUME k + 1 <= Len(rs) PROVE Good(k + 1)
    OBVIOUS
  <2>1. PICK m : m = k + 1
    OBVIOUS
  <2>2. m \in 1..Len(rs) /\ m - 1 = k /\ m \in Nat \ {0} /\ rs[m] \in Ranges
    BY <2>1
  <2>3. acc[m] = UNION {AddRange(u, rs[m]) : u \in acc[k]}
    BY <2>2, <1>1 DEF AddedUpto
  <2>4. Good(k)
    BY <2>2, <1>3
  <2>5. CoverUpto(rs, m) = CoverUpto(rs, k) \cup Clocks(rs[m])
    BY <2>2, CoverNext
  <2>6. ASSUME NEW w \in acc[m]
        PROVE  w \in Slots /\ CoversOf(w) = CoversOf(v) \cup CoverUpto(rs, m)
    <3>1. PICK u \in acc[k] : w \in AddRange(u, rs[m])
      BY <2>3
    <3>2. u \in Slots /\ CoversOf(u) = CoversOf(v) \cup CoverUpto(rs, k)
      BY <2>4, <3>1
    <3>3. w \in Entries /\ Covers(w) = CoversOf(u) \cup Clocks(rs[m])
      BY <2>2, <3>1, <3>2, AddRangeKeeps DEF Covering
    <3>4. CoversOf(w) = Covers(w) /\ w \in Slots
      BY <3>3, CoversOfIs DEF Slots
    <3>5. QED BY <2>5, <3>2, <3>3, <3>4
  <2>7. QED BY <2>1, <2>6
<1>4. Len(rs) \in Nat /\ Nat \subseteq T
  <2> HIDE DEF T
  <2>1. QED BY <1>2, <1>3, Induction
<1>5. Good(Len(rs))
  BY <1>4
<1>6. CoverUpto(rs, Len(rs)) = Cover(rs)
  <2>1. DOMAIN rs = 1..Len(rs)
    OBVIOUS
  <2>2. QED BY <2>1 DEF CoverUpto, Cover
<1>7. QED BY <1>1, <1>5, <1>6 DEF AddedUpto

-----------------------------------------------------------------------------
(* extend: a list of ranges pushed one after the other.                    *)

Pushed(l, rs) == FoldLeft(LAMBDA ls, r : UNION {PushInner(u, r) : u \in ls}, {l}, rs)

\* acc[k] is what can have come of the list after k of the ranges.
PushedUpto(acc, l, rs) ==
  /\ acc[0] = {l}
  /\ \A k \in 1..Len(rs) : acc[k] = UNION {PushInner(u, rs[k]) : u \in acc[k - 1]}
  /\ Pushed(l, rs) = acc[Len(rs)]

\* The fold of Pushed, one range after the other.
LEMMA PushedUnrolled ==
  ASSUME NEW l \in Seq(Ranges), NEW rs \in Seq(Ranges)
  PROVE  \E acc : PushedUpto(acc, l, rs)
PROOF
<1> DEFINE D == DOMAIN rs
           F(g) == [s \in SUBSET D |-> IF s = {} THEN {l}
                      ELSE LET x == Max(s) IN UNION {PushInner(u, rs[x]) : u \in g[s \ {x}]}]
           it == CHOOSE g : g = F(g)
<1>1. Pushed(l, rs) = it[D]
  BY DEF Pushed, FoldLeft, MapThenFoldSet
<1>2. PICK n \in Nat : n = Len(rs) /\ D = 1..n
  OBVIOUS
<1>3. \E g : g = F(g)
  <2> DEFINE X == SUBSET Seq(Ranges)
             st == [k \in 1..n |-> [us \in X |-> UNION {PushInner(u, rs[k]) : u \in us}]]
  <2>1. {l} \in X
    OBVIOUS
  <2>2. st \in [1..n -> [X -> X]]
    <3>1. ASSUME NEW k \in 1..n, NEW us \in X PROVE UNION {PushInner(u, rs[k]) : u \in us} \in X
      <4>1. rs[k] \in Ranges
        BY <1>2
      <4>2. \A u \in us : PushInner(u, rs[k]) \subseteq Seq(Ranges)
        BY <4>1, PushInnerKeeps DEF Widened
      <4>3. QED BY <4>2
    <3> HIDE DEF X
    <3>2. QED BY <3>1
  <2>3. PICK g \in [SUBSET (1..n) -> X] : FoldsTo(g, n, {l}, st)
    <3> HIDE DEF X, st
    <3>1. QED BY <2>1, <2>2, FoldExists
  <2>4. g = F(g)
    <3>1. g = [s \in SUBSET (1..n) |-> IF s = {} THEN {l} ELSE st[Max(s)][g[s \ {Max(s)}]]]
      BY <2>3 DEF FoldsTo
    <3>2. ASSUME NEW s \in SUBSET (1..n), s # {}
          PROVE  st[Max(s)][g[s \ {Max(s)}]] = UNION {PushInner(u, rs[Max(s)]) : u \in g[s \ {Max(s)}]}
      <4>1. Max(s) \in 1..n /\ s \ {Max(s)} \in SUBSET (1..n)
        BY <3>2, MaxOut
      <4>2. g[s \ {Max(s)}] \in X
        BY <4>1
      <4>3. PICK k, us : k = Max(s) /\ us = g[s \ {Max(s)}]
        OBVIOUS
      <4>4. k \in 1..n /\ us \in X
        BY <4>1, <4>2, <4>3
      <4>5. st[k][us] = UNION {PushInner(u, rs[k]) : u \in us}
        <5> HIDE DEF X
        <5>1. QED BY <4>4
      <4> HIDE DEF st
      <4>6. QED BY <4>3, <4>5
    <3>3. F(g) = [s \in SUBSET (1..n) |-> IF s = {} THEN {l}
                    ELSE UNION {PushInner(u, rs[Max(s)]) : u \in g[s \ {Max(s)}]}]
      BY <1>2
    <3> HIDE DEF st, F
    <3>4. QED BY <3>1, <3>2, <3>3
  <2> HIDE DEF F
  <2>5. QED BY <2>4
<1>4. it = F(it)
  <2> HIDE DEF F
  <2>1. QED BY <1>3
<1>5. \A s \in SUBSET (1..n) :
        it[s] = IF s = {} THEN {l} ELSE UNION {PushInner(u, rs[Max(s)]) : u \in it[s \ {Max(s)}]}
  <2>1. PICK h : h = it
    OBVIOUS
  <2>2. h = F(h)
    BY <1>4, <2>1
  <2>3. D = 1..n
    BY <1>2
  <2> HIDE DEF it, D
  <2>4. QED BY <2>1, <2>2, <2>3
<1> HIDE DEF it, D
<1>6. PICK acc : acc = [k \in 0..n |-> it[1..k]]
  OBVIOUS
<1>7. acc[0] = {l}
  <2>1. 1..0 = {} /\ 0 \in 0..n /\ {} \in SUBSET (1..n)
    OBVIOUS
  <2>2. acc[0] = it[{}]
    BY <1>6, <2>1
  <2>3. QED BY <2>1, <2>2, <1>5
<1>8. ASSUME NEW k \in 1..n PROVE acc[k] = UNION {PushInner(u, rs[k]) : u \in acc[k - 1]}
  <2>1. k - 1 \in 0..n /\ k \in 0..n /\ 1..k \in SUBSET (1..n) /\ k \in 1..k /\ k \in Nat \ {0}
    OBVIOUS
  <2>2. Max(1..k) = k /\ (1..k) \ {k} = 1..(k - 1)
    BY <2>1, MaxUpto
  <2>3. it[1..k] = UNION {PushInner(u, rs[Max(1..k)]) : u \in it[(1..k) \ {Max(1..k)}]}
    BY <2>1, <1>5
  <2>4. acc[k] = it[1..k] /\ acc[k - 1] = it[1..(k - 1)]
    BY <2>1, <1>6
  <2>5. QED BY <2>2, <2>3, <2>4
<1>9. Pushed(l, rs) = acc[n]
  <2>1. acc[n] = it[1..n]
    BY <1>6
  <2>2. QED BY <2>1, <1>1, <1>2
<1>10. PushedUpto(acc, l, rs)
  BY <1>2, <1>7, <1>8, <1>9 DEF PushedUpto
<1>11. QED BY <1>10

\* Ranges pushed one after the other add their clocks and no other.
LEMMA PushedKeeps ==
  ASSUME NEW l \in Seq(Ranges), NEW rs \in Seq(Ranges)
  PROVE  \A u \in Pushed(l, rs) : u \in Seq(Ranges) /\ Cover(u) = Cover(l) \cup Cover(rs)
PROOF
<1>1. PICK acc : PushedUpto(acc, l, rs)
  BY PushedUnrolled
<1> DEFINE Good(k) == \A u \in acc[k] : u \in Seq(Ranges) /\ Cover(u) = Cover(l) \cup CoverUpto(rs, k)
           T == {k \in Nat : k <= Len(rs) => Good(k)}
<1>2. 0 \in T
  <2>1. acc[0] = {l} /\ CoverUpto(rs, 0) = {}
    BY <1>1 DEF PushedUpto, CoverUpto
  <2>2. QED BY <2>1
<1>3. ASSUME NEW k \in Nat, k \in T PROVE k + 1 \in T
  <2> SUFFICES ASSUME k + 1 <= Len(rs) PROVE Good(k + 1)
    OBVIOUS
  <2>1. PICK m : m = k + 1
    OBVIOUS
  <2>2. m \in 1..Len(rs) /\ m - 1 = k /\ m \in Nat \ {0} /\ rs[m] \in Ranges
    BY <2>1
  <2>3. acc[m] = UNION {PushInner(u, rs[m]) : u \in acc[k]}
    BY <2>2, <1>1 DEF PushedUpto
  <2>4. Good(k)
    BY <2>2, <1>3
  <2>5. CoverUpto(rs, m) = CoverUpto(rs, k) \cup Clocks(rs[m])
    BY <2>2, CoverNext
  <2>6. ASSUME NEW w \in acc[m]
        PROVE  w \in Seq(Ranges) /\ Cover(w) = Cover(l) \cup CoverUpto(rs, m)
    <3>1. PICK u \in acc[k] : w \in PushInner(u, rs[m])
      BY <2>3
    <3>2. u \in Seq(Ranges) /\ Cover(u) = Cover(l) \cup CoverUpto(rs, k)
      BY <2>4, <3>1
    <3>3. w \in Seq(Ranges) /\ Cover(w) = Cover(u) \cup Clocks(rs[m])
      BY <2>2, <3>1, <3>2, PushInnerKeeps DEF Widened
    <3>4. QED BY <2>5, <3>2, <3>3
  <2>7. QED BY <2>1, <2>6
<1>4. Len(rs) \in Nat /\ Nat \subseteq T
  <2> HIDE DEF T
  <2>1. QED BY <1>2, <1>3, Induction
<1>5. Good(Len(rs))
  BY <1>4
<1>6. CoverUpto(rs, Len(rs)) = Cover(rs)
  <2>1. DOMAIN rs = 1..Len(rs)
    OBVIOUS
  <2>2. QED BY <2>1 DEF CoverUpto, Cover
<1>7. QED BY <1>1, <1>5, <1>6 DEF PushedUpto

\* extend adds the clocks of all the ranges.
LEMMA ExtendKeeps ==
  ASSUME NEW o \in Entries, NEW rs \in Seq(Ranges)
  PROVE  Extend(o, rs) \subseteq Covering(Covers(o) \cup Cover(rs))
PROOF
<1>1. PICK start : start = IF ~o.frag /\ IsEmpty(o) THEN <<>> ELSE o.list
  OBVIOUS
<1>2. o.list \in Seq(Ranges)
  BY DEF Entries, RangeLists
<1>3. start = o.list
  BY <1>1, EmptyIs
<1>4. Extend(o, rs) = {MakeSingle(l) : l \in Pushed(start, rs)}
  BY <1>1 DEF Extend, Pushed
<1>5. ASSUME NEW l \in Pushed(start, rs) PROVE MakeSingle(l) \in Covering(Covers(o) \cup Cover(rs))
  <2>1. l \in Seq(Ranges) /\ Cover(l) = Cover(o.list) \cup Cover(rs)
    BY <1>2, <1>3, PushedKeeps
  <2>2. QED BY <2>1, MakeSingleIs, CoversIs DEF Covering
<1>6. QED BY <1>4, <1>5

\* batch_add_ranges adds the clocks of the batch.
LEMMA BatchAddKeeps ==
  ASSUME NEW v \in Slots, NEW rs \in Seq(Ranges)
  PROVE  \A u \in BatchAdd(v, rs) : u \in Slots /\ CoversOf(u) = CoversOf(v) \cup Cover(rs)
PROOF
<1>1. CASE v = Vacant
  <2>1. BatchAdd(v, rs) = {Fragment(rs)} /\ CoversOf(v) = {}
    BY <1>1, CoversOfIs DEF BatchAdd
  <2>2. QED BY <2>1, FragmentIs, CoversOfIs DEF Slots
<1>2. CASE v # Vacant
  <2>1. v \in Entries /\ CoversOf(v) = Covers(v) /\ BatchAdd(v, rs) = Extend(v, rs)
    BY <1>2, CoversOfIs DEF Slots, BatchAdd
  <2>2. \A u \in Extend(v, rs) : u \in Entries /\ Covers(u) = Covers(v) \cup Cover(rs)
    BY <2>1, ExtendKeeps DEF Covering
  <2>3. QED BY <2>1, <2>2, CoversOfIs DEF Slots
<1>3. QED BY <1>1, <1>2

\* merge keeps the clocks of both.
LEMMA MergeKeeps ==
  ASSUME NEW v \in Slots, NEW w \in Slots
  PROVE  \A u \in Merge(v, w) : u \in Slots /\ CoversOf(u) = CoversOf(v) \cup CoversOf(w)
PROOF
<1>1. CASE v = Vacant
  <2>1. Merge(v, w) = {w} /\ CoversOf(v) = {}
    BY <1>1, CoversOfIs DEF Merge
  <2>2. QED BY <2>1
<1>2. CASE v # Vacant /\ w = Vacant
  <2>1. Merge(v, w) = {v} /\ CoversOf(w) = {}
    BY <1>2, CoversOfIs DEF Merge
  <2>2. QED BY <2>1
<1>3. CASE v # Vacant /\ w # Vacant
  <2>1. v \in Entries /\ w \in Entries /\ Merge(v, w) = Extend(v, w.list)
    BY <1>3 DEF Merge, Slots
  <2>2. w.list \in Seq(Ranges)
    BY <2>1 DEF Entries, RangeLists
  <2>3. \A u \in Extend(v, w.list) : u \in Entries /\ Covers(u) = Covers(v) \cup Cover(w.list)
    BY <2>1, <2>2, ExtendKeeps DEF Covering
  <2>4. CoversOf(v) = Covers(v) /\ CoversOf(w) = Cover(w.list)
    BY <2>1, CoversOfIs, CoversIs
  <2>5. QED BY <2>1, <2>3, <2>4, CoversOfIs DEF Slots
<1>4. QED BY <1>1, <1>2, <1>3

\* Writing and reading an entry changes its form and no clock.
LEMMA TranscodedKeeps ==
  ASSUME NEW v \in Slots
  PROVE  Transcoded(v) \in Slots /\ CoversOf(Transcoded(v)) = CoversOf(v)
PROOF
<1>1. CASE v = Vacant
  BY <1>1 DEF Transcoded, Slots
<1>2. CASE v # Vacant
  <2>1. v \in Entries /\ v.list \in Seq(Ranges) /\ CoversOf(v) = Cover(v.list)
    BY <1>2, CoversOfIs, CoversIs DEF Slots, Entries, RangeLists
  <2>2. Transcoded(v) = MakeSingle(v.list)
    BY <1>2 DEF Transcoded, MakeSingle
  <2>3. QED BY <2>1, <2>2, MakeSingleIs, CoversOfIs DEF Slots
<1>3. QED BY <1>1, <1>2

-----------------------------------------------------------------------------
(* FlattenSeq, and what DeleteSetIterator keeps of a range.                *)

\* Two lists, one after the other, cover what either does.
LEMMA CoverCat ==
  ASSUME NEW a \in Seq(Ranges), NEW b \in Seq(Ranges)
  PROVE  a \o b \in Seq(Ranges) /\ Cover(a \o b) = Cover(a) \cup Cover(b)
PROOF
<1>1. PICK c : c = a \o b
  OBVIOUS
<1>2. c \in Seq(Ranges) /\ Joined(c, a, b)
  BY <1>1, CatIs
<1>3. /\ Len(c) = Len(a) + Len(b)
      /\ \A q \in 1..Len(a) : c[q] = a[q]
      /\ \A k \in 1..Len(b) : c[Len(a) + k] = b[k]
  BY <1>2 DEF Joined
<1>4. /\ Len(a) \in Nat /\ Len(b) \in Nat /\ DOMAIN a = 1..Len(a) /\ DOMAIN b = 1..Len(b)
      /\ DOMAIN c = 1..(Len(a) + Len(b))
  BY <1>2, <1>3
<1>5. PICK m, n : m = Len(a) /\ n = Len(b)
  OBVIOUS
<1>6. ASSUME NEW q \in 1..(m + n) PROVE Clocks(c[q]) \subseteq Cover(a) \cup Cover(b)
  <2>1. CASE q <= m
    <3>1. q \in 1..m
      BY <2>1, <1>4, <1>5
    <3>2. c[q] = a[q]
      BY <3>1, <1>3, <1>5
    <3>3. QED BY <3>1, <3>2, <1>4, <1>5 DEF Cover
  <2>2. CASE q > m
    <3>1. PICK k : k = q - m
      OBVIOUS
    <3>2. k \in 1..n /\ m + k = q
      BY <2>2, <3>1, <1>4, <1>5
    <3>3. c[q] = b[k]
      BY <3>2, <1>3, <1>5
    <3>4. QED BY <3>2, <3>3, <1>4, <1>5 DEF Cover
  <2>3. QED BY <2>1, <2>2, <1>4, <1>5
<1>7. ASSUME NEW q \in 1..m PROVE Clocks(a[q]) \subseteq Cover(c)
  <2>1. q \in DOMAIN c /\ c[q] = a[q]
    BY <1>3, <1>4, <1>5
  <2>2. QED BY <2>1 DEF Cover
<1>8. ASSUME NEW k \in 1..n PROVE Clocks(b[k]) \subseteq Cover(c)
  <2>1. m + k \in DOMAIN c /\ c[m + k] = b[k]
    BY <1>3, <1>4, <1>5
  <2>2. QED BY <2>1 DEF Cover
<1>9. Cover(c) \subseteq Cover(a) \cup Cover(b)
  BY <1>4, <1>5, <1>6 DEF Cover
<1>10. Cover(a) \subseteq Cover(c) /\ Cover(b) \subseteq Cover(c)
  BY <1>4, <1>5, <1>7, <1>8 DEF Cover
<1>11. QED BY <1>1, <1>2, <1>9, <1>10

\* f[i] is the concatenation of the first i lists.
FlatUpto(f, ss) ==
  /\ f[0] = <<>> /\ \A i \in 1..Len(ss) : f[i] \in Seq(Ranges) /\ f[i] = f[i - 1] \o ss[i]
  /\ FlattenSeq(ss) = f[Len(ss)]

\* FlattenSeq, one list after the other.
LEMMA FlattenUnrolled ==
  ASSUME NEW ss \in Seq(Seq(Ranges))
  PROVE  \E f : FlatUpto(f, ss)
PROOF
<1>1. PICK n \in Nat : n = Len(ss) /\ DOMAIN ss = 1..n
  OBVIOUS
<1>2. \A i \in 1..n : ss[i] \in Seq(Ranges)
  BY <1>1
<1>3. PICK S : S = Seq(Ranges)
  OBVIOUS
<1>4. <<>> \in S /\ \A u \in S : <<>> \o u = u
  BY <1>3
<1>5. PICK st : st = [i \in 1..n |-> [u \in S |-> u \o ss[i]]]
  OBVIOUS
<1>6. st \in [1..n -> [S -> S]]
  <2>1. \A i \in 1..n, u \in S : u \o ss[i] \in S
    BY <1>2, <1>3
  <2>2. QED BY <2>1, <1>5
<1>7. PICK g : Computes(g, n, S, <<>>, st)
  BY <1>4, <1>6, Recursion
<1>8. g \in [0..n -> S] /\ g[0] = <<>> /\ \A i \in 1..n : g[i] = g[i - 1] \o ss[i]
  <2>1. g \in [0..n -> S] /\ g[0] = <<>> /\ \A i \in 1..n : g[i] = st[i][g[i - 1]]
    BY <1>7 DEF Computes
  <2>2. ASSUME NEW i \in 1..n PROVE g[i] = g[i - 1] \o ss[i]
    <3>1. i - 1 \in 0..n
      OBVIOUS
    <3>2. g[i - 1] \in S
      BY <3>1, <2>1
    <3>3. QED BY <3>2, <2>1, <1>5
  <2>3. QED BY <2>1, <2>2
<1> DEFINE F(h) == [i \in 1..n |-> IF i = 1 THEN ss[i] ELSE h[i - 1] \o ss[i]]
<1>9. PICK h : h = [i \in 1..n |-> g[i]]
  OBVIOUS
<1>10. h = F(h)
  <2>1. ASSUME NEW i \in 1..n PROVE g[i] = IF i = 1 THEN ss[i] ELSE h[i - 1] \o ss[i]
    <3>1. CASE i = 1
      <4>1. i - 1 = 0 /\ ss[i] \in S
        BY <3>1, <1>2, <1>3
      <4>2. g[i] = <<>> \o ss[i]
        BY <4>1, <1>8
      <4>3. QED BY <4>1, <4>2, <3>1, <1>4
    <3>2. CASE i # 1
      <4>1. i - 1 \in 1..n
        BY <3>2
      <4>2. QED BY <4>1, <3>2, <1>8, <1>9
    <3>3. QED BY <3>1, <3>2
  <2>2. QED BY <2>1, <1>9
<1> DEFINE fl == CHOOSE f : f = F(f)
<1>11. fl = F(fl)
  <2> HIDE DEF F
  <2>1. QED BY <1>10
<1>12. FlattenSeq(ss) = IF n = 0 THEN ss ELSE fl[n]
  BY <1>1 DEF FlattenSeq
<1>13. PICK f : f = [i \in 0..n |-> IF i = 0 THEN <<>> ELSE fl[i]]
  OBVIOUS
<1>14. \A i \in 1..n : fl[i] = IF i = 1 THEN ss[i] ELSE fl[i - 1] \o ss[i]
  <2> HIDE DEF fl
  <2>1. PICK e : e = fl
    OBVIOUS
  <2>2. e = [i \in 1..n |-> IF i = 1 THEN ss[i] ELSE e[i - 1] \o ss[i]]
    BY <1>11, <2>1
  <2>3. \A i \in 1..n : e[i] = IF i = 1 THEN ss[i] ELSE e[i - 1] \o ss[i]
    BY <2>2
  <2>4. QED BY <2>1, <2>3
<1> HIDE DEF fl, F
<1>15. f[0] = <<>> /\ \A i \in 1..n : f[i] = f[i - 1] \o ss[i]
  <2>1. f[0] = <<>>
    BY <1>13
  <2>2. ASSUME NEW i \in 1..n PROVE f[i] = f[i - 1] \o ss[i]
    <3>1. i \in 0..n /\ i # 0 /\ f[i] = fl[i]
      BY <1>13
    <3>2. CASE i = 1
      <4>1. f[i - 1] = <<>> /\ ss[i] \in S
        BY <3>2, <2>1, <1>2, <1>3
      <4>2. QED BY <4>1, <3>1, <3>2, <1>4, <1>14
    <3>3. CASE i # 1
      <4>1. i - 1 \in 0..n /\ i - 1 # 0
        BY <3>3
      <4>2. f[i - 1] = fl[i - 1]
        BY <4>1, <1>13
      <4>3. QED BY <4>2, <3>1, <3>3, <1>14
    <3>4. QED BY <3>2, <3>3
  <2>3. QED BY <2>1, <2>2
<1>16. \A i \in 1..n : f[i] \in Seq(Ranges)
  <2> DEFINE T == {i \in Nat : i <= n => f[i] \in S}
  <2>1. 0 \in T
    BY <1>4, <1>15
  <2>2. ASSUME NEW i \in Nat, i \in T PROVE i + 1 \in T
    <3>1. SUFFICES ASSUME i + 1 <= n PROVE f[i + 1] \in S
      OBVIOUS
    <3>2. i + 1 \in 1..n /\ (i + 1) - 1 = i /\ f[i] \in S
      BY <3>1, <2>2
    <3>3. f[i + 1] = f[i] \o ss[i + 1] /\ ss[i + 1] \in S
      BY <3>2, <1>2, <1>3, <1>15
    <3>4. QED BY <3>2, <3>3, <1>3
  <2>3. Nat \subseteq T
    <3> HIDE DEF T
    <3>1. QED BY <2>1, <2>2, Induction
  <2>4. QED BY <2>3, <1>3
<1>17. FlattenSeq(ss) = f[n]
  <2>1. CASE n = 0
    <3>1. ss = <<>>
      BY <2>1, <1>1
    <3>2. QED BY <3>1, <2>1, <1>12, <1>15
  <2>2. CASE n # 0
    BY <2>2, <1>12, <1>13
  <2>3. QED BY <2>1, <2>2
<1>18. FlatUpto(f, ss)
  BY <1>1, <1>15, <1>16, <1>17 DEF FlatUpto
<1>19. QED BY <1>18

\* The concatenation covers what the lists cover.
LEMMA FlattenKeeps ==
  ASSUME NEW ss \in Seq(Seq(Ranges))
  PROVE  /\ FlattenSeq(ss) \in Seq(Ranges)
         /\ Cover(FlattenSeq(ss)) = UNION {Cover(ss[i]) : i \in DOMAIN ss}
PROOF
<1>1. PICK f : FlatUpto(f, ss)
  BY FlattenUnrolled
<1>2. PICK n \in Nat : n = Len(ss) /\ DOMAIN ss = 1..n
  OBVIOUS
<1>3. /\ f[0] = <<>> /\ \A i \in 1..n : f[i] \in Seq(Ranges) /\ f[i] = f[i - 1] \o ss[i]
      /\ FlattenSeq(ss) = f[n]
  BY <1>1, <1>2 DEF FlatUpto
<1> DEFINE Upto(i) == UNION {Cover(ss[j]) : j \in 1..i}
           T == {i \in Nat : i <= n => f[i] \in Seq(Ranges) /\ Cover(f[i]) = Upto(i)}
<1>4. 0 \in T
  <2>1. <<>> \in Seq(Ranges) /\ Cover(<<>>) = {} /\ Upto(0) = {}
    BY DEF Cover
  <2> HIDE DEF Upto
  <2>2. QED BY <2>1, <1>3
<1>5. ASSUME NEW i \in Nat, i \in T PROVE i + 1 \in T
  <2>1. SUFFICES ASSUME i + 1 <= n PROVE f[i + 1] \in Seq(Ranges) /\ Cover(f[i + 1]) = Upto(i + 1)
    OBVIOUS
  <2>2. PICK k : k = i + 1
    OBVIOUS
  <2>3. k \in 1..n /\ k - 1 = i /\ ss[k] \in Seq(Ranges)
    BY <2>1, <2>2, <1>2
  <2>4. f[i] \in Seq(Ranges) /\ Cover(f[i]) = Upto(i)
    BY <2>1, <1>5
  <2>5. f[k] = f[i] \o ss[k]
    BY <2>3, <1>3
  <2>6. f[k] \in Seq(Ranges) /\ Cover(f[k]) = Upto(i) \cup Cover(ss[k])
    <3> HIDE DEF Upto
    <3>1. QED BY <2>3, <2>4, <2>5, CoverCat
  <2>7. 1..k = (1..i) \cup {k}
    BY <2>3
  <2>8. Upto(k) = Upto(i) \cup Cover(ss[k])
    BY <2>7
  <2> HIDE DEF Upto
  <2>9. QED BY <2>2, <2>6, <2>8
<1>6. Nat \subseteq T
  <2> HIDE DEF T
  <2>1. QED BY <1>4, <1>5, Induction
<1>7. f[n] \in Seq(Ranges) /\ Cover(f[n]) = Upto(n)
  <2>1. n \in T
    <3> HIDE DEF T
    <3>1. QED BY <1>6
  <2>2. n <= n
    OBVIOUS
  <2> HIDE DEF Upto
  <2>3. QED BY <2>1, <2>2
<1>8. QED BY <1>2, <1>3, <1>7

-----------------------------------------------------------------------------
(* A set of clocks in clock order (Generated).                             *)

Rank(s, x) == Cardinality({y \in s : y < x})

\* The rank counts the smaller clocks: it grows with the clock and takes
\* every value below the size of the set.
LEMMA RankIs ==
  ASSUME NEW s \in SUBSET Nat, IsFiniteSet(s)
  PROVE  /\ Cardinality(s) \in Nat
         /\ \A x \in s : Rank(s, x) \in 0..(Cardinality(s) - 1)
         /\ \A x, y \in s : x < y => Rank(s, x) < Rank(s, y)
         /\ \A k \in 0..(Cardinality(s) - 1) : \E x \in s : Rank(s, x) = k
PROOF
<1>1. PICK n : n = Cardinality(s)
  OBVIOUS
<1>2. n \in Nat
  BY <1>1, FS_CardinalityType
<1> DEFINE below(x) == {y \in s : y < x}
<1>3. ASSUME NEW x \in s
      PROVE  /\ IsFiniteSet(below(x)) /\ Rank(s, x) \in Nat
             /\ IsFiniteSet(below(x) \cup {x}) /\ Cardinality(below(x) \cup {x}) = Rank(s, x) + 1
  <2>1. IsFiniteSet(below(x))
    BY FS_Subset
  <2>2. Rank(s, x) = Cardinality(below(x)) /\ x \notin below(x)
    BY DEF Rank
  <2> HIDE DEF below
  <2>3. Rank(s, x) \in Nat
    BY <2>1, <2>2, FS_CardinalityType
  <2>4. QED BY <2>1, <2>2, <2>3, FS_AddElement
<1>4. ASSUME NEW x \in s PROVE Rank(s, x) \in 0..(n - 1)
  <2>1. below(x) \cup {x} \subseteq s
    OBVIOUS
  <2>2. Cardinality(below(x) \cup {x}) <= n
    <3> HIDE DEF below
    <3>1. QED BY <2>1, <1>1, FS_Subset
  <2>3. Rank(s, x) \in Nat /\ Rank(s, x) + 1 <= n
    BY <2>2, <1>3
  <2>4. QED BY <2>3, <1>2
<1>5. ASSUME NEW x \in s, NEW y \in s, x < y PROVE Rank(s, x) < Rank(s, y)
  <2>1. below(x) \cup {x} \subseteq below(y)
    <3>1. ASSUME NEW z \in below(x) PROVE z \in below(y)
      <4>1. z \in s /\ z \in Nat /\ x \in Nat /\ y \in Nat /\ z < x /\ x < y
        BY <1>5
      <4>2. z < y
        BY <4>1
      <4>3. QED BY <4>1, <4>2
    <3>2. x \in below(y)
      BY <1>5
    <3> HIDE DEF below
    <3>3. QED BY <3>1, <3>2
  <2>2. IsFiniteSet(below(y)) /\ Rank(s, y) = Cardinality(below(y))
    BY <1>3 DEF Rank
  <2>3. Cardinality(below(x) \cup {x}) <= Rank(s, y)
    <3> HIDE DEF below
    <3>1. QED BY <2>1, <2>2, FS_Subset
  <2>4. Rank(s, x) + 1 <= Rank(s, y) /\ Rank(s, x) \in Nat /\ Rank(s, y) \in Nat
    BY <2>3, <1>3
  <2>5. QED BY <2>4
<1>6. ASSUME NEW k \in 0..(n - 1) PROVE \E x \in s : Rank(s, x) = k
  <2>1. PICK R : R = [x \in s |-> Rank(s, x)]
    OBVIOUS
  <2>2. PICK T : T = 0..(n - 1)
    OBVIOUS
  <2>3. IsFiniteSet(T) /\ Cardinality(T) = n
    BY <2>2, <1>2, FS_Interval
  <2>4. R \in [s -> T]
    BY <2>1, <2>2, <1>4
  <2>5. ASSUME NEW x \in s, NEW y \in s, R[x] = R[y] PROVE x = y
    <3>1. x \in Nat /\ y \in Nat /\ Rank(s, x) = Rank(s, y) /\ Rank(s, x) \in Nat
      BY <2>1, <2>5, <1>3
    <3>2. ~(x < y) /\ ~(y < x)
      BY <3>1, <1>5
    <3>3. QED BY <3>1, <3>2
  <2>6. R \in Injection(s, T)
    BY <2>4, <2>5 DEF Injection, IsInjective
  <2>7. R \in Surjection(s, T)
    BY <2>3, <2>6, <1>1, FS_Injection
  <2>8. PICK x \in s : R[x] = k
    BY <2>2, <2>7 DEF Surjection
  <2>9. QED BY <2>1, <2>8
<1>7. QED BY <1>1, <1>2, <1>4, <1>5, <1>6

\* The clocks of a set, each a range of one, as an update names them.
InClockOrder(s) == [i \in 1..Cardinality(s) |->
                      LET c == CHOOSE x \in s : Cardinality({y \in s : y < x}) = i - 1
                      IN <<c, c + 1>>]

\* cs are the clocks of s in order and rs the ranges that name them.
ListedBy(rs, cs, s) ==
  /\ rs \in Seq(Ranges) /\ Len(rs) = Cardinality(s)
  /\ \A i \in 1..Len(rs) : cs[i] \in s /\ rs[i] = <<cs[i], cs[i] + 1>>
  /\ \A i, j \in 1..Len(rs) : i < j => cs[i] < cs[j]
  /\ Cover(rs) = s

\* The clocks of a finite set can be listed in their order.
LEMMA InClockOrderIs ==
  ASSUME NEW s \in SUBSET (0..(MaxItems - 1))
  PROVE  \E cs : ListedBy(InClockOrder(s), cs, s)
PROOF
<1>1. MaxItems \in Nat /\ IsFiniteSet(0..(MaxItems - 1))
  BY DeleteSetsAssumption, FS_Interval
<1>2. IsFiniteSet(s) /\ s \in SUBSET Nat
  <2>1. \A c \in 0..(MaxItems - 1) : c \in Nat
    BY <1>1
  <2>2. QED BY <2>1, <1>1, FS_Subset
<1>3. PICK n : n = Cardinality(s)
  OBVIOUS
<1>4. /\ n \in Nat
      /\ \A x \in s : Rank(s, x) \in 0..(n - 1)
      /\ \A x, y \in s : x < y => Rank(s, x) < Rank(s, y)
      /\ \A k \in 0..(n - 1) : \E x \in s : Rank(s, x) = k
  BY <1>2, <1>3, RankIs
<1>5. PICK cs : cs = [i \in 1..n |-> CHOOSE x \in s : Rank(s, x) = i - 1]
  OBVIOUS
<1>6. ASSUME NEW i \in 1..n PROVE cs[i] \in s /\ Rank(s, cs[i]) = i - 1
  <2>1. i - 1 \in 0..(n - 1)
    BY <1>4
  <2>2. \E x \in s : Rank(s, x) = i - 1
    BY <2>1, <1>4
  <2>3. QED BY <2>2, <1>5
<1>7. PICK rs : rs = InClockOrder(s)
  OBVIOUS
<1>8. rs = [i \in 1..n |-> <<cs[i], cs[i] + 1>>]
  <2> DEFINE at(i) == CHOOSE x \in s : Cardinality({y \in s : y < x}) = i - 1
  <2>1. \A i \in 1..n : cs[i] = at(i)
    BY <1>5 DEF Rank
  <2>2. rs = [i \in 1..n |-> <<at(i), at(i) + 1>>]
    BY <1>3, <1>7 DEF InClockOrder
  <2> HIDE DEF at
  <2>3. QED BY <2>1, <2>2
<1>9. \A i \in 1..n : cs[i] \in 0..(MaxItems - 1) /\ <<cs[i], cs[i] + 1>> \in Ranges
  <2>1. ASSUME NEW i \in 1..n PROVE cs[i] \in 0..(MaxItems - 1) /\ <<cs[i], cs[i] + 1>> \in Ranges
    <3>1. PICK c : c = cs[i]
      OBVIOUS
    <3>2. c \in 0..(MaxItems - 1)
      BY <3>1, <1>6
    <3>3. c \in 0..MaxItems /\ c + 1 \in 0..MaxItems /\ c < c + 1
      BY <3>2, <1>1
    <3>4. <<c, c + 1>> \in Ranges
      BY <3>3 DEF Ranges
    <3>5. QED BY <3>1, <3>2, <3>4
  <2>2. QED BY <2>1
<1>10. rs \in Seq(Ranges) /\ Len(rs) = n /\ DOMAIN rs = 1..n
  BY <1>4, <1>8, <1>9
<1>11. ASSUME NEW i \in 1..n, NEW j \in 1..n, i < j PROVE cs[i] < cs[j]
  <2>1. /\ cs[i] \in s /\ cs[j] \in s /\ cs[i] \in Nat /\ cs[j] \in Nat
        /\ Rank(s, cs[i]) = i - 1 /\ Rank(s, cs[j]) = j - 1
    BY <1>2, <1>6
  <2>2. ~(cs[j] < cs[i])
    <3>1. cs[j] < cs[i] => j - 1 < i - 1
      BY <2>1, <1>4
    <3>2. QED BY <3>1, <1>11
  <2>3. cs[i] # cs[j]
    <3>1. i - 1 # j - 1
      BY <1>11
    <3>2. QED BY <3>1, <2>1
  <2>4. QED BY <2>1, <2>2, <2>3
<1>12. Cover(rs) = s
  <2>1. \A i \in 1..n : Clocks(rs[i]) = {cs[i]}
    <3>1. ASSUME NEW i \in 1..n PROVE Clocks(rs[i]) = {cs[i]}
      <4>1. PICK c : c = cs[i]
        OBVIOUS
      <4>2. c \in Nat /\ rs[i] = <<c, c + 1>>
        BY <4>1, <1>1, <1>8, <1>9
      <4>3. c..((c + 1) - 1) = {c}
        BY <4>2
      <4>4. QED BY <4>1, <4>2, <4>3 DEF Clocks
    <3>2. QED BY <3>1
  <2>2. Cover(rs) = {cs[i] : i \in 1..n}
    BY <2>1, <1>10 DEF Cover
  <2>3. \A x \in s : \E i \in 1..n : cs[i] = x
    <3>1. ASSUME NEW x \in s PROVE \E i \in 1..n : cs[i] = x
      <4>1. PICK i : i = Rank(s, x) + 1
        OBVIOUS
      <4>2. Rank(s, x) \in 0..(n - 1)
        BY <1>4
      <4>3. i \in 1..n /\ i - 1 = Rank(s, x)
        BY <4>1, <4>2, <1>4
      <4>4. cs[i] \in s /\ Rank(s, cs[i]) = Rank(s, x)
        BY <4>3, <1>6
      <4>5. PICK c : c = cs[i]
        OBVIOUS
      <4>6. c \in s /\ Rank(s, c) = Rank(s, x) /\ c \in Nat /\ x \in Nat /\ Rank(s, x) \in Nat
        <5>1. n \in Nat
          BY <1>4
        <5>2. Rank(s, x) \in Nat
          BY <5>1, <4>2
        <5>3. \A z \in s : z \in Nat
          BY <1>2
        <5>4. Rank(s, c) = Rank(s, cs[i])
          BY <4>5
        <5>5. c \in s /\ Rank(s, c) = Rank(s, x)
          BY <5>4, <4>4, <4>5
        <5>6. c \in Nat /\ x \in Nat
          BY <5>3, <5>5
        <5>7. QED BY <5>2, <5>5, <5>6
      <4>7. ~(c < x) /\ ~(x < c)
        BY <4>6, <1>4
      <4>8. c = x
        BY <4>6, <4>7
      <4>9. QED BY <4>3, <4>5, <4>8
    <3>2. QED BY <3>1
  <2>4. QED BY <2>2, <2>3, <1>6
<1>13. ListedBy(rs, cs, s)
  BY <1>3, <1>6, <1>8, <1>10, <1>11, <1>12 DEF ListedBy
<1>14. QED BY <1>7, <1>13

\* generate_delete_set names exactly the clocks deleted.
LEMMA GeneratedKeeps ==
  ASSUME NEW s \in SUBSET (0..(MaxItems - 1))
  PROVE  \A g \in Generated(s) : g \in Slots /\ CoversOf(g) = s
PROOF
<1>1. PICK rs : rs = InClockOrder(s)
  OBVIOUS
<1>2. rs \in Seq(Ranges) /\ Cover(rs) = s
  BY <1>1, InClockOrderIs DEF ListedBy
<1>3. Generated(s) = AddAll(Vacant, rs)
  BY <1>1 DEF Generated, InClockOrder
<1>4. Vacant \in Slots /\ CoversOf(Vacant) = {}
  BY CoversOfIs DEF Slots
<1>5. QED BY <1>2, <1>3, <1>4, AddAllKeeps

-----------------------------------------------------------------------------
(* Applying a delete set.                                                  *)

\* What of a range the peer cannot delete yet.
LEMMA MissingKeeps ==
  ASSUME NEW r \in Ranges, have \in 0..MaxItems
  PROVE  /\ Missing(r) \in Seq(Ranges)
         /\ (Clocks(r) \cap 0..(have - 1)) \cup Cover(Missing(r)) = Clocks(r)
PROOF
<1>1. PICK a, b, h : a = r[1] /\ b = r[2] /\ h = have
  OBVIOUS
<1>2. /\ a \in 0..MaxItems /\ b \in 0..MaxItems /\ a < b /\ MaxItems \in Nat
      /\ h \in 0..MaxItems /\ r = <<a, b>>
  BY <1>1, RangeIs, DeleteSetsAssumption
<1>3. Clocks(r) = a..(b - 1)
  BY <1>1 DEF Clocks
<1>4. ASSUME NEW q \in Ranges
      PROVE  <<q>> \in Seq(Ranges) /\ Cover(<<q>>) = Clocks(q)
  <2>1. PICK u : u = <<q>>
    OBVIOUS
  <2>2. u \in Seq(Ranges) /\ DOMAIN u = {1} /\ u[1] = q
    BY <2>1
  <2>3. Cover(u) = Clocks(q)
    BY <2>2 DEF Cover
  <2>4. QED BY <2>1, <2>2, <2>3
<1>5. CASE b <= h /\ a < h
  <2>1. Missing(r) = <<>>
    BY <1>1, <1>5 DEF Missing
  <2>2. Cover(<<>>) = {} /\ <<>> \in Seq(Ranges)
    BY DEF Cover
  <2>3. (a..(b - 1)) \cap (0..(h - 1)) = a..(b - 1)
    BY <1>2, <1>5
  <2>4. QED BY <2>1, <2>2, <2>3, <1>1, <1>3
<1>6. CASE ~(b <= h) /\ a < h
  <2>1. PICK q : q = <<h, b>>
    OBVIOUS
  <2>2. Missing(r) = <<q>>
    BY <2>1, <1>1, <1>6 DEF Missing
  <2>3. q \in Ranges
    BY <2>1, <1>2, <1>6 DEF Ranges
  <2>4. Clocks(q) = h..(b - 1)
    BY <2>1 DEF Clocks
  <2>5. ((a..(b - 1)) \cap (0..(h - 1))) \cup (h..(b - 1)) = a..(b - 1)
    BY <1>2, <1>6
  <2>6. QED BY <2>2, <2>3, <2>4, <2>5, <1>1, <1>3, <1>4
<1>7. CASE ~(a < h)
  <2>1. Missing(r) = <<r>>
    BY <1>1, <1>7 DEF Missing
  <2>2. QED BY <2>1, <1>4
<1>8. QED BY <1>5, <1>6, <1>7

-----------------------------------------------------------------------------
(* No delete is lost.                                                      *)

SetsTypeOK ==
  /\ set \in Slots /\ last \in Slots /\ inbox \in Slots /\ pending \in Slots
  /\ gone \subseteq 0..(MaxItems - 1) /\ have \in 0..MaxItems

SetsInv == SetsTypeOK /\ shipped \subseteq gone /\ DeletesKept

\* The store and the peer start with the invariant.
LEMMA SetsInitInv ==
  SetsInit => SetsInv
PROOF
<1>1. MaxItems \in Nat
  BY DeleteSetsAssumption
<1>2. Vacant \in Slots /\ CoversOf(Vacant) = {}
  BY CoversOfIs DEF Slots
<1>3. QED BY <1>1, <1>2 DEF SetsInit, SetsInv, SetsTypeOK, DeletesKept

\* A run of the store's delete_item (store.rs) adds to the delete set what it
\* marks.
LEMMA DeleteItemKeeps ==
  ASSUME SetsInv, DeleteItem
  PROVE  SetsInv'
PROOF
<1>1. PICK b \in Deletable :
        /\ set' \in BatchAdd(set, b)
        /\ gone' = gone \cup UNION {Clocks(b[i]) : i \in DOMAIN b}
        /\ UNCHANGED <<last, inbox, pending, have, erased, shipped>>
  BY DEF DeleteItem
<1>2. PICK n \in 1..MaxBatch : b \in [1..n -> Ranges]
  BY DEF Deletable, Batches
<1>3. n \in Nat /\ b \in Seq(Ranges)
  BY <1>2, DeleteSetsAssumption
<1>4. gone' = gone \cup Cover(b)
  BY <1>1 DEF Cover
<1>5. set \in Slots /\ CoversOf(set) = gone /\ gone \subseteq 0..(MaxItems - 1)
  BY DEF SetsInv, SetsTypeOK, DeletesKept
<1>6. set' \in Slots /\ CoversOf(set') = gone \cup Cover(b)
  BY <1>1, <1>3, <1>5, BatchAddKeeps
<1>7. Cover(b) \subseteq 0..(MaxItems - 1)
  <2>1. ASSUME NEW i \in DOMAIN b PROVE Clocks(b[i]) \subseteq 0..(MaxItems - 1)
    <3>1. PICK r : r = b[i]
      OBVIOUS
    <3>2. r \in Ranges
      BY <3>1, <1>2
    <3>3. PICK x, y : x = r[1] /\ y = r[2]
      OBVIOUS
    <3>4. x \in 0..MaxItems /\ y \in 0..MaxItems /\ MaxItems \in Nat
      BY <3>2, <3>3, RangeIs, DeleteSetsAssumption
    <3>5. x..(y - 1) \subseteq 0..(MaxItems - 1)
      BY <3>4
    <3>6. QED BY <3>1, <3>3, <3>5 DEF Clocks
  <2>2. QED BY <2>1 DEF Cover
<1>8. QED BY <1>1, <1>4, <1>5, <1>6, <1>7 DEF SetsInv, SetsTypeOK, DeletesKept

\* The peer takes the delete set of an update over its pending one.
LEMMA ReceiveKeeps ==
  ASSUME SetsInv, Receive
  PROVE  SetsInv'
PROOF
<1>1. PICK g \in Generated(gone) : inbox' \in Merge(inbox, Transcoded(g))
  BY DEF Receive
<1>2. gone \subseteq 0..(MaxItems - 1) /\ inbox \in Slots
  BY DEF SetsInv, SetsTypeOK
<1>3. g \in Slots /\ CoversOf(g) = gone
  BY <1>1, <1>2, GeneratedKeeps
<1>4. Transcoded(g) \in Slots /\ CoversOf(Transcoded(g)) = gone
  BY <1>3, TranscodedKeeps
<1>5. inbox' \in Slots /\ CoversOf(inbox') = CoversOf(inbox) \cup gone
  BY <1>1, <1>2, <1>4, MergeKeeps
<1>6. /\ shipped' = gone /\ UNCHANGED <<gone, set, last, pending, have, erased>>
  BY DEF Receive
<1>7. /\ shipped \subseteq gone /\ CoversOf(set) = gone
      /\ erased \cup CoversOf(inbox) \cup CoversOf(pending) = shipped
  BY DEF SetsInv, DeletesKept
<1>8. CoversOf(pending') = CoversOf(pending) /\ CoversOf(set') = CoversOf(set)
  BY <1>6
<1>9. erased' \cup CoversOf(inbox') \cup CoversOf(pending') = shipped'
  BY <1>5, <1>6, <1>7, <1>8
<1>10. SetsTypeOK'
  BY <1>5, <1>6 DEF SetsInv, SetsTypeOK
<1>11. QED BY <1>6, <1>7, <1>8, <1>9, <1>10 DEF SetsInv, DeletesKept

\* apply_update of the peer (document.rs): DeleteSetIterator splits what can be
\* deleted from what must wait, and loses nothing of it.
LEMMA IterateDeletesKeeps ==
  ASSUME SetsInv, IterateDeletes
  PROVE  SetsInv'
PROOF
<1>1. inbox \in Entries /\ pending \in Slots /\ have \in 0..MaxItems
  BY DEF SetsInv, SetsTypeOK, Slots, IterateDeletes
<1>2. PICK rs : rs = IF IsEmpty(inbox) THEN <<>> ELSE inbox.list
  OBVIOUS
<1>3. inbox.list \in Seq(Ranges) /\ rs = inbox.list
  BY <1>1, <1>2, EmptyIs DEF Entries, RangeLists
<1>4. CoversOf(inbox) = Cover(rs)
  BY <1>1, <1>3, CoversOfIs, CoversIs
<1>5. PICK ss : ss = [i \in DOMAIN rs |-> Missing(rs[i])]
  OBVIOUS
<1>6. /\ erased' = erased \cup UNION {Clocks(rs[i]) \cap 0..(have - 1) : i \in DOMAIN rs}
      /\ pending' \in AddAll(pending, FlattenSeq(ss))
      /\ inbox' = Vacant /\ UNCHANGED <<gone, set, last, have, shipped>>
  BY <1>2, <1>5 DEF IterateDeletes
<1>7. \A i \in DOMAIN rs : /\ ss[i] \in Seq(Ranges)
                           /\ (Clocks(rs[i]) \cap 0..(have - 1)) \cup Cover(ss[i]) = Clocks(rs[i])
  <2>1. \A i \in DOMAIN rs : rs[i] \in Ranges
    BY <1>3
  <2>2. QED BY <2>1, <1>1, <1>5, MissingKeeps
<1>8. ss \in Seq(Seq(Ranges)) /\ DOMAIN ss = DOMAIN rs
  <2>1. PICK n \in Nat : DOMAIN rs = 1..n
    BY <1>3
  <2>2. QED BY <2>1, <1>5, <1>7
<1>9. PICK fs : fs = FlattenSeq(ss)
  OBVIOUS
<1>10. fs \in Seq(Ranges) /\ Cover(fs) = UNION {Cover(ss[i]) : i \in DOMAIN rs}
  BY <1>8, <1>9, FlattenKeeps
<1>11. pending' \in Slots /\ CoversOf(pending') = CoversOf(pending) \cup Cover(fs)
  BY <1>1, <1>6, <1>9, <1>10, AddAllKeeps
<1>12. (UNION {Clocks(rs[i]) \cap 0..(have - 1) : i \in DOMAIN rs})
         \cup (UNION {Cover(ss[i]) : i \in DOMAIN rs}) = Cover(rs)
  BY <1>7 DEF Cover
<1>13. /\ shipped \subseteq gone /\ CoversOf(set) = gone
       /\ erased \cup CoversOf(inbox) \cup CoversOf(pending) = shipped
  BY DEF SetsInv, DeletesKept
<1>14. CoversOf(set') = gone' /\ CoversOf(inbox') = {}
  BY <1>6, <1>13, CoversOfIs
<1>15. PICK er, ad : /\ er = UNION {Clocks(rs[i]) \cap 0..(have - 1) : i \in DOMAIN rs}
                     /\ ad = UNION {Cover(ss[i]) : i \in DOMAIN rs}
  OBVIOUS
<1>16. erased' \cup CoversOf(inbox') \cup CoversOf(pending') = shipped'
  <2>1. er \cup ad = CoversOf(inbox)
    BY <1>4, <1>12, <1>15
  <2>2. erased' = erased \cup er /\ CoversOf(pending') = CoversOf(pending) \cup ad /\ shipped' = shipped
    BY <1>6, <1>10, <1>11, <1>15
  <2>3. QED BY <2>1, <2>2, <1>13, <1>14
<1>17. SetsTypeOK'
  <2>1. Vacant \in Slots
    BY DEF Slots
  <2>2. QED BY <2>1, <1>6, <1>11 DEF SetsInv, SetsTypeOK
<1>18. QED BY <1>6, <1>13, <1>14, <1>16, <1>17 DEF SetsInv, DeletesKept

\* Every step keeps the invariant.
LEMMA SetsStep ==
  ASSUME SetsInv, [SetsNext]_setsVars
  PROVE  SetsInv'
PROOF
<1>1. CASE DeleteItem
  BY <1>1, DeleteItemKeeps
<1>2. CASE Observe
  BY <1>2 DEF Observe, SetsInv, SetsTypeOK, DeletesKept
<1>3. CASE Receive
  BY <1>3, ReceiveKeeps
<1>4. CASE ItemsArrive
  <2>1. PICK n \in Arrivals : have' = n
    BY <1>4 DEF ItemsArrive
  <2>2. have' \in 0..MaxItems
    BY <2>1, DeleteSetsAssumption
  <2>3. QED BY <1>4, <2>2 DEF ItemsArrive, SetsInv, SetsTypeOK, DeletesKept
<1>5. CASE IterateDeletes
  BY <1>5, IterateDeletesKeeps
<1>6. CASE Drain
  <2>1. /\ inbox = Vacant /\ inbox' = pending /\ pending' = Vacant
        /\ UNCHANGED <<gone, set, last, have, erased, shipped>>
    BY <1>6 DEF Drain
  <2>2. Vacant \in Slots /\ CoversOf(Vacant) = {}
    BY CoversOfIs DEF Slots
  <2>3. QED BY <2>1, <2>2 DEF SetsInv, SetsTypeOK, DeletesKept
<1>7. CASE UNCHANGED setsVars
  BY <1>7 DEF setsVars, SetsInv, SetsTypeOK, DeletesKept
<1>8. QED BY <1>1, <1>2, <1>3, <1>4, <1>5, <1>6, <1>7 DEF SetsNext

\* No delete is lost: the store's delete set covers exactly the clocks it has
\* marked, and every clock an update deleted is deleted at the peer or waits in
\* its pending set, whatever push, extend and merge (range.rs) made of the lists,
\* in whatever order the store deletes and the peer's items arrive
\* (DeleteSetIterator, update.rs).
THEOREM NoDeleteLost ==
  SetsSpec => []DeletesKept
PROOF
<1>1. SetsInit => SetsInv
  BY SetsInitInv
<1>2. SetsInv /\ [SetsNext]_setsVars => SetsInv'
  BY SetsStep
<1>3. SetsInv => DeletesKept
  BY DEF SetsInv
<1>4. QED BY <1>1, <1>2, <1>3, PTL DEF SetsSpec

-----------------------------------------------------------------------------
(* Lists in order.                                                         *)

\* Every range ends before the later ones start.
InOrder(l) == \A i, j \in 1..Len(l) : i < j => l[i][2] < l[j][1]

\* The numbers of a list's ranges.
LEMMA ListNumbers ==
  ASSUME NEW l \in Seq(Ranges)
  PROVE  /\ Len(l) \in Nat /\ DOMAIN l = 1..Len(l)
         /\ \A j \in 1..Len(l) : l[j] \in Ranges /\ l[j][1] \in Nat /\ l[j][2] \in Nat /\ l[j][1] < l[j][2]
PROOF
<1>1. MaxItems \in Nat
  BY DeleteSetsAssumption
<1>2. ASSUME NEW j \in 1..Len(l)
      PROVE  l[j] \in Ranges /\ l[j][1] \in Nat /\ l[j][2] \in Nat /\ l[j][1] < l[j][2]
  <2>1. l[j] \in Ranges
    OBVIOUS
  <2>2. PICK r : r = l[j]
    OBVIOUS
  <2>3. r[1] \in 0..MaxItems /\ r[2] \in 0..MaxItems /\ r[1] < r[2]
    BY <2>1, <2>2, RangeIs
  <2>4. QED BY <2>1, <2>2, <2>3, <1>1
<1>3. QED BY <1>2

\* A list whose neighbours are in order and apart is so as a whole.
LEMMA NormalIs ==
  ASSUME NEW o \in Entries
  PROVE  Normal(o) <=> InOrder(o.list)
PROOF
<1>1. PICK l, n : l = o.list /\ n = Len(l)
  OBVIOUS
<1>2. l \in Seq(Ranges)
  BY <1>1 DEF Entries, RangeLists
<1>3. /\ n \in Nat /\ DOMAIN l = 1..n
      /\ \A j \in 1..n : l[j][1] \in Nat /\ l[j][2] \in Nat /\ l[j][1] < l[j][2]
  BY <1>1, <1>2, ListNumbers
<1>4. Normal(o) <=> \A i \in 1..(n - 1) : l[i][2] < l[i + 1][1]
  BY <1>1, <1>3 DEF Normal
<1>5. ASSUME InOrder(l), NEW i \in 1..(n - 1) PROVE l[i][2] < l[i + 1][1]
  <2>1. i \in 1..n /\ i + 1 \in 1..n /\ i < i + 1
    BY <1>3
  <2>2. QED BY <2>1, <1>1, <1>5 DEF InOrder
<1>6. ASSUME \A i \in 1..(n - 1) : l[i][2] < l[i + 1][1] PROVE InOrder(l)
  <2> DEFINE T == {j \in Nat : j <= n => \A i \in 1..n : i < j => l[i][2] < l[j][1]}
  <2>1. 0 \in T
    OBVIOUS
  <2>2. ASSUME NEW j \in Nat, j \in T PROVE j + 1 \in T
    <3>1. SUFFICES ASSUME j + 1 <= n, NEW i \in 1..n, i < j + 1 PROVE l[i][2] < l[j + 1][1]
      OBVIOUS
    <3>2. j \in 1..(n - 1) /\ j \in 1..n /\ j + 1 \in 1..n
      BY <3>1, <1>3
    <3>3. l[j][2] < l[j + 1][1]
      BY <3>2, <1>6
    <3>4. CASE i = j
      BY <3>3, <3>4
    <3>5. CASE i # j
      <4>1. i < j
        BY <3>1, <3>5
      <4>2. l[i][2] < l[j][1]
        BY <4>1, <3>2, <2>2
      <4>3. /\ l[i][2] \in Nat /\ l[j][1] \in Nat /\ l[j][2] \in Nat /\ l[j][1] < l[j][2]
            /\ l[j + 1][1] \in Nat
        BY <3>2, <1>3
      <4>4. QED BY <4>2, <4>3, <3>3
    <3>6. QED BY <3>4, <3>5
  <2>3. Nat \subseteq T
    <3> HIDE DEF T
    <3>1. QED BY <2>1, <2>2, Induction
  <2>4. \A i, j \in 1..n : i < j => l[i][2] < l[j][1]
    <3>1. ASSUME NEW i \in 1..n, NEW j \in 1..n, i < j PROVE l[i][2] < l[j][1]
      <4>1. j \in Nat /\ j <= n
        BY <1>3
      <4>2. j \in T
        <5> HIDE DEF T
        <5>1. QED BY <4>1, <2>3
      <4>3. QED BY <4>1, <4>2, <3>1
    <3>2. QED BY <3>1
  <2>5. QED BY <2>4, <1>1 DEF InOrder
<1>7. QED BY <1>1, <1>4, <1>5, <1>6

\* Where the ranges of a list in order lie, seen from a range r: those before
\* it, those it touches, those after it.
Sides(l, r) ==
  /\ \A j \in 1..Len(l) : j \in Found(l, r) \/ l[j][2] < r[1] \/ r[2] < l[j][1]
  /\ \A j \in Found(l, r) : j \in 1..Len(l) /\ r[1] <= l[j][2] /\ l[j][1] <= r[2]
  /\ \A i, j \in 1..Len(l) : i < j /\ j \in Found(l, r) /\ i \notin Found(l, r) => l[i][2] < r[1]
  /\ \A i, j \in 1..Len(l) : i < j /\ i \in Found(l, r) /\ j \notin Found(l, r) => r[2] < l[j][1]
  /\ \A i, j, k \in 1..Len(l) : i < j /\ j < k /\ i \in Found(l, r) /\ k \in Found(l, r) => j \in Found(l, r)

\* The places of a list in order fall into these three.
LEMMA SidesAre ==
  ASSUME NEW l \in Seq(Ranges), InOrder(l), NEW r \in Ranges
  PROVE  Sides(l, r) /\ InOrderFor(l, r)
PROOF
<1>1. PICK n, a, b, F : n = Len(l) /\ a = r[1] /\ b = r[2] /\ F = Found(l, r)
  OBVIOUS
<1>2. a \in Nat /\ b \in Nat /\ a < b
  <2>1. MaxItems \in Nat /\ a \in 0..MaxItems /\ b \in 0..MaxItems /\ a < b
    BY <1>1, RangeIs, DeleteSetsAssumption
  <2>2. QED BY <2>1
<1>3. /\ n \in Nat /\ DOMAIN l = 1..n
      /\ \A j \in 1..n : l[j][1] \in Nat /\ l[j][2] \in Nat /\ l[j][1] < l[j][2]
  BY <1>1, ListNumbers
<1>4. \A i, j \in 1..n : i < j => l[i][2] < l[j][1]
  BY <1>1 DEF InOrder
<1>5. \A j \in 1..n : Compared(l[j], r) = IF a <= l[j][2] /\ l[j][1] <= b THEN 0
                                          ELSE IF l[j][2] < a THEN -1 ELSE 1
  <2>1. ASSUME NEW j \in 1..n
        PROVE  Compared(l[j], r) = IF a <= l[j][2] /\ l[j][1] <= b THEN 0
                                   ELSE IF l[j][2] < a THEN -1 ELSE 1
    <3>1. (l[j][2] >= a) <=> (a <= l[j][2])
      BY <1>2, <1>3
    <3>2. QED BY <3>1, <1>1 DEF Compared, Continuous
  <2>2. QED BY <2>1
<1>6. \A j : j \in F <=> j \in 1..n /\ a <= l[j][2] /\ l[j][1] <= b
  <2>1. \A j : j \in F <=> j \in 1..n /\ Compared(l[j], r) = 0
    BY <1>1, <1>3 DEF Found
  <2>2. QED BY <2>1, <1>5
<1>7. \A j \in 1..n : j \in F \/ l[j][2] < a \/ b < l[j][1]
  <2>1. ASSUME NEW j \in 1..n PROVE j \in F \/ l[j][2] < a \/ b < l[j][1]
    <3>1. PICK u, v : u = l[j][1] /\ v = l[j][2]
      OBVIOUS
    <3>2. u \in Nat /\ v \in Nat
      BY <3>1, <1>3
    <3>3. (a <= v /\ u <= b) \/ v < a \/ b < u
      BY <3>2, <1>2
    <3>4. QED BY <3>1, <3>3, <1>6
  <2>2. QED BY <2>1
<1>8. ASSUME NEW i \in 1..n, NEW j \in 1..n, i < j
      PROVE  /\ j \in F /\ i \notin F => l[i][2] < a
             /\ i \in F /\ j \notin F => b < l[j][1]
             /\ Compared(l[i], r) <= Compared(l[j], r)
  <2>1. PICK si, ei, sj, ej : si = l[i][1] /\ ei = l[i][2] /\ sj = l[j][1] /\ ej = l[j][2]
    OBVIOUS
  <2>2. si \in Nat /\ ei \in Nat /\ sj \in Nat /\ ej \in Nat /\ si < ei /\ sj < ej /\ ei < sj
    BY <2>1, <1>3, <1>4, <1>8
  <2>3. /\ i \in F <=> a <= ei /\ si <= b
        /\ j \in F <=> a <= ej /\ sj <= b
    BY <2>1, <1>6
  <2>4. /\ Compared(l[i], r) = IF a <= ei /\ si <= b THEN 0 ELSE IF ei < a THEN -1 ELSE 1
        /\ Compared(l[j], r) = IF a <= ej /\ sj <= b THEN 0 ELSE IF ej < a THEN -1 ELSE 1
    BY <2>1, <1>5
  <2>5. j \in F /\ i \notin F => ei < a
    BY <2>2, <2>3, <1>2
  <2>6. i \in F /\ j \notin F => b < sj
    BY <2>2, <2>3, <1>2
  <2>7. Compared(l[i], r) <= Compared(l[j], r)
    BY <2>2, <2>4, <1>2
  <2>8. QED BY <2>1, <2>5, <2>6, <2>7
<1>9. ASSUME NEW i \in 1..n, NEW j \in 1..n, NEW k \in 1..n, i < j, j < k, i \in F, k \in F
      PROVE  j \in F
  <2>1. l[i][2] < l[j][1] /\ l[j][2] < l[k][1] /\ a <= l[i][2] /\ l[k][1] <= b
    BY <1>4, <1>6, <1>9
  <2>2. /\ l[i][2] \in Nat /\ l[j][1] \in Nat /\ l[j][2] \in Nat /\ l[k][1] \in Nat
        /\ l[j][1] < l[j][2]
    BY <1>3
  <2>3. PICK ei, sj, ej, sk : ei = l[i][2] /\ sj = l[j][1] /\ ej = l[j][2] /\ sk = l[k][1]
    OBVIOUS
  <2>4. ei < sj /\ ej < sk /\ a <= ei /\ sk <= b /\ sj < ej
    BY <2>1, <2>2, <2>3
  <2>5. ei \in Nat /\ sj \in Nat /\ ej \in Nat /\ sk \in Nat
    BY <2>2, <2>3
  <2>6. a <= ej /\ sj <= b
    BY <2>4, <2>5, <1>2
  <2>7. QED BY <2>3, <2>6, <1>6
<1>10. InOrderFor(l, r)
  BY <1>3, <1>8 DEF InOrderFor
<1>11. Sides(l, r)
  BY <1>1, <1>6, <1>7, <1>8, <1>9 DEF Sides
<1>12. QED BY <1>10, <1>11

\* m is l with d + 1 of its ranges, from place p, exchanged for h.
SplicedAt(m, l, p, d, h) ==
  /\ m \in Seq(Ranges) /\ Len(m) = Len(l) - d /\ p \in 1..Len(m) /\ m[p] = h
  /\ \A j \in 1..(p - 1) : m[j] = l[j]
  /\ \A j \in (p + 1)..Len(m) : m[j] = l[j + d]

\* The list stays in order when h lies between what was before and after.
LEMMA SplicedInOrder ==
  ASSUME NEW l \in Seq(Ranges), InOrder(l), NEW d \in {-1, 0, 1}, NEW p, NEW h, NEW m,
         SplicedAt(m, l, p, d, h),
         \A j \in 1..Len(l) : j < p => l[j][2] < h[1],
         \A j \in 1..Len(l) : j > p + d => h[2] < l[j][1]
  PROVE  InOrder(m)
PROOF
<1>1. PICK n, k : n = Len(l) /\ k = Len(m)
  OBVIOUS
<1>2. /\ m \in Seq(Ranges) /\ k = n - d /\ p \in 1..k /\ m[p] = h
      /\ \A j \in 1..(p - 1) : m[j] = l[j]
      /\ \A j \in (p + 1)..k : m[j] = l[j + d]
  BY <1>1 DEF SplicedAt
<1>3. n \in Nat /\ k \in Nat /\ d \in Int
  BY <1>1, <1>2
<1>4. ASSUME NEW i \in 1..k, NEW j \in 1..k, i < j PROVE m[i][2] < m[j][1]
  <2>1. CASE j < p
    <3>1. i \in 1..(p - 1) /\ j \in 1..(p - 1) /\ i \in 1..n /\ j \in 1..n
      BY <2>1, <1>2, <1>3, <1>4
    <3>2. l[i][2] < l[j][1]
      BY <3>1, <1>1, <1>4 DEF InOrder
    <3>3. QED BY <3>1, <3>2, <1>2
  <2>2. CASE j = p
    <3>1. i \in 1..(p - 1) /\ i < p /\ i \in 1..n
      BY <2>2, <1>2, <1>3, <1>4
    <3>2. l[i][2] < h[1]
      BY <3>1, <1>1
    <3>3. QED BY <3>1, <3>2, <2>2, <1>2
  <2>3. CASE j > p
    <3>1. j \in (p + 1)..k /\ j + d \in 1..n /\ j + d > p + d /\ m[j] = l[j + d]
      <4>1. k = n - d /\ p \in 1..k
        BY <1>2
      <4>2. j \in (p + 1)..k /\ j + d > p + d
        BY <4>1, <2>3, <1>3
      <4>3. j + d \in 1..n
        BY <4>1, <2>3, <1>3
      <4>4. QED BY <4>2, <4>3, <1>2
    <3>2. CASE i < p
      <4>1. i \in 1..(p - 1) /\ i \in 1..n /\ i < j + d
        BY <3>2, <2>3, <1>2, <1>3
      <4>2. l[i][2] < l[j + d][1]
        BY <4>1, <3>1, <1>1 DEF InOrder
      <4>3. QED BY <4>1, <4>2, <3>1, <1>2
    <3>3. CASE i = p
      <4>1. h[2] < l[j + d][1]
        BY <3>1, <1>1
      <4>2. QED BY <4>1, <3>1, <3>3, <1>2
    <3>4. CASE i > p
      <4>1. i \in (p + 1)..k /\ i + d \in 1..n /\ i + d < j + d /\ m[i] = l[i + d]
        BY <3>4, <1>2, <1>3, <1>4
      <4>2. l[i + d][2] < l[j + d][1]
        BY <4>1, <3>1, <1>1 DEF InOrder
      <4>3. QED BY <4>1, <4>2, <3>1
    <3>5. QED BY <3>2, <3>3, <3>4, <1>2, <1>3
  <2>4. QED BY <2>1, <2>2, <2>3, <1>2, <1>3
<1>5. QED BY <1>1, <1>4 DEF InOrder

\* What the hull of two ranges starts and ends with.
LEMMA HullEnds ==
  ASSUME NEW l \in Ranges, NEW r \in Ranges
  PROVE  /\ Hull(l, r)[1] \in {l[1], r[1]} /\ Hull(l, r)[1] <= l[1] /\ Hull(l, r)[1] <= r[1]
         /\ Hull(l, r)[2] \in {l[2], r[2]} /\ Hull(l, r)[2] >= l[2] /\ Hull(l, r)[2] >= r[2]
PROOF
<1>1. PICK a, b, c, d : a = l[1] /\ b = l[2] /\ c = r[1] /\ d = r[2]
  OBVIOUS
<1>2. a \in 0..MaxItems /\ b \in 0..MaxItems /\ c \in 0..MaxItems /\ d \in 0..MaxItems /\ MaxItems \in Nat
  BY <1>1, RangeIs, DeleteSetsAssumption
<1>3. PICK x, y : x = (IF a < c THEN a ELSE c) /\ y = (IF b > d THEN b ELSE d)
  OBVIOUS
<1>4. PICK h : h = Hull(l, r)
  OBVIOUS
<1>5. h = <<x, y>>
  BY <1>1, <1>3, <1>4 DEF Hull
<1>6. h[1] = x /\ h[2] = y
  BY <1>5
<1>7. x \in {a, c} /\ x <= a /\ x <= c /\ y \in {b, d} /\ y >= b /\ y >= d
  BY <1>2, <1>3
<1>8. QED BY <1>1, <1>4, <1>6, <1>7

\* A range put where the list has none it touches.
LEMMA InsertKeepsOrder ==
  ASSUME NEW l \in Seq(Ranges), InOrder(l), NEW r \in Ranges, NEW i \in InsertPlaces(l, r)
  PROVE  InOrder(SquashAround(InsertAt(l, i, r), i))
PROOF
<1>1. PICK n, m : n = Len(l) /\ m = InsertAt(l, i, r)
  OBVIOUS
<1>2. Sides(l, r) /\ InOrderFor(l, r)
  BY SidesAre
<1>3. i \in 1..(n + 1) /\ Found(l, r) = {} /\ \A j \in DOMAIN l : (Compared(l[j], r) = -1) <=> j < i
  BY <1>1, <1>2 DEF InsertPlaces
<1>4. /\ n \in Nat /\ DOMAIN l = 1..n
      /\ \A j \in 1..n : l[j] \in Ranges /\ l[j][1] \in Nat /\ l[j][2] \in Nat /\ l[j][1] < l[j][2]
  BY <1>1, ListNumbers
<1>5. /\ m \in Seq(Ranges) /\ Len(m) = n + 1 /\ m[i] = r
      /\ \A j \in 1..(i - 1) : m[j] = l[j]
      /\ \A j \in i..n : m[j + 1] = l[j]
  BY <1>1, <1>3, InsertIs DEF Inserted
<1>6. r[1] \in Nat /\ r[2] \in Nat /\ r[1] < r[2]
  <2>1. PICK a, b : a = r[1] /\ b = r[2]
    OBVIOUS
  <2>2. a \in 0..MaxItems /\ b \in 0..MaxItems /\ a < b /\ MaxItems \in Nat
    BY <2>1, RangeIs, DeleteSetsAssumption
  <2>3. QED BY <2>1, <2>2
<1>7. ASSUME NEW j \in 1..n
      PROVE  (j < i => l[j][2] < r[1]) /\ (j >= i => r[2] < l[j][1]) /\ ~Continuous(l[j], r)
  <2>1. Compared(l[j], r) # 0
    BY <1>3, <1>4 DEF Found
  <2>2. ~Continuous(l[j], r)
    BY <2>1 DEF Compared
  <2>3. (Compared(l[j], r) = -1) <=> j < i
    BY <1>3, <1>4
  <2>4. Compared(l[j], r) = IF l[j][2] < r[1] THEN -1 ELSE 1
    BY <2>2 DEF Compared
  <2>5. j < i <=> l[j][2] < r[1]
    BY <2>3, <2>4
  <2>6. PICK a, b, c, d : a = l[j][1] /\ b = l[j][2] /\ c = r[1] /\ d = r[2]
    OBVIOUS
  <2>7. ~(b >= c /\ a <= d)
    BY <2>2, <2>6 DEF Continuous
  <2>8. a \in Nat /\ b \in Nat /\ c \in Nat /\ d \in Nat /\ i \in Int
    BY <2>6, <1>3, <1>4, <1>6
  <2>9. j >= i => d < a
    BY <2>5, <2>6, <2>7, <2>8
  <2>10. QED BY <2>2, <2>5, <2>6, <2>9
<1>8. PICK d : d = -1
  OBVIOUS
<1>9. SplicedAt(m, l, i, d, r)
  <2>1. ASSUME NEW j \in (i + 1)..(n + 1) PROVE m[j] = l[j + d]
    <3>1. PICK q : q = j - 1
      OBVIOUS
    <3>2. q \in i..n /\ q + 1 = j /\ j + d = q
      BY <3>1, <1>3, <1>4, <1>8
    <3>3. QED BY <3>2, <1>5
  <2>2. n + 1 = n - d
    BY <1>4, <1>8
  <2>3. QED BY <2>1, <2>2, <1>1, <1>3, <1>5 DEF SplicedAt
<1>10. InOrder(m)
  <2>1. \A j \in 1..n : j > i + d => j >= i
    BY <1>3, <1>8
  <2>2. d \in {-1, 0, 1}
    BY <1>8
  <2>3. \A j \in 1..Len(l) : j < i => l[j][2] < r[1]
    BY <1>1, <1>7
  <2>4. \A j \in 1..Len(l) : j > i + d => r[2] < l[j][1]
    BY <2>1, <1>1, <1>7
  <2>5. QED BY <2>2, <2>3, <2>4, <1>9, SplicedInOrder
<1>11. ~(i > 1 /\ Continuous(m[i - 1], m[i]))
  <2>1. ASSUME i > 1 PROVE ~Continuous(m[i - 1], m[i])
    <3>1. i - 1 \in 1..(i - 1) /\ i - 1 \in 1..n
      BY <2>1, <1>3, <1>4
    <3>2. m[i - 1] = l[i - 1] /\ m[i] = r
      BY <3>1, <1>5
    <3>3. QED BY <3>1, <3>2, <1>7
  <2>2. QED BY <2>1
<1>12. ~(i < Len(m) /\ Continuous(m[i], m[i + 1]))
  <2>1. ASSUME i < Len(m) PROVE ~Continuous(m[i], m[i + 1])
    <3>1. i \in i..n /\ i \in 1..n
      BY <2>1, <1>3, <1>4, <1>5
    <3>2. m[i] = r /\ m[i + 1] = l[i]
      BY <3>1, <1>5
    <3>3. r[2] < l[i][1] /\ l[i][1] \in Nat
      BY <3>1, <1>3, <1>4, <1>7
    <3>4. ~(r[2] >= l[i][1])
      BY <3>3, <1>6
    <3>5. QED BY <3>2, <3>4 DEF Continuous
  <2>2. QED BY <2>1
<1>13. SquashAround(m, i) = m
  BY <1>11, <1>12 DEF SquashAround
<1>14. QED BY <1>1, <1>10, <1>13

\* The place merged with the one before it, when that touches the range too
\* and nothing else does.
LEMMA HitBeforeKeepsOrder ==
  ASSUME NEW l \in Seq(Ranges), InOrder(l), NEW r \in Ranges, NEW k \in Nat, k >= 1,
         k + 1 \in 1..Len(l), Found(l, r) = {k, k + 1}
  PROVE  InOrder(SquashAround(ReplaceAt(l, k + 1, Hull(l[k + 1], r)), k + 1))
PROOF
<1>1. PICK n, i, h, m : /\ n = Len(l) /\ i = k + 1 /\ h = Hull(l[i], r) /\ m = ReplaceAt(l, i, h)
  OBVIOUS
<1>2. Sides(l, r)
  BY SidesAre
<1>3. /\ n \in Nat /\ DOMAIN l = 1..n
      /\ \A j \in 1..n : l[j] \in Ranges /\ l[j][1] \in Nat /\ l[j][2] \in Nat /\ l[j][1] < l[j][2]
  BY <1>1, ListNumbers
<1>4. n \in Nat /\ i \in 1..n /\ k \in 1..n /\ i = k + 1 /\ k < n
  BY <1>1, <1>3
<1>5. /\ r[1] \in Nat /\ r[2] \in Nat
      /\ r[1] <= l[i][2] /\ l[i][1] <= r[2] /\ r[1] <= l[k][2] /\ l[k][1] <= r[2]
  <2>1. k \in Found(l, r) /\ i \in Found(l, r)
    BY <1>1
  <2>2. r[1] <= l[i][2] /\ l[i][1] <= r[2] /\ r[1] <= l[k][2] /\ l[k][1] <= r[2]
    BY <2>1, <1>2 DEF Sides
  <2>3. PICK a, b : a = r[1] /\ b = r[2]
    OBVIOUS
  <2>4. a \in 0..MaxItems /\ b \in 0..MaxItems /\ MaxItems \in Nat
    BY <2>3, RangeIs, DeleteSetsAssumption
  <2>5. QED BY <2>2, <2>3, <2>4
<1>6. Continuous(l[i], r)
  BY <1>3, <1>4, <1>5 DEF Continuous
<1>7. PICK C : C = Clocks(r)
  OBVIOUS
<1>8. h \in Ranges /\ Clocks(h) = Clocks(l[i]) \cup C
  BY <1>1, <1>3, <1>4, <1>6, <1>7, HullIs
<1>9. /\ m \in Seq(Ranges) /\ Len(m) = n /\ m[i] = h /\ \A j \in 1..n : j # i => m[j] = l[j]
  <2>1. i \in DOMAIN l
    BY <1>3, <1>4
  <2>2. Replaced(l, i, h, C)
    BY <2>1, <1>8, ReplaceCovers
  <2>3. QED BY <2>2, <1>1, <1>3 DEF Replaced
<1>10. PICK hs, he : hs = h[1] /\ he = h[2]
  OBVIOUS
<1>11. /\ hs \in {l[i][1], r[1]} /\ hs <= l[i][1] /\ hs <= r[1]
       /\ he \in {l[i][2], r[2]} /\ he >= l[i][2] /\ he >= r[2]
  BY <1>1, <1>3, <1>4, <1>10, HullEnds
<1>12. PICK g : g = Hull(l[k], h)
  OBVIOUS
<1>13. Continuous(l[k], h)
  <2>1. PICK a, b, c, d, x, y : a = l[k][1] /\ b = l[k][2] /\ c = r[1] /\ d = r[2] /\ x = l[i][1] /\ y = l[i][2]
    OBVIOUS
  <2>2. /\ a \in Nat /\ b \in Nat /\ c \in Nat /\ d \in Nat /\ x \in Nat /\ y \in Nat
        /\ c <= b /\ a <= d /\ hs \in {x, c} /\ hs <= c /\ he \in {y, d} /\ he >= d
    BY <2>1, <1>3, <1>4, <1>5, <1>11
  <2>3. b >= hs /\ a <= he
    BY <2>2
  <2>4. QED BY <2>1, <2>3, <1>10 DEF Continuous
<1>14. PICK u : u = MergeNext(m, k)
  OBVIOUS
<1>15. m[k] = l[k] /\ m[k + 1] = h
  BY <1>4, <1>9
<1>16. /\ u \in Seq(Ranges) /\ Len(u) = n - 1 /\ u[k] = g
       /\ \A j \in 1..(k - 1) : u[j] = m[j]
       /\ \A j \in (k + 1)..(n - 1) : u[j] = m[j + 1]
  <2>1. k < Len(m) /\ Continuous(m[k], m[k + 1])
    BY <1>4, <1>9, <1>13, <1>15
  <2>2. NextMerged(MergeNext(m, k), m, k)
    BY <2>1, <1>9, MergeNextIs
  <2>3. QED BY <2>2, <1>9, <1>12, <1>14, <1>15 DEF NextMerged
<1>17. PICK one : one = 1
  OBVIOUS
<1>18. SplicedAt(u, l, k, one, g)
  <2>1. ASSUME NEW j \in 1..(k - 1) PROVE u[j] = l[j]
    <3>1. j \in 1..n /\ j # i
      BY <1>4
    <3>2. QED BY <3>1, <1>9, <1>16
  <2>2. ASSUME NEW j \in (k + 1)..(n - 1) PROVE u[j] = l[j + one]
    <3>1. j + 1 \in 1..n /\ j + 1 # i /\ j + one = j + 1
      BY <1>4, <1>17
    <3>2. QED BY <3>1, <1>9, <1>16
  <2>3. n - 1 = n - one /\ k \in 1..(n - 1)
    BY <1>4, <1>17
  <2>4. QED BY <2>1, <2>2, <2>3, <1>1, <1>16 DEF SplicedAt
<1>19. InOrder(u)
  <2>1. /\ g[1] \in {l[k][1], hs} /\ g[1] <= l[k][1] /\ g[1] <= hs
        /\ g[2] \in {l[k][2], he} /\ g[2] >= l[k][2] /\ g[2] >= he
    BY <1>3, <1>4, <1>8, <1>10, <1>12, HullEnds
  <2>2. ASSUME NEW j \in 1..n, j < k PROVE l[j][2] < g[1]
    <3>1. j \notin Found(l, r) /\ k \in Found(l, r) /\ j < i
      BY <2>2, <1>4
    <3>2. l[j][2] < r[1]
      BY <3>1, <2>2, <1>1, <1>2, <1>4 DEF Sides
    <3>3. l[j][2] < l[k][1] /\ l[j][2] < l[i][1]
      BY <3>1, <2>2, <1>1, <1>4 DEF InOrder
    <3>4. g[1] \in {l[k][1], l[i][1], r[1]}
      BY <2>1, <1>11
    <3>5. QED BY <3>2, <3>3, <3>4
  <2>3. ASSUME NEW j \in 1..n, j > k + one PROVE g[2] < l[j][1]
    <3>1. j \notin Found(l, r) /\ i \in Found(l, r) /\ k < j /\ i < j
      BY <2>3, <1>1, <1>4, <1>17
    <3>2. r[2] < l[j][1]
      BY <3>1, <1>1, <1>2, <1>4 DEF Sides
    <3>3. l[k][2] < l[j][1] /\ l[i][2] < l[j][1]
      BY <3>1, <1>1, <1>4 DEF InOrder
    <3>4. g[2] \in {l[k][2], l[i][2], r[2]}
      BY <2>1, <1>11
    <3>5. QED BY <3>2, <3>3, <3>4
  <2>4. one \in {-1, 0, 1}
    BY <1>17
  <2>5. QED BY <2>2, <2>3, <2>4, <1>1, <1>18, SplicedInOrder
<1>20. SquashBefore(m, i) = u
  <2>1. i > 1 /\ i - 1 = k
    BY <1>4
  <2>2. Continuous(m[i - 1], m[i])
    BY <2>1, <1>4, <1>13, <1>15
  <2>3. QED BY <2>1, <2>2, <1>14 DEF SquashBefore
<1>21. ~(i < Len(u) /\ Continuous(u[i], u[i + 1]))
  <2>1. ASSUME i < Len(u) PROVE ~Continuous(u[i], u[i + 1])
    <3>1. i \in 1..Len(u) /\ i + 1 \in 1..Len(u) /\ i < i + 1
      BY <2>1, <1>4, <1>16
    <3>2. u[i][2] < u[i + 1][1]
      BY <3>1, <1>19 DEF InOrder
    <3>3. u[i][2] \in Nat /\ u[i + 1][1] \in Nat
      BY <3>1, <1>16, ListNumbers
    <3>4. ~(u[i][2] >= u[i + 1][1])
      BY <3>2, <3>3
    <3>5. QED BY <3>4 DEF Continuous
  <2>2. QED BY <2>1
<1>22. SquashAround(m, i) = u
  BY <1>20, <1>21 DEF SquashAround, SquashBefore
<1>23. QED BY <1>1, <1>19, <1>22

\* The place merged with the one after it, when that touches the range too, or
\* with none; nothing else touches it.
LEMMA HitKeepsOrder ==
  ASSUME NEW l \in Seq(Ranges), InOrder(l), NEW r \in Ranges, NEW i \in 1..Len(l),
         i \in Found(l, r), Found(l, r) \subseteq {i, i + 1}
  PROVE  InOrder(SquashAround(ReplaceAt(l, i, Hull(l[i], r)), i))
PROOF
<1>1. PICK n, h, m : /\ n = Len(l) /\ h = Hull(l[i], r) /\ m = ReplaceAt(l, i, h)
  OBVIOUS
<1>2. Sides(l, r)
  BY SidesAre
<1>3. /\ n \in Nat /\ DOMAIN l = 1..n /\ i \in 1..n
      /\ \A j \in 1..n : l[j] \in Ranges /\ l[j][1] \in Nat /\ l[j][2] \in Nat /\ l[j][1] < l[j][2]
  BY <1>1, ListNumbers
<1>4. /\ r[1] \in Nat /\ r[2] \in Nat /\ r[1] < r[2]
      /\ \A j \in Found(l, r) : r[1] <= l[j][2] /\ l[j][1] <= r[2]
  <2>1. \A j \in Found(l, r) : r[1] <= l[j][2] /\ l[j][1] <= r[2]
    BY <1>2 DEF Sides
  <2>2. PICK a, b : a = r[1] /\ b = r[2]
    OBVIOUS
  <2>3. a \in 0..MaxItems /\ b \in 0..MaxItems /\ a < b /\ MaxItems \in Nat
    BY <2>2, RangeIs, DeleteSetsAssumption
  <2>4. a \in Nat /\ b \in Nat
    BY <2>3
  <2>5. QED BY <2>1, <2>2, <2>3, <2>4
<1>5. Continuous(l[i], r)
  BY <1>3, <1>4 DEF Continuous
<1>6. PICK C : C = Clocks(r)
  OBVIOUS
<1>7. h \in Ranges /\ Clocks(h) = Clocks(l[i]) \cup C
  BY <1>1, <1>3, <1>5, <1>6, HullIs
<1>8. /\ m \in Seq(Ranges) /\ Len(m) = n /\ m[i] = h /\ \A j \in 1..n : j # i => m[j] = l[j]
  <2>1. i \in DOMAIN l
    BY <1>3
  <2>2. Replaced(l, i, h, C)
    BY <2>1, <1>7, ReplaceCovers
  <2>3. QED BY <2>2, <1>1, <1>3 DEF Replaced
<1>9. PICK hs, he : hs = h[1] /\ he = h[2]
  OBVIOUS
<1>10. /\ hs \in {l[i][1], r[1]} /\ hs <= l[i][1] /\ hs <= r[1]
       /\ he \in {l[i][2], r[2]} /\ he >= l[i][2] /\ he >= r[2]
  BY <1>1, <1>3, <1>9, HullEnds
<1>11. hs \in Nat /\ he \in Nat
  BY <1>3, <1>4, <1>10
<1>12. ASSUME NEW j \in 1..n, j < i PROVE l[j][2] < hs
  <2>1. j \notin Found(l, r)
    BY <1>3, <1>12
  <2>2. l[j][2] < r[1]
    BY <2>1, <1>1, <1>2, <1>3, <1>12 DEF Sides
  <2>3. l[j][2] < l[i][1]
    BY <1>1, <1>3, <1>12 DEF InOrder
  <2>4. QED BY <2>2, <2>3, <1>10
<1>13. ASSUME NEW j \in 1..n, j > i, j \notin Found(l, r) PROVE he < l[j][1]
  <2>1. i < j
    BY <1>3, <1>13
  <2>2. r[2] < l[j][1]
    BY <2>1, <1>1, <1>2, <1>3, <1>13 DEF Sides
  <2>3. l[i][2] < l[j][1]
    BY <2>1, <1>1, <1>3 DEF InOrder
  <2>4. QED BY <2>2, <2>3, <1>10
<1>14. ~(i > 1 /\ Continuous(m[i - 1], m[i]))
  <2>1. ASSUME i > 1 PROVE ~Continuous(m[i - 1], m[i])
    <3>1. PICK j : j = i - 1
      OBVIOUS
    <3>2. j \in 1..n /\ j < i /\ j # i
      BY <2>1, <3>1, <1>3
    <3>3. m[j] = l[j] /\ m[i] = h /\ l[j][2] < hs /\ l[j][2] \in Nat
      BY <3>2, <1>3, <1>8, <1>12
    <3>4. ~(l[j][2] >= hs)
      BY <3>3, <1>11
    <3>5. QED BY <3>1, <3>3, <3>4, <1>9 DEF Continuous
  <2>2. QED BY <2>1
<1>15. SquashBefore(m, i) = m
  BY <1>14 DEF SquashBefore
<1>16. CASE i + 1 \in Found(l, r)
  <2>1. i + 1 \in 1..n /\ i < n /\ i + 1 # i
    <3>1. i + 1 \in 1..n
      BY <1>1, <1>2, <1>16 DEF Sides
    <3>2. QED BY <3>1, <1>3
  <2>2. PICK k : k = i + 1
    OBVIOUS
  <2>3. m[k] = l[k] /\ k \in 1..n /\ k > i /\ k \in Found(l, r)
    BY <2>1, <2>2, <1>3, <1>8, <1>16
  <2>4. Continuous(h, l[k])
    <3>1. PICK a, b, c, d : a = l[k][1] /\ b = l[k][2] /\ c = r[1] /\ d = r[2]
      OBVIOUS
    <3>2. a \in Nat /\ b \in Nat /\ c \in Nat /\ d \in Nat /\ c <= b /\ a <= d /\ hs <= c /\ he >= d
      BY <2>3, <3>1, <1>3, <1>4, <1>10
    <3>3. he >= a /\ hs <= b
      BY <3>2, <1>11
    <3>4. QED BY <3>1, <3>3, <1>9 DEF Continuous
  <2>5. PICK u, g : u = MergeNext(m, i) /\ g = Hull(h, l[k])
    OBVIOUS
  <2>6. /\ u \in Seq(Ranges) /\ Len(u) = n - 1 /\ u[i] = g
        /\ \A j \in 1..(i - 1) : u[j] = m[j]
        /\ \A j \in (i + 1)..(n - 1) : u[j] = m[j + 1]
    <3>1. i < Len(m) /\ Continuous(m[i], m[i + 1]) /\ i \in Nat /\ i >= 1
      BY <2>1, <2>2, <2>3, <2>4, <1>3, <1>8
    <3>2. NextMerged(MergeNext(m, i), m, i)
      BY <3>1, <1>8, MergeNextIs
    <3>3. QED BY <3>2, <2>2, <2>3, <2>5, <1>8 DEF NextMerged
  <2>7. PICK one : one = 1
    OBVIOUS
  <2>8. SplicedAt(u, l, i, one, g)
    <3>1. ASSUME NEW j \in 1..(i - 1) PROVE u[j] = l[j]
      <4>1. j \in 1..n /\ j # i
        BY <1>3
      <4>2. QED BY <4>1, <1>8, <2>6
    <3>2. ASSUME NEW j \in (i + 1)..(n - 1) PROVE u[j] = l[j + one]
      <4>1. j + 1 \in 1..n /\ j + 1 # i /\ j + one = j + 1
        BY <1>3, <2>7
      <4>2. QED BY <4>1, <1>8, <2>6
    <3>3. n - 1 = n - one /\ i \in 1..(n - 1)
      BY <1>3, <2>1, <2>7
    <3>4. QED BY <3>1, <3>2, <3>3, <1>1, <2>6 DEF SplicedAt
  <2>9. /\ g[1] \in {hs, l[k][1]} /\ g[1] <= hs
        /\ g[2] \in {he, l[k][2]} /\ g[2] >= he
    BY <2>3, <2>5, <1>3, <1>7, <1>9, HullEnds
  <2>10. ASSUME NEW j \in 1..n, j < i PROVE l[j][2] < g[1]
    <3>1. j < k
      BY <2>10, <2>3, <1>3
    <3>2. l[j][2] < hs /\ l[j][2] < l[k][1]
      BY <3>1, <2>3, <2>10, <1>1, <1>12 DEF InOrder
    <3>3. QED BY <3>2, <2>9
  <2>11. ASSUME NEW j \in 1..n, j > i + one PROVE g[2] < l[j][1]
    <3>1. j > i /\ k < j /\ j # i /\ j # i + 1
      BY <2>11, <2>2, <2>7, <1>3
    <3>2. j \notin Found(l, r)
      BY <3>1
    <3>3. he < l[j][1] /\ l[k][2] < l[j][1]
      BY <3>1, <3>2, <2>3, <1>1, <1>13 DEF InOrder
    <3>4. QED BY <3>3, <2>9
  <2>12. InOrder(u)
    <3>1. one \in {-1, 0, 1}
      BY <2>7
    <3>2. QED BY <3>1, <2>8, <2>10, <2>11, <1>1, SplicedInOrder
  <2>13. SquashAround(m, i) = u
    <3>1. i < Len(m) /\ Continuous(m[i], m[i + 1])
      BY <2>1, <2>2, <2>3, <2>4, <1>8
    <3>2. QED BY <3>1, <1>15, <2>5 DEF SquashAround, SquashBefore
  <2>14. QED BY <2>12, <2>13, <1>1
<1>17. CASE i + 1 \notin Found(l, r)
  <2>1. \A j \in 1..n : j > i => he < l[j][1]
    <3>1. ASSUME NEW j \in 1..n, j > i PROVE he < l[j][1]
      <4>1. j \notin Found(l, r)
        BY <3>1, <1>3, <1>17
      <4>2. QED BY <4>1, <3>1, <1>13
    <3>2. QED BY <3>1
  <2>2. PICK nil : nil = 0
    OBVIOUS
  <2>3. SplicedAt(m, l, i, nil, h)
    <3>1. n = n - nil /\ \A j \in (i + 1)..n : j + nil = j /\ j \in 1..n /\ j # i
      BY <1>3, <2>2
    <3>2. \A j \in 1..(i - 1) : j \in 1..n /\ j # i
      BY <1>3
    <3>3. \A j \in (i + 1)..n : m[j] = l[j + nil]
      BY <3>1, <1>8
    <3>4. \A j \in 1..(i - 1) : m[j] = l[j]
      BY <3>2, <1>8
    <3>5. QED BY <3>1, <3>3, <3>4, <1>1, <1>3, <1>8 DEF SplicedAt
  <2>4. InOrder(m)
    <3>1. nil \in {-1, 0, 1} /\ \A j \in 1..n : j > i + nil => j > i
      BY <2>2, <1>3
    <3>2. \A j \in 1..Len(l) : j < i => l[j][2] < h[1]
      BY <1>1, <1>9, <1>12
    <3>3. \A j \in 1..Len(l) : j > i + nil => h[2] < l[j][1]
      BY <3>1, <2>1, <1>1, <1>9
    <3>4. QED BY <3>1, <3>2, <3>3, <2>3, SplicedInOrder
  <2>5. ~(i < Len(m) /\ Continuous(m[i], m[i + 1]))
    <3>1. ASSUME i < Len(m) PROVE ~Continuous(m[i], m[i + 1])
      <4>1. PICK k : k = i + 1
        OBVIOUS
      <4>2. k \in 1..n /\ k > i /\ k # i
        BY <3>1, <4>1, <1>3, <1>8
      <4>3. m[k] = l[k] /\ m[i] = h /\ he < l[k][1] /\ l[k][1] \in Nat
        BY <4>2, <2>1, <1>3, <1>8
      <4>4. ~(he >= l[k][1])
        BY <4>3, <1>11
      <4>5. QED BY <4>1, <4>3, <4>4, <1>9 DEF Continuous
    <3>2. QED BY <3>1
  <2>6. SquashAround(m, i) = m
    BY <2>5, <1>15 DEF SquashAround, SquashBefore
  <2>7. QED BY <2>4, <2>6, <1>1
<1>18. QED BY <1>16, <1>17

\* Of three different places one is not found, where at most two are.
LEMMA NotThree ==
  ASSUME NEW F, IsFiniteSet(F), Cardinality(F) <= 2, NEW a \in F, NEW b \in F, NEW c \in F,
         a # b, a # c, b # c
  PROVE  FALSE
PROOF
<1>1. IsFiniteSet({a}) /\ Cardinality({a}) = 1
  BY FS_Singleton
<1>2. IsFiniteSet({a} \cup {b}) /\ Cardinality({a} \cup {b}) = 2
  <2>1. PICK A : A = {a}
    OBVIOUS
  <2>2. IsFiniteSet(A) /\ Cardinality(A) = 1 /\ b \notin A
    BY <1>1, <2>1
  <2>3. IsFiniteSet(A \cup {b}) /\ Cardinality(A \cup {b}) = Cardinality(A) + 1
    BY <2>2, FS_AddElement
  <2>4. QED BY <2>1, <2>2, <2>3
<1>3. Cardinality(({a} \cup {b}) \cup {c}) = 3
  <2>1. PICK A : A = {a} \cup {b}
    OBVIOUS
  <2>2. IsFiniteSet(A) /\ Cardinality(A) = 2 /\ c \notin A
    BY <1>2, <2>1
  <2>3. Cardinality(A \cup {c}) = Cardinality(A) + 1
    BY <2>2, FS_AddElement
  <2>4. QED BY <2>1, <2>2, <2>3
<1>4. ({a} \cup {b}) \cup {c} \in SUBSET F
  OBVIOUS
<1>5. PICK G : G = ({a} \cup {b}) \cup {c}
  OBVIOUS
<1>6. Cardinality(G) <= Cardinality(F)
  BY <1>4, <1>5, FS_Subset
<1>7. Cardinality(F) \in Nat
  BY FS_CardinalityType
<1>8. QED BY <1>3, <1>5, <1>6, <1>7

\* push_inner keeps the order where the range touches at most two.
LEMMA PushInnerKeepsOrder ==
  ASSUME NEW l \in Seq(Ranges), InOrder(l), NEW r \in Ranges, Cardinality(Found(l, r)) <= 2
  PROVE  \A u \in PushInner(l, r) : InOrder(u)
PROOF
<1>1. CASE l = <<>>
  <2>1. InOrder(<<r>>)
    BY DEF InOrder
  <2>2. QED BY <2>1, <1>1 DEF PushInner
<1>2. CASE l # <<>>
  <2>1. PICK n, F : n = Len(l) /\ F = Found(l, r)
    OBVIOUS
  <2>2. n \in Nat /\ DOMAIN l = 1..n
    BY <2>1, ListNumbers
  <2>3. F \subseteq 1..n /\ IsFiniteSet(F) /\ Cardinality(F) <= 2
    <3>1. IsFiniteSet(1..n)
      BY <2>2, FS_Interval
    <3>2. F \subseteq 1..n
      BY <2>1, <2>2 DEF Found
    <3>3. QED BY <3>1, <3>2, <2>1, FS_Subset
  <2>4. ASSUME NEW i \in F
        PROVE  InOrder(SquashAround(ReplaceAt(l, i, Hull(l[i], r)), i))
    <3>1. i \in 1..n /\ i \in Nat
      BY <2>3
    <3>2. \A p, q, s \in 1..n : p < q /\ q < s /\ p \in F /\ s \in F => q \in F
      BY <2>1, SidesAre DEF Sides
    <3>3. CASE i - 1 \in F
      <4>1. PICK k : k = i - 1
        OBVIOUS
      <4>2. k \in Nat /\ k >= 1 /\ k + 1 = i /\ k \in F
        BY <4>1, <3>1, <3>3, <2>3
      <4>3. \A j \in F : j = k \/ j = i
        <5>1. ASSUME NEW j \in F, j # k, j # i PROVE FALSE
          <6>1. k # i
            BY <4>2
          <6>2. QED BY <6>1, <5>1, <4>2, <2>3, NotThree
        <5>2. QED BY <5>1
      <4>4. F = {k, k + 1}
        BY <4>2, <4>3
      <4>5. k + 1 \in 1..Len(l)
        BY <4>2, <3>1, <2>1
      <4>6. InOrder(SquashAround(ReplaceAt(l, k + 1, Hull(l[k + 1], r)), k + 1))
        BY <4>2, <4>4, <4>5, <2>1, HitBeforeKeepsOrder
      <4>7. QED BY <4>2, <4>6
    <3>4. CASE i - 1 \notin F
      <4>1. ASSUME NEW j \in F, j # i, j # i + 1 PROVE FALSE
        <5>1. j \in 1..n
          BY <2>3
        <5>2. CASE j < i
          <6>1. j # i - 1
            BY <3>4
          <6>2. i - 1 \in 1..n /\ j < i - 1 /\ i - 1 < i
            BY <5>1, <5>2, <6>1, <3>1, <2>2
          <6>3. QED BY <6>2, <5>1, <3>1, <3>2, <3>4
        <5>3. CASE j > i
          <6>1. PICK k : k = i + 1
            OBVIOUS
          <6>2. k \in 1..n /\ i < k /\ k < j /\ k # i
            BY <6>1, <5>1, <5>3, <4>1, <3>1, <2>2
          <6>3. k \in F
            BY <6>2, <5>1, <3>1, <3>2
          <6>4. k # j /\ i # j
            BY <6>1, <4>1
          <6>5. QED BY <6>2, <6>3, <6>4, <2>3, NotThree
        <5>4. QED BY <5>1, <5>2, <5>3, <3>1, <4>1
      <4>2. F \subseteq {i, i + 1}
        BY <4>1
      <4>3. i \in 1..Len(l) /\ i \in Found(l, r) /\ Found(l, r) \subseteq {i, i + 1}
        BY <4>2, <3>1, <2>1
      <4>4. QED BY <4>3, HitKeepsOrder
    <3>5. QED BY <3>3, <3>4
  <2>5. PushInner(l, r) = {SquashAround(ReplaceAt(l, i, Hull(l[i], r)), i) : i \in F}
                          \cup {SquashAround(InsertAt(l, i, r), i) : i \in InsertPlaces(l, r)}
    BY <2>1, <1>2 DEF PushInner
  <2>6. QED BY <2>4, <2>5, InsertKeepsOrder
<1>3. QED BY <1>1, <1>2

\* One range, made a list or not, is in order.
LEMMA OneInOrder ==
  ASSUME NEW r \in Ranges
  PROVE  Normal(Single(r))
PROOF
<1>1. PICK o : o = Single(r)
  OBVIOUS
<1>2. o.list = <<r>> /\ o \in Entries
  BY <1>1, SingleIs DEF Single
<1>3. InOrder(o.list)
  BY <1>2 DEF InOrder
<1>4. QED BY <1>1, <1>2, <1>3, NormalIs

\* make_single keeps the order.
LEMMA MakeSingleInOrder ==
  ASSUME NEW l \in Seq(Ranges), InOrder(l)
  PROVE  Normal(MakeSingle(l))
PROOF
<1>1. CASE Len(l) = 1
  <2>1. l[1] \in Ranges
    BY <1>1
  <2>2. QED BY <2>1, <1>1, OneInOrder DEF MakeSingle
<1>2. CASE Len(l) # 1
  <2>1. MakeSingle(l) = Fragment(l) /\ Fragment(l).list = l /\ Fragment(l) \in Entries
    BY <1>2, FragmentIs DEF MakeSingle, Fragment
  <2>2. QED BY <2>1, NormalIs
<1>3. QED BY <1>1, <1>2

\* push keeps the order where the range touches at most two fragments.
LEMMA PushKeepsOrder ==
  ASSUME NEW o \in Entries, Normal(o), NEW r \in Ranges, Cardinality(Found(o.list, r)) <= 2
  PROVE  \A u \in Push(o, r) : Normal(u)
PROOF
<1>1. o.list \in Seq(Ranges) /\ o.frag \in BOOLEAN /\ InOrder(o.list)
  BY NormalIs DEF Entries, RangeLists
<1>2. CASE o.frag /\ o.list = <<>>
  BY <1>2, OneInOrder DEF Push
<1>3. CASE o.frag /\ o.list # <<>>
  <2>1. Push(o, r) = {MakeSingle(l) : l \in PushInner(o.list, r)}
    BY <1>3 DEF Push
  <2>2. ASSUME NEW l \in PushInner(o.list, r) PROVE Normal(MakeSingle(l))
    <3>1. l \in Seq(Ranges)
      BY <1>1, PushInnerKeeps DEF Widened
    <3>2. InOrder(l)
      BY <1>1, PushInnerKeepsOrder
    <3>3. QED BY <3>1, <3>2, MakeSingleInOrder
  <2>3. QED BY <2>1, <2>2
<1>4. CASE ~o.frag
  <2>1. PICK q, l : l = o.list /\ q = l[1]
    OBVIOUS
  <2>2. Len(l) = 1 /\ l \in Seq(Ranges) /\ q \in Ranges
    BY <2>1, <1>1, <1>4 DEF Entries
  <2>3. PICK a, b, c, d : a = q[1] /\ b = q[2] /\ c = r[1] /\ d = r[2]
    OBVIOUS
  <2>4. a \in Nat /\ b \in Nat /\ c \in Nat /\ d \in Nat /\ a < b /\ c < d
    <3>1. /\ a \in 0..MaxItems /\ b \in 0..MaxItems /\ a < b /\ MaxItems \in Nat
          /\ c \in 0..MaxItems /\ d \in 0..MaxItems /\ c < d
      BY <2>2, <2>3, RangeIs, DeleteSetsAssumption
    <3>2. QED BY <3>1
  <2>5. Push(o, r) = {IF Continuous(q, r) THEN Single(Hull(q, r))
                      ELSE Fragment(IF q[1] < r[1] THEN <<q, r>> ELSE <<r, q>>)}
    <3>1. q[1] # q[2]
      BY <2>3, <2>4
    <3>2. QED BY <3>1, <2>1, <1>4 DEF Push
  <2>6. CASE Continuous(q, r)
    <3>1. Hull(q, r) \in Ranges
      BY <2>2, <2>6, HullIs
    <3>2. QED BY <3>1, <2>5, <2>6, OneInOrder
  <2>7. CASE ~Continuous(q, r)
    <3>1. ASSUME NEW x \in Ranges, NEW y \in Ranges, x[2] < y[1]
          PROVE  Normal(Fragment(<<x, y>>))
      <4>1. PICK w : w = <<x, y>>
        OBVIOUS
      <4>2. w \in Seq(Ranges) /\ Len(w) = 2 /\ w[1] = x /\ w[2] = y
        BY <4>1
      <4>3. InOrder(w)
        <5>1. ASSUME NEW i \in 1..2, NEW j \in 1..2, i < j PROVE w[i][2] < w[j][1]
          <6>1. i = 1 /\ j = 2
            BY <5>1
          <6>2. QED BY <6>1, <4>2, <3>1
        <5>2. QED BY <5>1, <4>2 DEF InOrder
      <4>4. Fragment(w).list = w /\ Fragment(w) \in Entries
        BY <4>2, FragmentIs DEF Fragment
      <4>5. QED BY <4>1, <4>3, <4>4, NormalIs
    <3>2. ~(b >= c /\ a <= d)
      BY <2>3, <2>7 DEF Continuous
    <3>3. CASE a < c
      <4>1. b < c
        BY <3>2, <3>3, <2>4
      <4>2. Push(o, r) = {Fragment(<<q, r>>)}
        BY <3>3, <2>3, <2>5, <2>7
      <4>3. QED BY <4>1, <4>2, <3>1, <2>2, <2>3
    <3>4. CASE ~(a < c)
      <4>1. d < a
        BY <3>2, <3>4, <2>4
      <4>2. Push(o, r) = {Fragment(<<r, q>>)}
        BY <3>4, <2>3, <2>5, <2>7
      <4>3. QED BY <4>1, <4>2, <3>1, <2>2, <2>3
    <3>5. QED BY <3>3, <3>4
  <2>8. QED BY <2>6, <2>7
<1>5. QED BY <1>1, <1>2, <1>3, <1>4

\* add_range keeps the order where the range touches at most two fragments.
LEMMA AddRangeKeepsOrder ==
  ASSUME NEW o \in Entries, Normal(o), NEW r \in Ranges, Cardinality(Found(o.list, r)) <= 2
  PROVE  \A u \in AddRange(o, r) : Normal(u)
PROOF
<1>1. CASE IsEmpty(o)
  BY <1>1, OneInOrder DEF AddRange
<1>2. CASE ~IsEmpty(o)
  BY <1>2, PushKeepsOrder, VacantIs DEF AddRange
<1>3. QED BY <1>1, <1>2

\* A clock beyond all an entry covers touches at most its last range.
LEMMA NextTouchesOne ==
  ASSUME NEW l \in Seq(Ranges), InOrder(l), NEW c \in Nat, \A x \in Cover(l) : x < c
  PROVE  Cardinality(Found(l, <<c, c + 1>>)) <= 2
PROOF
<1>1. PICK n, F : n = Len(l) /\ F = Found(l, <<c, c + 1>>)
  OBVIOUS
<1>2. /\ n \in Nat /\ DOMAIN l = 1..n
      /\ \A j \in 1..n : l[j][1] \in Nat /\ l[j][2] \in Nat /\ l[j][1] < l[j][2]
  BY <1>1, ListNumbers
<1>3. ASSUME NEW j \in F PROVE j \in 1..n /\ l[j][2] = c
  <2>1. j \in 1..n /\ Compared(l[j], <<c, c + 1>>) = 0
    BY <1>1, <1>2 DEF Found
  <2>2. Continuous(l[j], <<c, c + 1>>)
    BY <2>1 DEF Compared
  <2>3. PICK a, b : a = l[j][1] /\ b = l[j][2]
    OBVIOUS
  <2>4. a \in Nat /\ b \in Nat /\ a < b /\ b >= c
    BY <2>1, <2>2, <2>3, <1>2 DEF Continuous
  <2>5. b - 1 \in a..(b - 1)
    BY <2>4
  <2>6. b - 1 \in Cover(l)
    BY <2>1, <2>3, <2>5, <1>2 DEF Cover, Clocks
  <2>7. b - 1 < c
    BY <2>6
  <2>8. b = c
    BY <2>4, <2>7
  <2>9. QED BY <2>1, <2>3, <2>8
<1>4. ASSUME NEW i \in F, NEW j \in F PROVE ~(i < j)
  <2>1. SUFFICES ASSUME i < j PROVE FALSE
    OBVIOUS
  <2>2. l[i][2] < l[j][1] /\ l[j][1] < l[j][2] /\ l[j][1] \in Nat /\ l[i][2] = c /\ l[j][2] = c
    BY <2>1, <1>1, <1>2, <1>3 DEF InOrder
  <2>3. PICK s : s = l[j][1]
    OBVIOUS
  <2>4. c < s /\ s < c /\ s \in Nat
    BY <2>2, <2>3
  <2>5. QED BY <2>4
<1>5. \A i, j \in F : i = j
  <2>1. \A i, j \in F : i \in Int /\ j \in Int
    BY <1>3
  <2>2. QED BY <2>1, <1>4
<1>6. F = {} \/ \E x : F = {x}
  <2>1. ASSUME F # {} PROVE \E x : F = {x}
    <3>1. PICK x : x \in F
      BY <2>1
    <3>2. F = {x}
      BY <3>1, <1>5
    <3>3. QED BY <3>2
  <2>2. QED BY <2>1
<1>7. Cardinality({}) = 0 /\ \A x : Cardinality({x}) = 1
  BY FS_EmptySet, FS_Singleton
<1>8. Cardinality(F) \in {0, 1}
  BY <1>6, <1>7
<1>9. \A k \in {0, 1} : k <= 2
  OBVIOUS
<1>10. QED BY <1>1, <1>8, <1>9

\* generate_delete_set, which adds the clocks in order, makes a list in order.
LEMMA GeneratedInOrder ==
  ASSUME NEW s \in SUBSET (0..(MaxItems - 1))
  PROVE  \A g \in Generated(s) : IsNormal(g)
PROOF
<1>1. PICK rs : rs = InClockOrder(s)
  OBVIOUS
<1>2. PICK cs : ListedBy(rs, cs, s)
  BY <1>1, InClockOrderIs
<1>3. PICK n : n = Len(rs)
  OBVIOUS
<1>4. /\ rs \in Seq(Ranges) /\ n \in Nat
      /\ \A i \in 1..n : cs[i] \in s /\ rs[i] = <<cs[i], cs[i] + 1>> /\ cs[i] \in Nat
      /\ \A i, j \in 1..n : i < j => cs[i] < cs[j]
  <2>1. /\ rs \in Seq(Ranges)
        /\ \A i \in 1..n : cs[i] \in s /\ rs[i] = <<cs[i], cs[i] + 1>>
        /\ \A i, j \in 1..n : i < j => cs[i] < cs[j]
    BY <1>2, <1>3 DEF ListedBy
  <2>2. \A x \in s : x \in Nat
    <3>1. MaxItems \in Nat
      BY DeleteSetsAssumption
    <3>2. \A x \in 0..(MaxItems - 1) : x \in Nat
      BY <3>1
    <3>3. QED BY <3>2
  <2>3. n \in Nat
    BY <2>1, <1>3
  <2>4. QED BY <2>1, <2>2, <2>3
<1>5. Generated(s) = AddAll(Vacant, rs)
  BY <1>1 DEF Generated, InClockOrder
<1>6. PICK acc : AddedUpto(acc, Vacant, rs)
  BY <1>4, AddAllUnrolled DEF Slots
<1> DEFINE Good(k) == \A u \in acc[k] : /\ u \in Slots /\ IsNormal(u)
                                        /\ CoversOf(u) = CoverUpto(rs, k)
           T == {k \in Nat : k <= n => Good(k)}
<1>7. 0 \in T
  <2>1. acc[0] = {Vacant} /\ CoverUpto(rs, 0) = {} /\ Vacant \in Slots
    BY <1>6 DEF AddedUpto, CoverUpto, Slots
  <2>2. CoversOf(Vacant) = {} /\ IsNormal(Vacant)
    BY CoversOfIs DEF IsNormal
  <2>3. QED BY <2>1, <2>2
<1>8. ASSUME NEW k \in Nat, k \in T PROVE k + 1 \in T
  <2>1. SUFFICES ASSUME k + 1 <= n PROVE Good(k + 1)
    OBVIOUS
  <2>2. PICK m, c, r : m = k + 1 /\ c = cs[m] /\ r = rs[m]
    OBVIOUS
  <2>3. m \in 1..n /\ m - 1 = k /\ m \in Nat \ {0}
    BY <2>1, <2>2, <1>4
  <2>4. r \in Ranges /\ r = <<c, c + 1>> /\ c \in Nat
    BY <2>2, <2>3, <1>3, <1>4
  <2>5. acc[m] = UNION {AddRange(u, r) : u \in acc[k]}
    BY <2>2, <2>3, <1>3, <1>6 DEF AddedUpto
  <2>6. Good(k)
    BY <2>1, <1>4, <1>8
  <2>7. CoverUpto(rs, m) = CoverUpto(rs, k) \cup Clocks(r)
    BY <2>2, <2>3, CoverNext
  <2>8. \A x \in CoverUpto(rs, k) : x < c
    <3>1. ASSUME NEW i \in 1..k, NEW x \in Clocks(rs[i]) PROVE x < c
      <4>1. i \in 1..n /\ i < m
        BY <2>2, <2>3, <1>4
      <4>2. rs[i] = <<cs[i], cs[i] + 1>> /\ cs[i] \in Nat /\ cs[i] < c
        BY <4>1, <2>2, <2>3, <1>4
      <4>3. PICK d : d = cs[i]
        OBVIOUS
      <4>4. x \in d..((d + 1) - 1) /\ d \in Nat /\ d < c
        BY <4>2, <4>3 DEF Clocks
      <4>5. x = d
        BY <4>4
      <4>6. QED BY <4>4, <4>5
    <3>2. QED BY <3>1 DEF CoverUpto
  <2>9. ASSUME NEW w \in acc[m]
        PROVE  w \in Slots /\ IsNormal(w) /\ CoversOf(w) = CoverUpto(rs, m)
    <3>1. PICK u \in acc[k] : w \in AddRange(u, r)
      BY <2>5
    <3>2. u \in Slots /\ IsNormal(u) /\ CoversOf(u) = CoverUpto(rs, k)
      BY <2>6, <3>1
    <3>3. w \in Entries /\ Covers(w) = CoversOf(u) \cup Clocks(r)
      BY <2>4, <3>1, <3>2, AddRangeKeeps DEF Covering
    <3>4. CoversOf(w) = CoverUpto(rs, m) /\ w \in Slots
      BY <2>7, <3>2, <3>3, CoversOfIs DEF Slots
    <3>5. Normal(w)
      <4>1. CASE u = Vacant
        <5>1. w = Single(r)
          BY <4>1, <3>1 DEF AddRange
        <5>2. QED BY <5>1, <2>4, OneInOrder
      <4>2. CASE u # Vacant
        <5>1. u \in Entries /\ Normal(u)
          BY <4>2, <3>2 DEF Slots, IsNormal
        <5>2. u.list \in Seq(Ranges) /\ InOrder(u.list) /\ Cover(u.list) = CoverUpto(rs, k)
          BY <5>1, <3>2, NormalIs, CoversOfIs, CoversIs DEF Entries, RangeLists
        <5>3. Cardinality(Found(u.list, r)) <= 2
          BY <5>2, <2>4, <2>8, NextTouchesOne
        <5>4. QED BY <5>1, <5>3, <2>4, <3>1, AddRangeKeepsOrder
      <4>3. QED BY <4>1, <4>2
    <3>6. QED BY <3>4, <3>5 DEF IsNormal
  <2>10. QED BY <2>2, <2>9
<1>9. n \in T
  <2> HIDE DEF T
  <2>1. QED BY <1>4, <1>7, <1>8, Induction
<1>10. Good(n)
  BY <1>9
<1>11. AddAll(Vacant, rs) = acc[n]
  BY <1>3, <1>6 DEF AddedUpto
<1>12. QED BY <1>5, <1>10, <1>11

\* What the store holds is in order, or no matter.
LEMMA OrderFromInv ==
  ASSUME SetsInv
  PROVE  AddingKeepsOrder
PROOF
<1>1. \A v \in {set, inbox, pending} \ {Vacant} : v \in Entries
  BY DEF SetsInv, SetsTypeOK, Slots
<1>2. gone \in SUBSET (0..(MaxItems - 1))
  BY DEF SetsInv, SetsTypeOK
<1>3. QED BY <1>1, <1>2, AddRangeKeepsOrder, GeneratedInOrder DEF AddingKeepsOrder

\* push (range.rs) keeps a list of ranges in order and apart, wherever the range
\* pushed touches at most two of them; and the set an update carries, added in
\* clock order (generate_delete_set), is always in order.
THEOREM OrderKeptWhereTwoMeet ==
  SetsSpec => []AddingKeepsOrder
PROOF
<1>1. SetsInit => SetsInv
  BY SetsInitInv
<1>2. SetsInv /\ [SetsNext]_setsVars => SetsInv'
  BY SetsStep
<1>3. SetsInv => AddingKeepsOrder
  BY OrderFromInv
<1>4. QED BY <1>1, <1>2, <1>3, PTL DEF SetsSpec

-----------------------------------------------------------------------------
(* diff_range.                                                             *)

\* The new range new[n] holds the old one old[k].
HoldsOld(new, n, old, k) == new[n][1] <= old[k][1] /\ old[k][2] <= new[n][2]

\* What a list in order covers, it covers range by range: each old range lies
\* in one new one.
LEMMA OneHolds ==
  ASSUME NEW old \in Seq(Ranges), NEW new \in Seq(Ranges), InOrder(new), Cover(old) \subseteq Cover(new),
         NEW k \in 1..Len(old)
  PROVE  \E n \in 1..Len(new) : HoldsOld(new, n, old, k)
PROOF
<1>1. PICK N, M : N = Len(new) /\ M = Len(old)
  OBVIOUS
<1>2. /\ N \in Nat /\ DOMAIN new = 1..N /\ DOMAIN old = 1..M /\ k \in 1..M
      /\ \A n \in 1..N : new[n][1] \in Nat /\ new[n][2] \in Nat /\ new[n][1] < new[n][2]
      /\ old[k][1] \in Nat /\ old[k][2] \in Nat /\ old[k][1] < old[k][2]
  BY <1>1, ListNumbers
<1>3. PICK s, e : s = old[k][1] /\ e = old[k][2]
  OBVIOUS
<1>4. \A x \in s..(e - 1) : \E n \in 1..N : new[n][1] <= x /\ x < new[n][2] /\ x \in Nat
  <2>1. ASSUME NEW x \in s..(e - 1) PROVE \E n \in 1..N : new[n][1] <= x /\ x < new[n][2] /\ x \in Nat
    <3>1. x \in Cover(old)
      BY <1>2, <1>3 DEF Cover, Clocks
    <3>2. PICK n \in 1..N : x \in new[n][1]..(new[n][2] - 1)
      BY <3>1, <1>2 DEF Cover, Clocks
    <3>3. PICK a, b : a = new[n][1] /\ b = new[n][2]
      OBVIOUS
    <3>4. a \in Nat /\ b \in Nat /\ x \in a..(b - 1)
      BY <3>2, <3>3, <1>2
    <3>5. a <= x /\ x < b /\ x \in Nat
      BY <3>4
    <3>6. QED BY <3>3, <3>5
  <2>2. QED BY <2>1
<1>5. s \in Nat /\ e \in Nat /\ s < e /\ s \in s..(e - 1)
  BY <1>2, <1>3
<1>6. PICK n \in 1..N : new[n][1] <= s /\ s < new[n][2]
  BY <1>4, <1>5
<1>7. PICK a, y : a = new[n][1] /\ y = new[n][2]
  OBVIOUS
<1>8. a \in Nat /\ y \in Nat /\ a <= s /\ s < y
  BY <1>2, <1>6, <1>7
<1>9. e <= y
  <2>1. SUFFICES ASSUME y < e PROVE FALSE
    BY <1>5, <1>8
  <2>2. y \in s..(e - 1)
    BY <2>1, <1>5, <1>8
  <2>3. PICK m \in 1..N : new[m][1] <= y /\ y < new[m][2]
    BY <2>2, <1>4
  <2>4. PICK c, d : c = new[m][1] /\ d = new[m][2]
    OBVIOUS
  <2>5. c \in Nat /\ d \in Nat /\ c <= y /\ y < d
    BY <2>3, <2>4, <1>2
  <2>6. (n < m => y < c) /\ (m < n => d < a)
    BY <2>4, <1>1, <1>7 DEF InOrder
  <2>7. m = n => d = y
    BY <2>4, <1>7
  <2>8. n \in Int /\ m \in Int
    OBVIOUS
  <2>9. ~(n < m) /\ ~(m < n)
    BY <2>5, <2>6, <1>5, <1>8
  <2>10. m # n
    BY <2>5, <2>7, <1>8
  <2>11. QED BY <2>8, <2>9, <2>10
<1>10. QED BY <1>1, <1>3, <1>6, <1>9, <1>7 DEF HoldsOld

\* The walk of check_range_covered.
Fitting(old, new, k, a) ==
  {n \in a..Len(new) : new[n][1] <= old[k][1] /\ old[k][2] <= new[n][2]}

\* at[k] is where the walk stands after k old ranges.
WalksTo(at, old, new) ==
  /\ at[0] = 1
  /\ \A k \in 1..Len(old) :
       at[k] = IF Fitting(old, new, k, at[k - 1]) = {} THEN Len(new) + 1
               ELSE CHOOSE n \in Fitting(old, new, k, at[k - 1]) :
                      \A m \in Fitting(old, new, k, at[k - 1]) : n <= m
  /\ CoveredAt(old, new) = at[Len(old)]

\* check_range_covered (range.rs), one old range after the other.
LEMMA WalkUnrolled ==
  ASSUME NEW old \in Seq(Ranges), NEW new \in Seq(Ranges)
  PROVE  \E at : WalksTo(at, old, new)
PROOF
<1>1. PICK N, M : N = Len(new) /\ M = Len(old)
  OBVIOUS
<1>2. N \in Nat /\ M \in Nat
  BY <1>1
<1> DEFINE S == 1..(N + 1)
           fit(k, a) == {n \in a..N : new[n][1] <= old[k][1] /\ old[k][2] <= new[n][2]}
           next(k, a) == IF fit(k, a) = {} THEN N + 1
                         ELSE CHOOSE n \in fit(k, a) : \A m \in fit(k, a) : n <= m
           st == [k \in 1..M |-> [a \in S |-> next(k, a)]]
           F(g) == [k \in 0..M |-> IF k = 0 THEN 1 ELSE next(k, g[k - 1])]
           it == CHOOSE g : g = F(g)
<1>3. ASSUME NEW k \in 1..M, NEW a \in S PROVE next(k, a) \in S
  <2>1. fit(k, a) \subseteq 1..N /\ fit(k, a) \subseteq Nat
    BY <1>2
  <2> HIDE DEF fit
  <2>2. fit(k, a) # {} => \E n \in fit(k, a) : \A m \in fit(k, a) : n <= m
    BY <2>1, LeastOf
  <2>3. fit(k, a) # {} => next(k, a) \in 1..N
    BY <2>1, <2>2
  <2>4. fit(k, a) = {} => next(k, a) = N + 1
    OBVIOUS
  <2> HIDE DEF next
  <2>5. QED BY <2>3, <2>4, <1>2
<1>4. st \in [1..M -> [S -> S]]
  <2> HIDE DEF next, S
  <2>1. QED BY <1>3
<1>5. 1 \in S
  BY <1>2
<1>6. PICK g : Computes(g, M, S, 1, st)
  <2> HIDE DEF st, S
  <2>1. QED BY <1>2, <1>4, <1>5, Recursion
<1>7. g = F(g)
  <2>1. g \in [0..M -> S] /\ g[0] = 1 /\ \A k \in 1..M : g[k] = st[k][g[k - 1]]
    BY <1>6 DEF Computes
  <2>2. ASSUME NEW k \in 1..M PROVE g[k] = next(k, g[k - 1])
    <3>1. k - 1 \in 0..M
      BY <1>2
    <3>2. g[k - 1] \in S
      BY <3>1, <2>1
    <3> HIDE DEF S, next
    <3>3. QED BY <3>2, <2>1
  <2> HIDE DEF S, next, st
  <2>3. \A k \in 0..M : g[k] = IF k = 0 THEN 1 ELSE next(k, g[k - 1])
    <3>1. \A k \in 0..M : k # 0 => k \in 1..M
      BY <1>2
    <3>2. QED BY <3>1, <2>1, <2>2
  <2>4. g = [k \in 0..M |-> g[k]]
    BY <2>1
  <2>5. QED BY <2>3, <2>4
<1>8. it = F(it)
  <2> HIDE DEF F
  <2>1. QED BY <1>7
<1>9. CoveredAt(old, new) = it[M]
  BY <1>1 DEF CoveredAt
<1>10. PICK at : at = it
  OBVIOUS
<1>11. at = F(at) /\ CoveredAt(old, new) = at[M]
  <2>1. at = F(at)
    <3> HIDE DEF it, F
    <3>1. QED BY <1>8, <1>10
  <2>2. CoveredAt(old, new) = at[M]
    <3> HIDE DEF it
    <3>1. QED BY <1>9, <1>10
  <2>3. QED BY <2>1, <2>2
<1> HIDE DEF it
<1>12. at[0] = 1 /\ \A k \in 1..M : at[k] = next(k, at[k - 1])
  <2> HIDE DEF next
  <2>1. \A k \in 0..M : at[k] = IF k = 0 THEN 1 ELSE next(k, at[k - 1])
    BY <1>11
  <2>2. 0 \in 0..M /\ \A k \in 1..M : k \in 0..M /\ k # 0
    BY <1>2
  <2>3. QED BY <2>1, <2>2
<1>13. WalksTo(at, old, new)
  BY <1>1, <1>11, <1>12 DEF WalksTo, Fitting
<1>14. QED BY <1>13

\* It gets to the end where the old clocks are all among the new.
LEMMA CoveredIs ==
  ASSUME NEW old \in Seq(Ranges), InOrder(old), NEW new \in Seq(Ranges), InOrder(new),
         Cover(old) \subseteq Cover(new)
  PROVE  CheckRangeCovered(old, new)
PROOF
<1> SUFFICES ASSUME new # <<>> PROVE CoveredAt(old, new) <= Len(new)
  BY DEF CheckRangeCovered
<1>1. PICK N, M : N = Len(new) /\ M = Len(old)
  OBVIOUS
<1>2. /\ N \in Nat /\ N >= 1 /\ M \in Nat
      /\ \A n \in 1..N : new[n][1] \in Nat /\ new[n][2] \in Nat /\ new[n][1] < new[n][2]
      /\ \A k \in 1..M : old[k][1] \in Nat /\ old[k][2] \in Nat /\ old[k][1] < old[k][2]
  <2>1. N # 0
    BY <1>1
  <2>2. QED BY <2>1, <1>1, ListNumbers
<1>3. PICK at : WalksTo(at, old, new)
  BY WalkUnrolled
<1> DEFINE Good(k) == at[k] \in 1..N /\ (k > 0 => HoldsOld(new, at[k], old, k))
           T == {k \in Nat : k <= M => Good(k)}
<1>4. 0 \in T
  <2>1. at[0] = 1
    BY <1>3 DEF WalksTo
  <2>2. QED BY <2>1, <1>2
<1>5. ASSUME NEW j \in Nat, j \in T PROVE j + 1 \in T
  <2>1. SUFFICES ASSUME j + 1 <= M PROVE Good(j + 1)
    OBVIOUS
  <2>2. PICK k : k = j + 1
    OBVIOUS
  <2>3. k \in 1..M /\ k - 1 = j /\ j <= M /\ j \in 0..M
    BY <2>1, <2>2, <1>2
  <2>4. Good(j)
    BY <2>3, <1>5
  <2>5. PICK a, fit : a = at[j] /\ fit = Fitting(old, new, k, a)
    OBVIOUS
  <2>6. a \in 1..N
    BY <2>4, <2>5
  <2>7. PICK n \in 1..N : HoldsOld(new, n, old, k)
    BY <2>3, <1>1, OneHolds
  <2>8. n >= a
    <3>1. CASE j = 0
      <4>1. a = 1
        BY <3>1, <2>5, <1>3 DEF WalksTo
      <4>2. QED BY <4>1
    <3>2. CASE j # 0
      <4>1. j \in 1..M /\ j < k
        BY <3>2, <2>3
      <4>2. HoldsOld(new, a, old, j)
        BY <3>2, <2>4, <2>5
      <4>3. old[j][2] < old[k][1]
        BY <4>1, <2>3, <1>1 DEF InOrder
      <4>4. SUFFICES ASSUME n < a PROVE FALSE
        BY <2>6
      <4>5. new[n][2] < new[a][1]
        BY <4>4, <2>6, <1>1 DEF InOrder
      <4>6. PICK p, q, s, e, t, f : /\ p = new[n][2] /\ q = new[a][1] /\ s = old[j][1] /\ e = old[j][2]
                                    /\ t = old[k][1] /\ f = old[k][2]
        OBVIOUS
      <4>7. /\ p \in Nat /\ q \in Nat /\ s \in Nat /\ e \in Nat /\ t \in Nat /\ f \in Nat
            /\ s < e /\ t < f
        BY <4>1, <4>6, <2>3, <2>6, <1>2
      <4>8. p < q /\ q <= s /\ e < t /\ f <= p
        BY <4>2, <4>3, <4>5, <4>6, <2>7 DEF HoldsOld
      <4>9. QED BY <4>7, <4>8
    <3>3. QED BY <3>1, <3>2
  <2>9. n \in fit /\ fit \subseteq 1..N
    <3>1. n \in a..N /\ \A i \in a..N : i \in 1..N
      BY <2>6, <2>8, <1>2
    <3>2. QED BY <3>1, <2>5, <2>7, <1>1 DEF Fitting, HoldsOld
  <2>10. \E i \in fit : \A m \in fit : i <= m
    <3>1. fit \subseteq Nat /\ fit # {}
      BY <2>9
    <3>2. QED BY <3>1, LeastOf
  <2>11. at[k] \in fit
    <3>1. at[k] = IF fit = {} THEN Len(new) + 1 ELSE CHOOSE i \in fit : \A m \in fit : i <= m
      BY <2>3, <2>5, <1>1, <1>3 DEF WalksTo
    <3>2. QED BY <3>1, <2>9, <2>10
  <2>12. at[k] \in 1..N /\ HoldsOld(new, at[k], old, k)
    BY <2>5, <2>9, <2>11 DEF Fitting, HoldsOld
  <2>13. QED BY <2>2, <2>12
<1>6. M \in T
  <2> HIDE DEF T
  <2>1. QED BY <1>2, <1>4, <1>5, Induction
<1>7. at[M] \in 1..N
  BY <1>2, <1>6
<1>8. QED BY <1>1, <1>2, <1>3, <1>7 DEF WalksTo

-----------------------------------------------------------------------------
\* upto[n] old ranges are consumed after n new ones.
ConsumesTo(upto, old, new) ==
  /\ upto \in [0..Len(new) -> 0..Len(old)] /\ upto[0] = 0
  /\ \A n \in 1..Len(new) :
       /\ upto[n - 1] <= upto[n]
       /\ \A j \in (upto[n - 1] + 1)..upto[n] : old[j][1] <= new[n][2]
       /\ upto[n] < Len(old) => old[upto[n] + 1][1] > new[n][2]
  /\ Consumed(old, new) = upto

\* diff_range (range.rs), one new range after the other.
LEMMA ConsumedUnrolled ==
  ASSUME NEW old \in Seq(Ranges), NEW new \in Seq(Ranges)
  PROVE  \E upto : ConsumesTo(upto, old, new)
PROOF
<1>1. PICK N, M : N = Len(new) /\ M = Len(old)
  OBVIOUS
<1>2. /\ N \in Nat /\ M \in Nat
      /\ \A n \in 1..N : new[n][2] \in Nat
      /\ \A k \in 1..M : old[k][1] \in Nat
  BY <1>1, ListNumbers
<1> DEFINE S == 0..M
           ok(n, a, k) == /\ \A j \in (a + 1)..k : old[j][1] <= new[n][2]
                          /\ k < M => old[k + 1][1] > new[n][2]
           next(n, a) == CHOOSE k \in a..M : ok(n, a, k)
           st == [n \in 1..N |-> [a \in S |-> next(n, a)]]
           F(g) == [n \in 0..N |-> IF n = 0 THEN 0 ELSE next(n, g[n - 1])]
           it == CHOOSE g : g = F(g)
<1>3. ASSUME NEW n \in 1..N, NEW a \in S PROVE next(n, a) \in a..M /\ ok(n, a, next(n, a))
  <2>1. PICK K : K = {k \in a..M : k = M \/ old[k + 1][1] > new[n][2]}
    OBVIOUS
  <2>2. a \in Nat /\ a <= M
    BY <1>2
  <2>3. K \subseteq Nat /\ M \in K
    BY <2>1, <2>2, <1>2
  <2>4. PICK k \in K : \A i \in K : k <= i
    <3>1. K # {}
      BY <2>3
    <3>2. QED BY <2>3, <3>1, LeastOf
  <2>5. k \in a..M /\ (k = M \/ old[k + 1][1] > new[n][2])
    BY <2>1, <2>4
  <2>6. ASSUME NEW j \in (a + 1)..k PROVE old[j][1] <= new[n][2]
    <3>1. PICK i : i = j - 1
      OBVIOUS
    <3>2. i \in a..M /\ i < k /\ i + 1 = j /\ j \in 1..M /\ i # M
      BY <3>1, <2>2, <2>5, <1>2
    <3>3. i \notin K
      BY <3>2, <2>2, <2>4, <2>5
    <3>4. ~(old[j][1] > new[n][2])
      BY <3>2, <3>3, <2>1
    <3>5. QED BY <3>2, <3>4, <1>2
  <2>7. ok(n, a, k)
    BY <2>5, <2>6
  <2> HIDE DEF ok
  <2>8. QED BY <2>5, <2>7
<1>4. st \in [1..N -> [S -> S]]
  <2>1. \A n \in 1..N, a \in S : next(n, a) \in S
    <3>1. \A a \in S : a..M \subseteq S
      BY <1>2
    <3> HIDE DEF next, S
    <3>2. QED BY <3>1, <1>3
  <2> HIDE DEF next, S
  <2>2. QED BY <2>1
<1>5. 0 \in S
  BY <1>2
<1>6. PICK g : Computes(g, N, S, 0, st)
  <2> HIDE DEF st, S
  <2>1. QED BY <1>2, <1>4, <1>5, Recursion
<1>7. /\ g \in [0..N -> S] /\ g[0] = 0
      /\ \A n \in 1..N : g[n - 1] \in S /\ g[n] = next(n, g[n - 1])
  <2>1. g \in [0..N -> S] /\ g[0] = 0 /\ \A n \in 1..N : g[n] = st[n][g[n - 1]]
    BY <1>6 DEF Computes
  <2>2. ASSUME NEW n \in 1..N PROVE g[n - 1] \in S /\ g[n] = next(n, g[n - 1])
    <3>1. n - 1 \in 0..N
      BY <1>2
    <3>2. g[n - 1] \in S
      BY <3>1, <2>1
    <3> HIDE DEF S, next
    <3>3. QED BY <3>2, <2>1
  <2>3. QED BY <2>1, <2>2
<1>8. g = F(g)
  <2> HIDE DEF S, next, st
  <2>1. \A n \in 0..N : g[n] = IF n = 0 THEN 0 ELSE next(n, g[n - 1])
    <3>1. \A n \in 0..N : n # 0 => n \in 1..N
      BY <1>2
    <3>2. QED BY <3>1, <1>7
  <2>2. g = [n \in 0..N |-> g[n]]
    BY <1>7
  <2>3. QED BY <2>1, <2>2
<1>9. it = F(it)
  <2> HIDE DEF F
  <2>1. QED BY <1>8
<1>10. Consumed(old, new) = it
  BY <1>1 DEF Consumed
<1>11. PICK upto : upto = it
  OBVIOUS
<1>12. upto = F(upto) /\ Consumed(old, new) = upto
  BY <1>9, <1>10, <1>11
<1> HIDE DEF it
<1>13. upto[0] = 0 /\ \A n \in 1..N : upto[n] = next(n, upto[n - 1])
  <2> HIDE DEF next
  <2>1. \A n \in 0..N : upto[n] = IF n = 0 THEN 0 ELSE next(n, upto[n - 1])
    BY <1>12
  <2>2. 0 \in 0..N /\ \A n \in 1..N : n \in 0..N /\ n # 0
    BY <1>2
  <2>3. QED BY <2>1, <2>2
<1> DEFINE T == {n \in Nat : n <= N => upto[n] \in S}
<1>14. 0 \in T
  BY <1>5, <1>13
<1>15. ASSUME NEW n \in Nat, n \in T PROVE n + 1 \in T
  <2>1. SUFFICES ASSUME n + 1 <= N PROVE upto[n + 1] \in S
    OBVIOUS
  <2>2. n + 1 \in 1..N /\ (n + 1) - 1 = n /\ n <= N
    BY <2>1, <1>2
  <2>3. upto[n] \in S
    BY <2>2, <1>15
  <2>4. next(n + 1, upto[n]) \in upto[n]..M
    <3> HIDE DEF next, S
    <3>1. QED BY <2>2, <2>3, <1>3
  <2>5. upto[n + 1] = next(n + 1, upto[n])
    <3> HIDE DEF next
    <3>1. QED BY <2>2, <1>13
  <2> HIDE DEF next
  <2>6. QED BY <2>3, <2>4, <2>5
<1>16. \A n \in 0..N : upto[n] \in S
  <2>1. Nat \subseteq T
    <3> HIDE DEF T
    <3>1. QED BY <1>14, <1>15, Induction
  <2>2. ASSUME NEW n \in 0..N PROVE upto[n] \in S
    <3>1. n \in Nat /\ n <= N
      BY <1>2
    <3>2. n \in T
      <4> HIDE DEF T
      <4>1. QED BY <2>1, <3>1
    <3>3. QED BY <3>1, <3>2
  <2>3. QED BY <2>2
<1>17. upto \in [0..N -> S]
  <2>1. upto = [n \in 0..N |-> IF n = 0 THEN 0 ELSE next(n, upto[n - 1])]
    BY <1>12
  <2> HIDE DEF next, S, F
  <2>2. upto = [n \in 0..N |-> upto[n]]
    BY <2>1
  <2>3. QED BY <2>2, <1>16
<1>18. ASSUME NEW n \in 1..N
       PROVE  /\ upto[n - 1] <= upto[n]
              /\ \A j \in (upto[n - 1] + 1)..upto[n] : old[j][1] <= new[n][2]
              /\ upto[n] < M => old[upto[n] + 1][1] > new[n][2]
  <2>1. n - 1 \in 0..N
    BY <1>2
  <2>2. PICK a, b : a = upto[n - 1] /\ b = upto[n]
    OBVIOUS
  <2>3. a \in S
    BY <2>1, <2>2, <1>16
  <2>4. b = next(n, a)
    BY <2>2, <1>13
  <2>5. b \in a..M /\ ok(n, a, b)
    <3> HIDE DEF next, ok, S
    <3>1. QED BY <2>3, <2>4, <1>3
  <2>6. a <= b
    BY <2>3, <2>5, <1>2
  <2>7. QED BY <2>2, <2>5, <2>6
<1>19. ConsumesTo(upto, old, new)
  BY <1>1, <1>12, <1>13, <1>17, <1>18 DEF ConsumesTo
<1>20. QED BY <1>19

\* The clocks of a range, as a pair of bounds.
LEMMA InClocks ==
  ASSUME NEW r, r[1] \in Nat, r[2] \in Nat, NEW x
  PROVE  x \in Clocks(r) <=> x \in Nat /\ r[1] <= x /\ x < r[2]
PROOF
<1>1. PICK a, b : a = r[1] /\ b = r[2]
  OBVIOUS
<1>2. x \in a..(b - 1) <=> x \in Nat /\ a <= x /\ x < b
  BY <1>1
<1>3. QED BY <1>1, <1>2 DEF Clocks

\* The gaps that the old ranges lo .. hi, which lie in r one after the other,
\* leave in r.
GapsLeave(old, lo, hi, r, x) ==
  (\E g \in Gaps(old, lo, hi, r) : x \in Clocks(g))
    <=> (x \in Clocks(r) /\ \A j \in lo..hi : x \notin Clocks(old[j]))

\* They are what of r the old ranges do not cover.
LEMMA GapsAre ==
  ASSUME NEW old \in Seq(Ranges), InOrder(old), NEW lo \in 1..(Len(old) + 1), NEW hi \in 0..Len(old),
         NEW r \in Ranges,
         \A j \in lo..hi : r[1] <= old[j][1] /\ old[j][2] <= r[2],
         NEW x
  PROVE  GapsLeave(old, lo, hi, r, x)
PROOF
<1>0. SUFFICES (\E g \in Gaps(old, lo, hi, r) : x \in Clocks(g))
                 <=> (x \in Clocks(r) /\ \A j \in lo..hi : x \notin Clocks(old[j]))
  BY DEF GapsLeave
<1>1. PICK M, a, b : M = Len(old) /\ a = r[1] /\ b = r[2]
  OBVIOUS
<1>2. /\ M \in Nat /\ lo \in Nat /\ hi \in Nat /\ lo >= 1 /\ hi <= M
      /\ \A j \in 1..M : old[j][1] \in Nat /\ old[j][2] \in Nat /\ old[j][1] < old[j][2]
  BY <1>1, ListNumbers
<1>3. a \in Nat /\ b \in Nat /\ a < b
  <2>1. a \in 0..MaxItems /\ b \in 0..MaxItems /\ a < b /\ MaxItems \in Nat
    BY <1>1, RangeIs, DeleteSetsAssumption
  <2>2. QED BY <2>1
<1>4. x \in Clocks(r) <=> x \in Nat /\ a <= x /\ x < b
  BY <1>1, <1>3, InClocks
<1>5. \A j \in lo..hi : /\ j \in 1..M /\ a <= old[j][1] /\ old[j][2] <= b
                        /\ (x \in Clocks(old[j]) <=> x \in Nat /\ old[j][1] <= x /\ x < old[j][2])
  <2>1. ASSUME NEW j \in lo..hi
        PROVE  /\ j \in 1..M /\ a <= old[j][1] /\ old[j][2] <= b
               /\ (x \in Clocks(old[j]) <=> x \in Nat /\ old[j][1] <= x /\ x < old[j][2])
    <3>1. j \in 1..M
      BY <1>2
    <3>2. a <= old[j][1] /\ old[j][2] <= b
      BY <1>1
    <3>3. PICK q : q = old[j]
      OBVIOUS
    <3>4. x \in Clocks(q) <=> x \in Nat /\ q[1] <= x /\ x < q[2]
      BY <3>1, <3>3, <1>2, InClocks
    <3>5. QED BY <3>1, <3>2, <3>3, <3>4
  <2>2. QED BY <2>1
<1>6. CASE lo > hi
  <2>1. Gaps(old, lo, hi, r) = {r}
    BY <1>6 DEF Gaps
  <2>2. \A j : j \notin lo..hi
    BY <1>2, <1>6
  <2>3. QED BY <2>1, <2>2
<1>7. CASE ~(lo > hi)
  <2>1. PICK P : P = {<<a, old[lo][1]>>, <<old[hi][2], b>>}
                       \cup {<<old[j][2], old[j + 1][1]>> : j \in lo..(hi - 1)}
    OBVIOUS
  <2>2. Gaps(old, lo, hi, r) = {g \in P : g[1] < g[2]}
    BY <2>1, <1>1, <1>7 DEF Gaps
  <2>3. lo \in lo..hi /\ hi \in lo..hi
    BY <1>2, <1>7
  <2>4. /\ old[lo][1] \in Nat /\ old[hi][2] \in Nat
        /\ \A j \in lo..(hi - 1) : j \in lo..hi /\ j + 1 \in lo..hi /\ j \in 1..M /\ j + 1 \in 1..M
    BY <2>3, <1>2, <1>5
  <2>5. \A i, j \in lo..hi : i < j => old[i][2] < old[j][1]
    BY <1>1, <1>5 DEF InOrder
  <2>6. ASSUME NEW s \in Nat, NEW e \in Nat
        PROVE  x \in Clocks(<<s, e>>) <=> x \in Nat /\ s <= x /\ x < e
    <3>1. PICK g : g = <<s, e>>
      OBVIOUS
    <3>2. g[1] = s /\ g[2] = e
      BY <3>1
    <3>3. x \in Clocks(g) <=> x \in Nat /\ s <= x /\ x < e
      BY <3>2, InClocks
    <3>4. QED BY <3>1, <3>3
  <2>7. ASSUME NEW g \in Gaps(old, lo, hi, r), x \in Clocks(g)
        PROVE  x \in Clocks(r) /\ \A j \in lo..hi : x \notin Clocks(old[j])
    <3>1. g \in P
      BY <2>2
    <3>2. CASE g = <<a, old[lo][1]>>
      <4>1. PICK s : s = old[lo][1]
        OBVIOUS
      <4>2. s \in Nat /\ old[lo][2] \in Nat /\ s < old[lo][2] /\ old[lo][2] <= b
        BY <4>1, <2>3, <1>2, <1>5
      <4>3. x \in Nat /\ a <= x /\ x < s
        BY <4>1, <4>2, <3>2, <2>6, <2>7, <1>3
      <4>4. x \in Clocks(r)
        BY <4>2, <4>3, <1>3, <1>4
      <4>5. ASSUME NEW j \in lo..hi PROVE x \notin Clocks(old[j])
        <5>1. s <= old[j][1]
          <6>1. j = lo \/ lo < j
            BY <1>2
          <6>2. lo < j => old[lo][2] < old[j][1]
            BY <2>3, <2>5
          <6>3. old[j][1] \in Nat
            BY <1>2, <1>5
          <6>4. QED BY <6>1, <6>2, <6>3, <4>1, <4>2
        <5>2. old[j][1] \in Nat
          BY <1>2, <1>5
        <5>3. ~(old[j][1] <= x)
          BY <5>1, <5>2, <4>2, <4>3
        <5>4. QED BY <5>3, <1>5
      <4>6. QED BY <4>4, <4>5
    <3>3. CASE g = <<old[hi][2], b>>
      <4>1. PICK e : e = old[hi][2]
        OBVIOUS
      <4>2. e \in Nat /\ old[hi][1] \in Nat /\ old[hi][1] < e /\ a <= old[hi][1]
        BY <4>1, <2>3, <1>2, <1>5
      <4>3. x \in Nat /\ e <= x /\ x < b
        BY <4>1, <4>2, <3>3, <2>6, <2>7, <1>3
      <4>4. x \in Clocks(r)
        BY <4>2, <4>3, <1>3, <1>4
      <4>5. ASSUME NEW j \in lo..hi PROVE x \notin Clocks(old[j])
        <5>1. old[j][2] \in Nat
          BY <1>2, <1>5
        <5>2. old[j][2] <= e
          <6>1. j = hi \/ j < hi
            BY <1>2
          <6>2. j < hi => old[j][2] < old[hi][1]
            BY <2>3, <2>5
          <6>3. QED BY <6>1, <6>2, <5>1, <4>1, <4>2
        <5>3. ~(x < old[j][2])
          BY <5>1, <5>2, <4>2, <4>3
        <5>4. QED BY <5>3, <1>5
      <4>6. QED BY <4>4, <4>5
    <3>4. CASE \E i \in lo..(hi - 1) : g = <<old[i][2], old[i + 1][1]>>
      <4>1. PICK i \in lo..(hi - 1) : g = <<old[i][2], old[i + 1][1]>>
        BY <3>4
      <4>2. PICK k, s, e : k = i + 1 /\ s = old[i][2] /\ e = old[k][1]
        OBVIOUS
      <4>3. i \in lo..hi /\ k \in lo..hi /\ i \in 1..M /\ k \in 1..M
        BY <4>2, <2>4
      <4>4. /\ s \in Nat /\ e \in Nat /\ old[i][1] \in Nat /\ old[i][1] < s
            /\ old[k][2] \in Nat /\ e < old[k][2] /\ a <= old[i][1] /\ old[k][2] <= b
        BY <4>2, <4>3, <1>2, <1>5
      <4>5. x \in Nat /\ s <= x /\ x < e
        BY <4>1, <4>2, <4>4, <2>6, <2>7
      <4>6. x \in Clocks(r)
        <5>1. PICK u, v : u = old[i][1] /\ v = old[k][2]
          OBVIOUS
        <5>2. u \in Nat /\ v \in Nat /\ u < s /\ e < v /\ a <= u /\ v <= b
          BY <5>1, <4>4
        <5>3. a <= x /\ x < b
          BY <5>2, <4>4, <4>5, <1>3
        <5>4. QED BY <5>3, <4>5, <1>4
      <4>7. ASSUME NEW j \in lo..hi PROVE x \notin Clocks(old[j])
        <5>1. old[j][1] \in Nat /\ old[j][2] \in Nat
          BY <1>2, <1>5
        <5>2. PICK u, v, c, d : u = old[j][1] /\ v = old[j][2] /\ c = old[i][1] /\ d = old[k][2]
          OBVIOUS
        <5>3. /\ u \in Nat /\ v \in Nat /\ c \in Nat /\ d \in Nat /\ c < s /\ e < d
              /\ s \in Nat /\ e \in Nat
          BY <5>1, <5>2, <4>4
        <5>4. CASE j <= i
          <6>1. j = i \/ j < i
            BY <5>4, <4>3
          <6>2. j < i => v < c
            BY <5>2, <4>3, <2>5
          <6>3. j = i => v = s
            BY <5>2, <4>2
          <6>4. v <= s
            BY <6>1, <6>2, <6>3, <5>3
          <6>5. ~(x < v)
            BY <6>4, <5>3, <4>5
          <6>6. QED BY <6>5, <5>2, <1>5
        <5>5. CASE ~(j <= i)
          <6>1. j = k \/ k < j
            BY <5>5, <4>2, <4>3
          <6>2. k < j => d < u
            BY <5>2, <4>3, <2>5
          <6>3. j = k => u = e
            BY <5>2, <4>2
          <6>4. e <= u
            BY <6>1, <6>2, <6>3, <5>3
          <6>5. ~(u <= x)
            BY <6>4, <5>3, <4>5
          <6>6. QED BY <6>5, <5>2, <1>5
        <5>6. QED BY <5>4, <5>5
      <4>8. QED BY <4>6, <4>7
    <3>5. QED BY <3>1, <3>2, <3>3, <3>4, <2>1
  <2>8. ASSUME x \in Clocks(r), \A j \in lo..hi : x \notin Clocks(old[j])
        PROVE  \E g \in Gaps(old, lo, hi, r) : x \in Clocks(g)
    <3>1. x \in Nat /\ a <= x /\ x < b
      BY <2>8, <1>4
    <3>2. \A j \in lo..hi : old[j][1] <= x => old[j][2] <= x
      <4>1. ASSUME NEW j \in lo..hi, old[j][1] <= x PROVE old[j][2] <= x
        <5>1. ~(x < old[j][2]) /\ old[j][2] \in Nat
          BY <4>1, <3>1, <2>8, <1>2, <1>5
        <5>2. QED BY <5>1, <3>1
      <4>2. QED BY <4>1
    <3>3. ASSUME NEW s \in Nat, NEW e \in Nat, <<s, e>> \in P, s <= x, x < e
          PROVE  \E g \in Gaps(old, lo, hi, r) : x \in Clocks(g)
      <4>1. PICK g : g = <<s, e>>
        OBVIOUS
      <4>2. g[1] = s /\ g[2] = e /\ s < e /\ g \in P
        BY <4>1, <3>1, <3>3
      <4>3. g \in Gaps(old, lo, hi, r)
        BY <4>2, <2>2
      <4>4. x \in Clocks(g)
        BY <4>2, <3>1, <3>3, InClocks
      <4>5. QED BY <4>3, <4>4
    <3>4. CASE x < old[lo][1]
      <4>1. <<a, old[lo][1]>> \in P
        BY <2>1
      <4>2. QED BY <4>1, <3>1, <3>3, <3>4, <2>4, <1>3
    <3>5. CASE ~(x < old[lo][1])
      <4>1. PICK K : K = {k \in lo..hi : k = hi \/ x < old[k + 1][1]}
        OBVIOUS
      <4>2. K \subseteq Nat /\ K # {}
        <5>1. lo..hi \subseteq Nat
          BY <1>2
        <5>2. K \subseteq lo..hi
          BY <4>1
        <5>3. hi \in K
          BY <4>1, <2>3
        <5>4. QED BY <5>1, <5>2, <5>3
      <4>3. PICK k \in K : \A i \in K : k <= i
        BY <4>2, LeastOf
      <4>4. k \in lo..hi /\ (k = hi \/ x < old[k + 1][1])
        BY <4>1, <4>3
      <4>5. old[k][1] <= x
        <5>1. CASE k = lo
          BY <5>1, <3>1, <3>5, <2>4
        <5>2. CASE k # lo
          <6>1. PICK i : i = k - 1
            OBVIOUS
          <6>2. i \in lo..hi /\ i < k /\ i # hi /\ i + 1 = k
            BY <6>1, <5>2, <4>4, <1>2
          <6>3. i \notin K
            <7>1. i \in Nat /\ k \in Nat
              BY <6>2, <4>4, <1>2
            <7>2. QED BY <7>1, <6>2, <4>3
          <6>4. ~(x < old[k][1])
            BY <6>2, <6>3, <4>1
          <6>5. old[k][1] \in Nat
            BY <4>4, <1>2, <1>5
          <6>6. QED BY <6>4, <6>5, <3>1
        <5>3. QED BY <5>1, <5>2
      <4>6. old[k][2] <= x /\ old[k][2] \in Nat
        BY <4>4, <4>5, <3>2, <1>2, <1>5
      <4>7. CASE k = hi
        <5>1. <<old[hi][2], b>> \in P
          BY <2>1
        <5>2. QED BY <5>1, <4>6, <4>7, <3>1, <3>3, <1>3
      <4>8. CASE k # hi
        <5>1. k \in lo..(hi - 1)
          BY <4>4, <4>8, <1>2
        <5>2. <<old[k][2], old[k + 1][1]>> \in P
          BY <5>1, <2>1
        <5>3. old[k + 1][1] \in Nat /\ x < old[k + 1][1]
          BY <5>1, <4>4, <4>8, <2>4, <1>2
        <5>4. QED BY <5>2, <5>3, <4>6, <3>3
      <4>9. QED BY <4>7, <4>8
    <3>6. QED BY <3>4, <3>5
  <2>9. QED BY <2>7, <2>8
<1>8. QED BY <1>6, <1>7

\* Each old range is consumed by the new one that holds it.
LEMMA ConsumedIs ==
  ASSUME NEW old \in Seq(Ranges), InOrder(old), NEW new \in Seq(Ranges), InOrder(new),
         NEW upto, ConsumesTo(upto, old, new), NEW i \in 1..Len(new)
  PROVE  /\ \A j \in 1..upto[i] : old[j][1] <= new[i][2]
         /\ \A j \in (upto[i] + 1)..Len(old) : new[i][2] < old[j][1]
PROOF
<1>1. PICK N, M : N = Len(new) /\ M = Len(old)
  OBVIOUS
<1>2. /\ N \in Nat /\ M \in Nat
      /\ \A n \in 1..N : new[n][1] \in Nat /\ new[n][2] \in Nat /\ new[n][1] < new[n][2]
      /\ \A k \in 1..M : old[k][1] \in Nat /\ old[k][2] \in Nat /\ old[k][1] < old[k][2]
  BY <1>1, ListNumbers
<1>3. /\ upto \in [0..N -> 0..M] /\ upto[0] = 0
      /\ \A n \in 1..N : /\ upto[n - 1] <= upto[n]
                         /\ \A j \in (upto[n - 1] + 1)..upto[n] : old[j][1] <= new[n][2]
                         /\ upto[n] < M => old[upto[n] + 1][1] > new[n][2]
  BY <1>1 DEF ConsumesTo
<1> DEFINE Good(n) == \A j \in 1..upto[n] : old[j][1] <= new[n][2]
           T == {n \in Nat : n \in 1..N => Good(n)}
<1>4. 0 \in T
  OBVIOUS
<1>5. ASSUME NEW n \in Nat, n \in T PROVE n + 1 \in T
  <2>1. SUFFICES ASSUME n + 1 \in 1..N, NEW j \in 1..upto[n + 1] PROVE old[j][1] <= new[n + 1][2]
    OBVIOUS
  <2>2. PICK m : m = n + 1
    OBVIOUS
  <2>3. m \in 1..N /\ m - 1 = n /\ n \in 0..N /\ j \in 1..upto[m]
    BY <2>1, <2>2, <1>2
  <2>4. upto[n] \in 0..M /\ upto[m] \in 0..M
    BY <2>3, <1>3
  <2>5. CASE j > upto[n]
    <3>1. j \in (upto[n] + 1)..upto[m]
      BY <2>3, <2>4, <2>5
    <3>2. QED BY <3>1, <2>2, <2>3, <1>3
  <2>6. CASE ~(j > upto[n])
    <3>1. j \in 1..upto[n] /\ j \in 1..M
      BY <2>3, <2>4, <2>6, <1>2
    <3>2. n # 0
      BY <3>1, <1>3
    <3>3. n \in 1..N /\ n < m
      BY <3>2, <2>2, <2>3
    <3>4. old[j][1] <= new[n][2]
      BY <3>1, <3>3, <1>5
    <3>5. new[n][2] < new[m][1]
      BY <3>3, <2>3, <1>1 DEF InOrder
    <3>6. PICK s, p, q, t : s = old[j][1] /\ p = new[n][2] /\ q = new[m][1] /\ t = new[m][2]
      OBVIOUS
    <3>7. s \in Nat /\ p \in Nat /\ q \in Nat /\ t \in Nat /\ s <= p /\ p < q /\ q < t
      BY <3>1, <3>3, <3>4, <3>5, <3>6, <2>3, <1>2
    <3>8. s <= t
      BY <3>7
    <3>9. QED BY <3>6, <3>8, <2>2
  <2>7. QED BY <2>5, <2>6
<1>6. i \in T
  <2>1. i \in Nat
    OBVIOUS
  <2> HIDE DEF T
  <2>2. QED BY <2>1, <1>4, <1>5, Induction
<1>7. Good(i)
  BY <1>1, <1>6
<1>8. ASSUME NEW j \in (upto[i] + 1)..M PROVE new[i][2] < old[j][1]
  <2>1. upto[i] \in 0..M /\ i \in 1..N
    <3>1. i \in 1..N /\ i \in 0..N
      BY <1>1, <1>2
    <3>2. QED BY <3>1, <1>3
  <2>2. PICK k : k = upto[i] + 1
    OBVIOUS
  <2>3. k \in 1..M /\ j \in 1..M /\ k <= j /\ upto[i] < M
    BY <2>1, <2>2, <1>2
  <2>4. old[k][1] > new[i][2]
    BY <2>1, <2>2, <2>3, <1>3
  <2>5. k < j => old[k][2] < old[j][1]
    BY <2>3, <1>1 DEF InOrder
  <2>6. PICK s, e, t, p : s = old[k][1] /\ e = old[k][2] /\ t = old[j][1] /\ p = new[i][2]
    OBVIOUS
  <2>7. /\ s \in Nat /\ e \in Nat /\ t \in Nat /\ p \in Nat /\ s < e /\ s > p
        /\ (k < j => e < t) /\ (k = j => s = t)
    BY <2>1, <2>3, <2>4, <2>5, <2>6, <1>2
  <2>8. k < j \/ k = j
    BY <2>3
  <2>9. p < t
    BY <2>7, <2>8
  <2>10. QED BY <2>6, <2>9
<1>9. QED BY <1>1, <1>7, <1>8

\* diff_range of lists in order names the clocks that are new.
LEMMA DiffRangeIs ==
  ASSUME NEW o \in Entries, Normal(o), NEW n \in Entries, Normal(n), Covers(o) \subseteq Covers(n)
  PROVE  UNION {Clocks(r) : r \in DiffRange(o, n)} = Covers(n) \ Covers(o)
PROOF
<1>1. PICK old, new, N, M : old = o.list /\ new = n.list /\ N = Len(new) /\ M = Len(old)
  OBVIOUS
<1>2. /\ old \in Seq(Ranges) /\ new \in Seq(Ranges) /\ InOrder(old) /\ InOrder(new)
      /\ Covers(o) = Cover(old) /\ Covers(n) = Cover(new)
  BY <1>1, NormalIs, CoversIs DEF Entries, RangeLists
<1>3. /\ N \in Nat /\ M \in Nat /\ DOMAIN new = 1..N /\ DOMAIN old = 1..M
      /\ \A i \in 1..N : /\ new[i] \in Ranges /\ new[i][1] \in Nat /\ new[i][2] \in Nat
                         /\ new[i][1] < new[i][2]
      /\ \A k \in 1..M : old[k][1] \in Nat /\ old[k][2] \in Nat /\ old[k][1] < old[k][2]
  BY <1>1, <1>2, ListNumbers
<1>4. PICK upto : ConsumesTo(upto, old, new)
  BY <1>2, ConsumedUnrolled
<1>5. CheckRangeCovered(old, new)
  BY <1>2, CoveredIs
<1>6. PICK gaps : gaps = [i \in 1..N |-> Gaps(old, upto[i - 1] + 1, upto[i], new[i])]
  OBVIOUS
<1>7. DiffRange(o, n) = UNION {gaps[i] : i \in 1..N}
  <2>1. Consumed(old, new) = upto
    BY <1>4 DEF ConsumesTo
  <2>2. DiffRange(o, n) = UNION {Gaps(old, upto[i - 1] + 1, upto[i], new[i]) : i \in 1..N}
    BY <2>1, <1>1, <1>3, <1>5 DEF DiffRange
  <2>3. \A i \in 1..N : gaps[i] = Gaps(old, upto[i - 1] + 1, upto[i], new[i])
    BY <1>6
  <2>4. QED BY <2>2, <2>3
<1>8. /\ upto \in [0..N -> 0..M] /\ upto[0] = 0
      /\ \A i \in 1..N : upto[i - 1] <= upto[i]
  BY <1>1, <1>4 DEF ConsumesTo
<1>9. \A i \in 1..N : /\ \A j \in 1..upto[i] : old[j][1] <= new[i][2]
                      /\ \A j \in (upto[i] + 1)..M : new[i][2] < old[j][1]
  BY <1>1, <1>2, <1>4, ConsumedIs
<1>10. \A k \in 1..M : \E i \in 1..N : HoldsOld(new, i, old, k)
  BY <1>1, <1>2, OneHolds
\* The old ranges between two marks are those that the new one holds.
<1>11. ASSUME NEW i \in 1..N, NEW k \in 1..M
       PROVE  (k > upto[i - 1] /\ k <= upto[i]) <=> HoldsOld(new, i, old, k)
  <2>1. i - 1 \in 0..N /\ i \in 0..N
    BY <1>3
  <2>2. upto[i - 1] \in 0..M /\ upto[i] \in 0..M
    BY <2>1, <1>8
  <2>3. PICK s, e, p, q : s = old[k][1] /\ e = old[k][2] /\ p = new[i][1] /\ q = new[i][2]
    OBVIOUS
  <2>4. s \in Nat /\ e \in Nat /\ p \in Nat /\ q \in Nat /\ s < e /\ p < q
    BY <2>3, <1>3
  <2>5. (k <= upto[i]) <=> (s <= q)
    <3>1. k <= upto[i] => s <= q
      <4>1. k <= upto[i] => k \in 1..upto[i]
        BY <2>2
      <4>2. QED BY <4>1, <2>3, <1>9
    <3>2. ~(k <= upto[i]) => q < s
      <4>1. ~(k <= upto[i]) => k \in (upto[i] + 1)..M
        BY <2>2, <1>3
      <4>2. QED BY <4>1, <2>3, <1>9
    <3>3. QED BY <3>1, <3>2, <2>4
  <2>6. i = 1 => k > upto[i - 1]
    BY <1>8
  <2>7. ASSUME i # 1
        PROVE  i - 1 \in 1..N /\ ((k > upto[i - 1]) <=> (new[i - 1][2] < s)) /\ new[i - 1][2] < p
    <3>1. PICK m : m = i - 1
      OBVIOUS
    <3>2. m \in 1..N /\ m < i
      BY <3>1, <2>7, <1>3
    <3>3. upto[m] \in 0..M /\ new[m][2] \in Nat
      BY <3>1, <3>2, <2>2, <1>3
    <3>4. k <= upto[m] => s <= new[m][2]
      <4>1. k <= upto[m] => k \in 1..upto[m]
        BY <3>3
      <4>2. QED BY <4>1, <3>2, <2>3, <1>9
    <3>5. ~(k <= upto[m]) => new[m][2] < s
      <4>1. ~(k <= upto[m]) => k \in (upto[m] + 1)..M
        BY <3>3, <1>3
      <4>2. QED BY <4>1, <3>2, <2>3, <1>9
    <3>6. (k > upto[m]) <=> (new[m][2] < s)
      BY <3>3, <3>4, <3>5, <2>4
    <3>7. new[m][2] < p
      BY <3>2, <2>3, <1>1, <1>2 DEF InOrder
    <3>8. QED BY <3>1, <3>2, <3>6, <3>7
  <2>8. ASSUME k > upto[i - 1], k <= upto[i] PROVE HoldsOld(new, i, old, k)
    <3>1. PICK h \in 1..N : HoldsOld(new, h, old, k)
      BY <1>10
    <3>2. PICK c, d : c = new[h][1] /\ d = new[h][2]
      OBVIOUS
    <3>3. c \in Nat /\ d \in Nat /\ c < d /\ c <= s /\ e <= d
      BY <3>1, <3>2, <2>3, <1>3 DEF HoldsOld
    <3>4. ~(i < h)
      <4>1. i < h => q < c
        BY <3>2, <2>3, <1>1, <1>2 DEF InOrder
      <4>2. s <= q
        BY <2>5, <2>8
      <4>3. QED BY <4>1, <4>2, <3>3, <2>4
    <3>5. ~(h < i)
      <4>1. SUFFICES ASSUME h < i PROVE FALSE
        OBVIOUS
      <4>2. i # 1 /\ h <= i - 1
        BY <4>1, <1>3
      <4>3. PICK m, f : m = i - 1 /\ f = new[m][2]
        OBVIOUS
      <4>4. f < s /\ m \in 1..N /\ f \in Nat /\ new[m][1] \in Nat /\ new[m][1] < f
        BY <4>2, <4>3, <2>7, <2>8, <1>3
      <4>5. d <= f
        <5>1. h = m \/ h < m
          BY <4>2, <4>3
        <5>2. h < m => d < new[m][1]
          BY <4>4, <3>2, <1>1, <1>2 DEF InOrder
        <5>3. h = m => d = f
          BY <3>2, <4>3
        <5>4. QED BY <5>1, <5>2, <5>3, <4>4, <3>3
      <4>6. QED BY <4>4, <4>5, <3>3, <2>4
    <3>6. h = i
      BY <3>4, <3>5
    <3>7. QED BY <3>1, <3>6
  <2>9. ASSUME HoldsOld(new, i, old, k) PROVE k > upto[i - 1] /\ k <= upto[i]
    <3>1. p <= s /\ e <= q
      BY <2>3, <2>9 DEF HoldsOld
    <3>2. s <= q
      BY <3>1, <2>4
    <3>3. CASE i = 1
      BY <3>2, <3>3, <2>5, <2>6
    <3>4. CASE i # 1
      <4>1. new[i - 1][2] < p /\ new[i - 1][2] \in Nat
        BY <3>4, <2>7, <1>3
      <4>2. new[i - 1][2] < s
        BY <4>1, <3>1, <2>4
      <4>3. QED BY <4>2, <3>2, <3>4, <2>5, <2>7
    <3>5. QED BY <3>3, <3>4
  <2>10. QED BY <2>8, <2>9
<1>12. ASSUME NEW i \in 1..N, NEW x
       PROVE  (\E g \in gaps[i] : x \in Clocks(g))
                <=> (x \in Clocks(new[i]) /\ \A k \in 1..M : HoldsOld(new, i, old, k) => x \notin Clocks(old[k]))
  <2>1. i - 1 \in 0..N /\ i \in 0..N
    BY <1>3
  <2>2. PICK lo, hi, r : lo = upto[i - 1] + 1 /\ hi = upto[i] /\ r = new[i]
    OBVIOUS
  <2>3. lo \in 1..(M + 1) /\ hi \in 0..M /\ r \in Ranges
    BY <2>1, <2>2, <1>3, <1>8
  <2>4. upto[i - 1] \in 0..M
    BY <2>1, <1>8
  <2>5. \A k : k \in lo..hi <=> k \in 1..M /\ HoldsOld(new, i, old, k)
    <3>1. \A k : k \in lo..hi <=> k \in 1..M /\ k > upto[i - 1] /\ k <= upto[i]
      BY <2>2, <2>3, <2>4, <1>3
    <3>2. QED BY <3>1, <1>11
  <2>6. \A j \in lo..hi : r[1] <= old[j][1] /\ old[j][2] <= r[2]
    BY <2>2, <2>5 DEF HoldsOld
  <2>7. (\E g \in Gaps(old, lo, hi, r) : x \in Clocks(g))
          <=> (x \in Clocks(r) /\ \A j \in lo..hi : x \notin Clocks(old[j]))
    <3>1. lo \in 1..(Len(old) + 1) /\ hi \in 0..Len(old) /\ r \in Ranges
      BY <2>3, <1>1
    <3>2. old \in Seq(Ranges) /\ InOrder(old)
      BY <1>1, <1>2
    <3>3. GapsLeave(old, lo, hi, r, x)
      BY <3>1, <3>2, <2>6, GapsAre
    <3>4. QED BY <3>3 DEF GapsLeave
  <2>8. gaps[i] = Gaps(old, lo, hi, r)
    BY <2>2, <1>6
  <2>9. QED BY <2>2, <2>5, <2>7, <2>8
\* What another new range holds does not meet this one.
<1>13. ASSUME NEW i \in 1..N, NEW h \in 1..N, h # i, NEW x, x \in Clocks(new[i])
       PROVE  x \notin Clocks(new[h])
  <2>1. PICK a, b, c, d : a = new[i][1] /\ b = new[i][2] /\ c = new[h][1] /\ d = new[h][2]
    OBVIOUS
  <2>2. a \in Nat /\ b \in Nat /\ c \in Nat /\ d \in Nat
    BY <2>1, <1>3
  <2>3. x \in Nat /\ a <= x /\ x < b
    BY <2>1, <2>2, <1>13, InClocks
  <2>4. (i < h => b < c) /\ (h < i => d < a)
    BY <2>1, <1>1, <1>2 DEF InOrder
  <2>5. i < h \/ h < i
    BY <1>13
  <2>6. ~(c <= x /\ x < d)
    BY <2>2, <2>3, <2>4, <2>5
  <2>7. QED BY <2>1, <2>2, <2>6, InClocks
<1>14. ASSUME NEW i \in 1..N, NEW k \in 1..M, HoldsOld(new, i, old, k)
       PROVE  Clocks(old[k]) \subseteq Clocks(new[i])
  <2>1. PICK s, e, p, q : s = old[k][1] /\ e = old[k][2] /\ p = new[i][1] /\ q = new[i][2]
    OBVIOUS
  <2>2. s \in Nat /\ e \in Nat /\ p \in Nat /\ q \in Nat /\ p <= s /\ e <= q
    BY <2>1, <1>3, <1>14 DEF HoldsOld
  <2>3. s..(e - 1) \subseteq p..(q - 1)
    BY <2>2
  <2>4. QED BY <2>1, <2>3 DEF Clocks
<1>15. \A x : x \in Cover(new) <=> \E i \in 1..N : x \in Clocks(new[i])
  BY <1>3 DEF Cover
<1>16. \A x : x \in Cover(old) <=> \E k \in 1..M : x \in Clocks(old[k])
  BY <1>3 DEF Cover
<1>17. \A x : x \in UNION {Clocks(r) : r \in DiffRange(o, n)}
                <=> \E i \in 1..N : \E g \in gaps[i] : x \in Clocks(g)
  BY <1>7
<1>18. ASSUME NEW x, x \in Cover(new), x \notin Cover(old)
       PROVE  \E i \in 1..N : \E g \in gaps[i] : x \in Clocks(g)
  <2>1. PICK i \in 1..N : x \in Clocks(new[i])
    BY <1>15, <1>18
  <2>2. \A k \in 1..M : x \notin Clocks(old[k])
    BY <1>16, <1>18
  <2>3. QED BY <2>1, <2>2, <1>12
<1>19. ASSUME NEW x, NEW i \in 1..N, NEW g \in gaps[i], x \in Clocks(g)
       PROVE  x \in Cover(new) /\ x \notin Cover(old)
  <2>1. x \in Clocks(new[i]) /\ \A k \in 1..M : HoldsOld(new, i, old, k) => x \notin Clocks(old[k])
    BY <1>12, <1>19
  <2>2. ASSUME NEW k \in 1..M PROVE x \notin Clocks(old[k])
    <3>1. PICK h \in 1..N : HoldsOld(new, h, old, k)
      BY <1>10
    <3>2. CASE h = i
      BY <3>1, <3>2, <2>1
    <3>3. CASE h # i
      <4>1. x \notin Clocks(new[h])
        BY <3>3, <2>1, <1>13
      <4>2. QED BY <4>1, <3>1, <1>14
    <3>4. QED BY <3>2, <3>3
  <2>3. QED BY <2>1, <2>2, <1>15, <1>16
<1>20. QED BY <1>2, <1>17, <1>18, <1>19

-----------------------------------------------------------------------------
\* The publisher has looked at an earlier state of the set.
ReportInv == SetsInv /\ CoversOf(last) \subseteq gone /\ (last # Vacant => set # Vacant)

\* Adding a batch leaves an entry.
LEMMA BatchAddLeavesEntry ==
  ASSUME NEW v \in Slots, NEW rs \in Seq(Ranges)
  PROVE  \A u \in BatchAdd(v, rs) : u # Vacant
PROOF
<1>1. CASE v = Vacant
  <2>1. BatchAdd(v, rs) = {Fragment(rs)}
    BY <1>1 DEF BatchAdd
  <2>2. QED BY <2>1, FragmentIs, VacantIs
<1>2. CASE v # Vacant
  <2>1. v \in Entries /\ BatchAdd(v, rs) = Extend(v, rs)
    BY <1>2 DEF Slots, BatchAdd
  <2>2. \A u \in Extend(v, rs) : u \in Entries
    BY <2>1, ExtendKeeps DEF Covering
  <2>3. QED BY <2>1, <2>2, VacantIs
<1>3. QED BY <1>1, <1>2

\* Every step keeps that the publisher's last set is part of the store's.
LEMMA ReportStep ==
  ASSUME ReportInv, [SetsNext]_setsVars
  PROVE  ReportInv'
PROOF
<1>1. SetsInv /\ SetsInv'
  BY SetsStep DEF ReportInv
<1>2. CoversOf(last) \subseteq gone /\ (last # Vacant => set # Vacant) /\ CoversOf(set) = gone
  BY DEF ReportInv, SetsInv, DeletesKept
<1>3. CASE DeleteItem
  <2>1. PICK b \in Deletable :
          /\ set' \in BatchAdd(set, b)
          /\ gone' = gone \cup UNION {Clocks(b[i]) : i \in DOMAIN b}
          /\ last' = last
    BY <1>3 DEF DeleteItem
  <2>2. PICK n \in 1..MaxBatch : b \in [1..n -> Ranges]
    BY DEF Deletable, Batches
  <2>3. b \in Seq(Ranges)
    BY <2>2, DeleteSetsAssumption
  <2>4. set \in Slots
    BY <1>1 DEF SetsInv, SetsTypeOK
  <2>5. set' # Vacant
    BY <2>1, <2>3, <2>4, BatchAddLeavesEntry
  <2>6. CoversOf(last') = CoversOf(last) /\ gone \subseteq gone'
    BY <2>1
  <2>7. QED BY <2>5, <2>6, <1>1, <1>2 DEF ReportInv
<1>4. CASE Observe
  <2>1. last' = set /\ set' = set /\ gone' = gone
    BY <1>4 DEF Observe
  <2>2. CoversOf(last') = CoversOf(set)
    BY <2>1
  <2>3. QED BY <2>1, <2>2, <1>1, <1>2 DEF ReportInv
<1>5. CASE Receive \/ ItemsArrive \/ IterateDeletes \/ Drain \/ UNCHANGED setsVars
  <2>1. last' = last /\ set' = set /\ gone' = gone
    BY <1>5 DEF Receive, ItemsArrive, IterateDeletes, Drain, setsVars
  <2>2. CoversOf(last') = CoversOf(last)
    BY <2>1
  <2>3. QED BY <2>1, <2>2, <1>1, <1>2 DEF ReportInv
<1>6. QED BY <1>3, <1>4, <1>5 DEF SetsNext

\* What the publisher reports at a turn.
LEMMA ReportIs ==
  ASSUME ReportInv, [SetsNext]_setsVars, last' # last, IsNormal(last), IsNormal(last')
  PROVE  Reported(last, last') = CoversOf(last') \ CoversOf(last)
PROOF
<1>1. last' = set
  BY DEF SetsNext, DeleteItem, Observe, Receive, ItemsArrive, IterateDeletes, Drain, setsVars
<1>2. PICK o, n : o = last /\ n = set
  OBVIOUS
<1>3. /\ o \in Slots /\ n \in Slots /\ CoversOf(o) \subseteq CoversOf(n) /\ (o # Vacant => n # Vacant)
      /\ IsNormal(o) /\ IsNormal(n)
  BY <1>1, <1>2 DEF ReportInv, SetsInv, SetsTypeOK, DeletesKept
<1>4. CASE o = Vacant
  <2>1. Reported(o, n) = CoversOf(n) /\ CoversOf(o) = {}
    BY <1>4, CoversOfIs DEF Reported
  <2>2. QED BY <2>1, <1>1, <1>2
<1>5. CASE o # Vacant
  <2>1. o \in Entries /\ n \in Entries /\ Normal(o) /\ Normal(n)
    BY <1>3, <1>5 DEF Slots, IsNormal
  <2>2. CoversOf(o) = Covers(o) /\ CoversOf(n) = Covers(n)
    BY <2>1, CoversOfIs
  <2>3. UNION {Clocks(r) : r \in DiffRange(o, n)} = Covers(n) \ Covers(o)
    BY <2>1, <2>2, <1>3, DiffRangeIs
  <2>4. Reported(o, n) = CoversOf(n) \ CoversOf(o)
    BY <2>2, <2>3, <1>5 DEF Reported
  <2>5. QED BY <2>4, <1>1, <1>2
<1>6. QED BY <1>4, <1>5

\* What the publisher reports as deleted (parse_delete_sets by diff_range,
\* range.rs) is exactly what was deleted since its last turn, whenever the lists
\* it compares are in order: the check that the old ranges are covered always
\* passes, and the gaps that the walk leaves are the difference.
THEOREM ReportIsTheDifference ==
  SetsSpec => ReportsTheDifference
PROOF
<1>1. SetsInit => ReportInv
  <2>1. ASSUME SetsInit PROVE ReportInv
    <3>1. SetsInv /\ last = Vacant /\ CoversOf(last) = {}
      BY <2>1, SetsInitInv, CoversOfIs DEF SetsInit
    <3>2. QED BY <3>1 DEF ReportInv
  <2>2. QED BY <2>1
<1>2. ReportInv /\ [SetsNext]_setsVars => ReportInv'
  BY ReportStep
<1>3. ReportInv /\ [SetsNext]_setsVars
        => [last' # last /\ IsNormal(last) /\ IsNormal(last')
             => Reported(last, last') = CoversOf(last') \ CoversOf(last)]_setsVars
  BY ReportIs
<1>4. QED BY <1>1, <1>2, <1>3, PTL DEF SetsSpec, ReportsTheDifference

=============================================================================
