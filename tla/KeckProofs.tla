------------------------------ MODULE KeckProofs ------------------------------
(***************************************************************************)
(* What is proved of Keck for any number of requests, tasks and rows: the  *)
(* sections under the locks, that some request can always go on, that a    *)
(* workspace is rebuilt once, that every row stays found, that the docs    *)
(* table implements DurableDoc, and that an answered write is kept.        *)
(***************************************************************************)
EXTENDS Keck, FiniteSetTheorems, TLAPS

-----------------------------------------------------------------------------
(* The paths of the tasks: which steps may stand before and after which in *)
(* what a task still has to do, whatever steps are added on the way.       *)

\* Every step a task may have to do.
Step == {"find", "cache", "cached", "load", "insert_empty", "blocks", "obj", "str", "arr",
         "map", "del", "unmap", "persist", "ack", "export", "forget", "uncache", "lock",
         "drop", "count", "doc_all", "is_workspace", "clear", "merged", "insert", "full",
         "normalize", "import", "rebuild", "rebuilt", "migrate", "migrated", "mark",
         "vacant", "force", "again", "look", "open"}

\* Steps that read and replace rows; a run of them ends with one of Ends.
Mid == {"count", "doc_all", "is_workspace", "clear", "merged", "load", "insert_empty"}
Ends == {"insert", "cached", "full"}
\* Steps that give the bucket back.
Releases == {"insert", "cached", "drop"}
\* Steps under last_migrate, and under plain_yjs_rebuilt.
Migration == Mid \cup Releases \cup {"cache", "uncache", "lock", "full"}
Rebuilding == Migration \cup {"migrate", "migrated"}

\* Steps of a path that writes an update, and of one that replaces the document.
Writing == {"persist", "count", "doc_all", "insert"}
Rewriting == {"full", "normalize", "import", "rebuild", "open"}

\* Steps that change the document, that use the instance, and that a handler has
\* on its path from the start.
Puts == {"obj", "str", "arr", "map", "del", "unmap", "blocks"}
Uses == Puts \cup {"persist", "normalize", "import"}
Handled == Uses \cup {"ack", "open"}

\* Which step may follow which.
Link(a, b) ==
  /\ b = "is_workspace" => a \in {"load", "doc_all", "insert_empty", "merged"}
  /\ (b = "clear") <=> (a = "is_workspace")
  /\ (b \in {"merged", "full"}) <=> (a = "clear")
  /\ b # "doc_all"
  /\ b = "drop" => a = "lock"

\* After each step of open come steps of mid, up to one of close.
Bracket(s, open, mid, close) ==
  \A i \in 1..Len(s) : s[i] \in open =>
    \E k \in 1..Len(s) : i < k /\ s[k] \in close /\ \A j \in i + 1..k - 1 : s[j] \in mid

\* Each release goes back through steps of Mid to a lock, or to the start.
Locked(s) ==
  \A k \in 1..Len(s) : s[k] \in Releases =>
    \/ \E j \in 1..k - 1 : s[j] = "lock" /\ \A i \in j + 1..k - 1 : s[i] \in Mid
    \/ \A i \in 1..k - 1 : s[i] \in Mid

\* What is read to replace the whole document is not put back.
Loading == {"load", "insert_empty", "merged"}
Flushes(s) ==
  \A i \in 1..Len(s) - 1 : s[i] \in Loading /\ s[i + 1] = "is_workspace" =>
    \E k \in i + 1..Len(s) : s[k] = "full"

Path(s) ==
  /\ s \in Seq(Step) /\ Flushes(s)
  /\ Bracket(s, Mid, Mid, Ends)
  /\ Bracket(s, {"lock"}, Mid, Releases)
  /\ Bracket(s, {"migrate"}, Migration, {"migrated"})
  /\ Locked(s)
  /\ \A i \in 1..Len(s) - 1 : Link(s[i], s[i + 1])
  /\ \A i, k \in 1..Len(s) : ~(s[i] \in Writing /\ s[k] \in Rewriting)
  /\ \A i \in 1..Len(s) : s[i] \in {"normalize", "rebuild", "rebuilt"} => i = Len(s)

\* The head is on the way to a step of out, through steps of mid only.
Within(s, mid, out) ==
  \E k \in 1..Len(s) : s[k] \in out /\ \A i \in 1..k - 1 : s[i] \in mid
Holding(s) == Within(s, Mid, Releases)

-----------------------------------------------------------------------------
(* A step is done, and m steps are put before what is left. *)

Continues(n, s, m) ==
  /\ n \in Seq(Step) /\ m \in Nat /\ Len(n) = m + Len(s) - 1
  /\ \A i \in 2..Len(s) : n[i + m - 1] = s[i]

\* What the steps put first must be like, head being the step that was done.
FitsBrackets(n, m, head) ==
  /\ \A i \in 1..m : n[i] \in Mid =>
       \/ \E k \in 1..m : i < k /\ n[k] \in Ends /\ \A j \in i + 1..k - 1 : n[j] \in Mid
       \/ head \in Mid /\ \A j \in i + 1..m : n[j] \in Mid
  /\ \A i \in 1..m : n[i] = "lock" =>
       \E k \in 1..m : i < k /\ n[k] \in Releases /\ \A j \in i + 1..k - 1 : n[j] \in Mid
  /\ \A i \in 1..m : n[i] = "migrate" =>
       \E k \in 1..m : i < k /\ n[k] = "migrated" /\ \A j \in i + 1..k - 1 : n[j] \in Migration
  /\ \A k \in 1..m : n[k] \in Releases =>
       \E j \in 1..k - 1 : n[j] = "lock" /\ \A i \in j + 1..k - 1 : n[i] \in Mid

FitsLinks(n, m, head) ==
  /\ head \in {"lock", "migrate", "clear"} => m = 0
  /\ head \in Mid => \A i \in 1..m : n[i] \in Mid
  /\ \A i \in 1..m - 1 : Link(n[i], n[i + 1])
  /\ \A i \in 1..m - 1 : n[i] \in Loading /\ n[i + 1] = "is_workspace" =>
       \E k \in i + 1..m : n[k] = "full"
  /\ m > 0 => /\ \A b \in Step : Link(head, b) => Link(n[m], b)
              /\ n[m] \in Loading => head \in Loading \cup {"count"}
              /\ n[1] \notin {"clear", "merged", "full", "drop"}
              /\ n[1] = "is_workspace" => head = "load"
              /\ n[1] = "doc_all" => head = "count"
  /\ \A i \in 1..m : /\ n[i] \in Writing => head \in Writing
                     /\ n[i] \in Rewriting => head \in Rewriting
                     /\ head \in Migration => n[i] \in Migration
                     /\ head \in Rebuilding => n[i] \in Rebuilding
                     /\ n[i] = "rebuilt" => head = "rebuild"
                     /\ n[i] \in {"full", "drop"} =>
                          head \in {"force", "normalize", "import", "rebuild"}
                     /\ n[i] \in {"normalize", "rebuild", "rebuilt"} =>
                          head \in {"normalize", "rebuild"} /\ i = m
                     /\ n[i] \in Handled =>
                          n[i] = "import" /\ head = "open" /\ i = m /\ m = 2 /\ n[1] = "cache"

Follows(n, s, m) == Continues(n, s, m) /\ FitsBrackets(n, m, s[1]) /\ FitsLinks(n, m, s[1])

\* Brackets stay closed: those that were open at the head are continued.
LEMMA BracketContinues ==
  ASSUME NEW open, NEW mid, NEW close, NEW s \in Seq(Step), s # <<>>, NEW n, NEW m,
         Bracket(s, open, mid, close), Continues(n, s, m),
         \A i \in 1..m : n[i] \in open =>
           \/ \E k \in 1..m : i < k /\ n[k] \in close /\ \A j \in i + 1..k - 1 : n[j] \in mid
           \/ s[1] \in open /\ \A j \in i + 1..m : n[j] \in mid
  PROVE  Bracket(n, open, mid, close)
<1> SUFFICES ASSUME NEW i \in 1..Len(n), n[i] \in open
             PROVE  \E k \in 1..Len(n) : i < k /\ n[k] \in close
                                         /\ \A j \in i + 1..k - 1 : n[j] \in mid
  BY DEF Bracket
<1>1. /\ Len(s) \in Nat \ {0} /\ m \in Nat /\ Len(n) = m + Len(s) - 1
      /\ \A k \in 2..Len(s) : n[k + m - 1] = s[k]
  BY DEF Continues
<1>2. \A a \in 1..Len(s) : s[a] \in open =>
        \E k \in 1..Len(s) : a < k /\ s[k] \in close /\ \A j \in a + 1..k - 1 : s[j] \in mid
  BY DEF Bracket
<1>3. \A j \in m + 1..Len(n) : j - m + 1 \in 2..Len(s) /\ n[j] = s[j - m + 1]
  <2> SUFFICES ASSUME NEW j \in m + 1..Len(n)
               PROVE  j - m + 1 \in 2..Len(s) /\ n[j] = s[j - m + 1]
    OBVIOUS
  <2>1. j - m + 1 \in 2..Len(s) /\ (j - m + 1) + m - 1 = j
    BY <1>1
  <2> QED BY <1>1, <2>1
<1>4. CASE i > m
  <2>1. i - m + 1 \in 2..Len(s) /\ s[i - m + 1] \in open
    BY <1>1, <1>3, <1>4
  <2>2. PICK k \in 1..Len(s) : /\ i - m + 1 < k /\ s[k] \in close
                               /\ \A j \in (i - m + 1) + 1..k - 1 : s[j] \in mid
    BY <1>2, <2>1
  <2>3. k + m - 1 \in 1..Len(n) /\ i < k + m - 1 /\ n[k + m - 1] \in close
    BY <1>1, <2>1, <2>2
  <2>4. \A j \in i + 1..(k + m - 1) - 1 :
          j \in m + 1..Len(n) /\ j - m + 1 \in (i - m + 1) + 1..k - 1
    BY <1>1, <1>4, <2>1, <2>2
  <2>5. \A j \in i + 1..(k + m - 1) - 1 : n[j] \in mid
    BY <1>3, <2>2, <2>4
  <2> QED BY <2>3, <2>5
<1>5. CASE ~(i > m)
  <2>1. i \in 1..m
    BY <1>1, <1>5
  <2>2. CASE \E k \in 1..m : i < k /\ n[k] \in close /\ \A j \in i + 1..k - 1 : n[j] \in mid
    <3>1. PICK k \in 1..m : i < k /\ n[k] \in close /\ \A j \in i + 1..k - 1 : n[j] \in mid
      BY <2>2
    <3>2. k \in 1..Len(n)
      BY <1>1
    <3> QED BY <3>1, <3>2
  <2>3. CASE s[1] \in open /\ \A j \in i + 1..m : n[j] \in mid
    <3>1. PICK k \in 1..Len(s) : 1 < k /\ s[k] \in close /\ \A j \in 1 + 1..k - 1 : s[j] \in mid
      BY <1>1, <1>2, <2>3
    <3>2. k + m - 1 \in 1..Len(n) /\ i < k + m - 1 /\ n[k + m - 1] \in close
      BY <1>1, <2>1, <3>1
    <3>3. ASSUME NEW j \in i + 1..(k + m - 1) - 1 PROVE n[j] \in mid
      <4>1. CASE j <= m
        BY <1>1, <2>1, <2>3, <4>1
      <4>2. CASE ~(j <= m)
        <5>1. j \in m + 1..Len(n) /\ j - m + 1 \in 1 + 1..k - 1
          BY <1>1, <2>1, <3>1, <4>2
        <5> QED BY <1>3, <3>1, <5>1
      <4> QED BY <4>1, <4>2
    <3> QED BY <3>2, <3>3
  <2> QED BY <2>1, <2>2, <2>3
<1> QED BY <1>4, <1>5

\* What follows the head of s stands behind the m first steps of n.
LEMMA Shifted ==
  ASSUME NEW s \in Seq(Step), s # <<>>, NEW n, NEW m, Continues(n, s, m)
  PROVE  /\ Len(s) \in Nat \ {0} /\ m \in Nat /\ Len(n) = m + Len(s) - 1
         /\ \A j \in m + 1..Len(n) : j - m + 1 \in 2..Len(s) /\ n[j] = s[j - m + 1]
<1>1. /\ Len(s) \in Nat \ {0} /\ m \in Nat /\ Len(n) = m + Len(s) - 1
      /\ \A k \in 2..Len(s) : n[k + m - 1] = s[k]
  BY DEF Continues
<1> SUFFICES ASSUME NEW j \in m + 1..Len(n)
             PROVE  j - m + 1 \in 2..Len(s) /\ n[j] = s[j - m + 1]
  BY <1>1
<1>2. j - m + 1 \in 2..Len(s) /\ (j - m + 1) + m - 1 = j
  BY <1>1
<1> QED BY <1>1, <1>2

\* A release among the first steps has its lock there; a later one has it where
\* it was, or the lock was the head and nothing was added.
LEMMA LockedContinues ==
  ASSUME NEW s \in Seq(Step), s # <<>>, NEW n, NEW m, Locked(s), Follows(n, s, m)
  PROVE  Locked(n)
<1> Continues(n, s, m) /\ FitsBrackets(n, m, s[1]) /\ FitsLinks(n, m, s[1])
  BY DEF Follows
<1> SUFFICES ASSUME NEW k \in 1..Len(n), n[k] \in Releases
             PROVE  \/ \E j \in 1..k - 1 : n[j] = "lock" /\ \A i \in j + 1..k - 1 : n[i] \in Mid
                    \/ \A i \in 1..k - 1 : n[i] \in Mid
  BY DEF Locked
<1>1. /\ Len(s) \in Nat \ {0} /\ m \in Nat /\ Len(n) = m + Len(s) - 1
      /\ \A j \in m + 1..Len(n) : j - m + 1 \in 2..Len(s) /\ n[j] = s[j - m + 1]
  BY Shifted
<1>2. CASE k \in 1..m
  BY <1>2 DEF FitsBrackets
<1>3. CASE k \in m + 1..Len(n)
  <2>1. k - m + 1 \in 2..Len(s) /\ s[k - m + 1] \in Releases
    BY <1>1, <1>3
  <2>2. CASE \A i \in 1..(k - m + 1) - 1 : s[i] \in Mid
    <3>1. s[1] \in Mid
      BY <2>1, <2>2
    <3>2. \A i \in 1..m : n[i] \in Mid
      BY <3>1 DEF FitsLinks
    <3>3. ASSUME NEW i \in 1..k - 1 PROVE n[i] \in Mid
      <4>1. CASE i \in 1..m
        BY <3>2, <4>1
      <4>2. CASE i \in m + 1..Len(n)
        <5>1. i - m + 1 \in 1..(k - m + 1) - 1 /\ n[i] = s[i - m + 1]
          BY <1>1, <4>2
        <5> QED BY <2>2, <5>1
      <4> QED BY <1>1, <4>1, <4>2
    <3> QED BY <3>3
  <2>3. CASE \E j \in 1..(k - m + 1) - 1 :
               s[j] = "lock" /\ \A i \in j + 1..(k - m + 1) - 1 : s[i] \in Mid
    <3>1. PICK j \in 1..(k - m + 1) - 1 :
               s[j] = "lock" /\ \A i \in j + 1..(k - m + 1) - 1 : s[i] \in Mid
      BY <2>3
    <3>2. ASSUME NEW i \in m + 1..k - 1, i > j + m - 1 PROVE n[i] \in Mid
      <4>1. i - m + 1 \in j + 1..(k - m + 1) - 1 /\ n[i] = s[i - m + 1]
        BY <1>1, <1>3, <3>2
      <4> QED BY <3>1, <4>1
    <3>3. CASE j = 1
      <4>1. m = 0
        BY <3>1, <3>3 DEF FitsLinks
      <4> QED BY <1>1, <3>2, <3>3, <4>1
    <3>4. CASE j # 1
      <4>1. j + m - 1 \in m + 1..k - 1 /\ n[j + m - 1] = "lock"
        BY <1>1, <1>3, <3>1, <3>4
      <4> QED BY <1>1, <3>2, <4>1
    <3> QED BY <3>3, <3>4
  <2> DEFINE q == k - m + 1
  <2>4. q \in 1..Len(s) /\ s[q] \in Releases
    BY <1>1, <2>1
  <2>5. \/ \E j \in 1..q - 1 : s[j] = "lock" /\ \A i \in j + 1..q - 1 : s[i] \in Mid
        \/ \A i \in 1..q - 1 : s[i] \in Mid
    BY <2>4 DEF Locked
  <2> QED BY <2>2, <2>3, <2>5
<1> QED BY <1>1, <1>2, <1>3

\* A read for a flush stays before the end of the flush.
LEMMA FlushesContinues ==
  ASSUME NEW s, Path(s), s # <<>>, NEW n, NEW m, Follows(n, s, m)
  PROVE  Flushes(n)
<1> s \in Seq(Step) /\ Continues(n, s, m) /\ FitsLinks(n, m, s[1])
  BY DEF Path, Follows
<1>1. /\ Len(s) \in Nat \ {0} /\ m \in Nat /\ Len(n) = m + Len(s) - 1
      /\ \A j \in m + 1..Len(n) : j - m + 1 \in 2..Len(s) /\ n[j] = s[j - m + 1]
  BY Shifted
<1> SUFFICES ASSUME NEW i \in 1..Len(n) - 1, n[i] \in Loading, n[i + 1] = "is_workspace"
             PROVE  \E k \in i + 1..Len(n) : n[k] = "full"
  BY DEF Flushes
<1>2. ASSUME NEW q \in 1..Len(s) - 1, s[q] \in Loading, s[q + 1] = "is_workspace", i <= q + m - 1
      PROVE  \E k \in i + 1..Len(n) : n[k] = "full"
  <2>1. PICK k \in q + 1..Len(s) : s[k] = "full"
    BY <1>2 DEF Path, Flushes
  <2>2. /\ k + m - 1 \in m + 1..Len(n) /\ k + m - 1 \in i + 1..Len(n)
        /\ (k + m - 1) - m + 1 = k
    BY <1>1, <1>2, <2>1
  <2>3. n[k + m - 1] = s[k]
    BY <1>1, <2>2
  <2> QED BY <2>1, <2>2, <2>3
<1>3. CASE i \in 1..m - 1
  <2>1. PICK k \in i + 1..m : n[k] = "full"
    BY <1>3 DEF FitsLinks
  <2>2. k \in i + 1..Len(n)
    BY <1>1, <2>1
  <2> QED BY <2>1, <2>2
<1>4. CASE i = m
  <2>1. 1 \in 1..Len(s) - 1 /\ s[1 + 1] = "is_workspace" /\ m > 0
    BY <1>1, <1>4
  <2>2. Link(s[1], s[1 + 1])
    BY <2>1 DEF Path
  <2>3. s[1] \in Loading
    BY <1>4, <2>1, <2>2 DEF FitsLinks, Link
  <2>4. i <= 1 + m - 1
    BY <1>1, <1>4
  <2> QED BY <1>2, <2>1, <2>3, <2>4
<1>5. CASE i \in m + 1..Len(n) - 1
  <2> DEFINE q == i - m + 1
  <2>1. q \in 1..Len(s) - 1 /\ s[q] = n[i] /\ s[q + 1] = n[i + 1] /\ i <= q + m - 1
    BY <1>1, <1>5
  <2> QED BY <1>2, <2>1
<1> QED BY <1>1, <1>3, <1>4, <1>5

\* A task stays on a path when the steps it puts first fit.
LEMMA ThenPath ==
  ASSUME NEW s, Path(s), s # <<>>, NEW n, NEW m, Follows(n, s, m)
  PROVE  Path(n)
<1> s \in Seq(Step) /\ Continues(n, s, m) /\ FitsBrackets(n, m, s[1]) /\ FitsLinks(n, m, s[1])
  BY DEF Path, Follows
<1>1. /\ Len(s) \in Nat \ {0} /\ m \in Nat /\ Len(n) = m + Len(s) - 1
      /\ \A j \in m + 1..Len(n) : j - m + 1 \in 2..Len(s) /\ n[j] = s[j - m + 1]
  BY Shifted
<1>2. n \in Seq(Step)
  BY DEF Continues
<1>3. Bracket(n, Mid, Mid, Ends)
  BY BracketContinues DEF Path, FitsBrackets
<1>4. Bracket(n, {"lock"}, Mid, Releases)
  BY BracketContinues DEF Path, FitsBrackets
<1>5. Bracket(n, {"migrate"}, Migration, {"migrated"})
  BY BracketContinues DEF Path, FitsBrackets
<1>6. Locked(n)
  BY LockedContinues DEF Path
<1>7. ASSUME NEW i \in 1..Len(n) - 1 PROVE Link(n[i], n[i + 1])
  <2>1. CASE i \in 1..m - 1
    BY <2>1 DEF FitsLinks
  <2>2. CASE i = m
    <3>1. 1 \in 1..Len(s) - 1 /\ n[i + 1] = s[2] /\ s[2] \in Step /\ m > 0
      BY <1>1, <2>2
    <3>2. Link(s[1], s[1 + 1])
      BY <3>1 DEF Path
    <3> QED BY <2>2, <3>1, <3>2 DEF FitsLinks
  <2>3. CASE i \in m + 1..Len(n) - 1
    <3> DEFINE j == i - m + 1
    <3>1. j \in 1..Len(s) - 1 /\ n[i] = s[j] /\ n[i + 1] = s[j + 1]
      BY <1>1, <2>3
    <3>2. Link(s[j], s[j + 1])
      BY <3>1 DEF Path
    <3> QED BY <3>1, <3>2
  <2> QED BY <1>1, <2>1, <2>2, <2>3
<1>8. ASSUME NEW i \in 1..Len(n)
      PROVE  \E j \in 1..Len(s) : /\ n[i] \in Writing => s[j] \in Writing
                                  /\ n[i] \in Rewriting => s[j] \in Rewriting
  <2>1. CASE i \in 1..m
    BY <1>1, <2>1 DEF FitsLinks
  <2>2. CASE i \in m + 1..Len(n)
    BY <1>1, <2>2
  <2> QED BY <1>1, <2>1, <2>2
<1>9. ASSUME NEW i \in 1..Len(n), NEW k \in 1..Len(n), n[i] \in Writing, n[k] \in Rewriting
      PROVE  FALSE
  BY <1>8, <1>9 DEF Path
<1>10. ASSUME NEW i \in 1..Len(n), n[i] \in {"normalize", "rebuild", "rebuilt"}
       PROVE  i = Len(n)
  <2>1. CASE i \in 1..m
    <3>1. s[1] \in {"normalize", "rebuild"} /\ i = m
      BY <1>10, <2>1 DEF FitsLinks
    <3>2. 1 \in 1..Len(s) /\ s[1] \in {"normalize", "rebuild", "rebuilt"}
      BY <1>1, <3>1
    <3>3. Len(s) = 1
      BY <3>2 DEF Path
    <3>4. Len(n) = m + Len(s) - 1 /\ m \in Nat
      BY <1>1
    <3> QED BY <3>1, <3>3, <3>4
  <2>2. CASE i \in m + 1..Len(n)
    <3>1. i - m + 1 \in 1..Len(s) /\ n[i] = s[i - m + 1]
      BY <1>1, <2>2
    <3>2. i - m + 1 = Len(s)
      BY <1>10, <3>1 DEF Path
    <3> QED BY <1>1, <3>2
  <2> QED BY <1>1, <2>1, <2>2
<1>11. Flushes(n)
  BY FlushesContinues
<1> QED BY <1>2, <1>3, <1>4, <1>5, <1>6, <1>7, <1>9, <1>10, <1>11 DEF Path

-----------------------------------------------------------------------------
(* The steps that the actions put first. *)

\* Nothing is put first.
LEMMA GoesPath ==
  ASSUME NEW s, Path(s), s # <<>>, NEW n, n = <<>> \o Tail(s)
  PROVE  Follows(n, s, 0) /\ Path(n)
<1>1. s \in Seq(Step)
  BY DEF Path
<1>2. n = Tail(s)
  BY <1>1
<1>3. Continues(n, s, 0)
  BY <1>1, <1>2 DEF Continues
<1>4. FitsBrackets(n, 0, s[1]) /\ FitsLinks(n, 0, s[1])
  BY DEF FitsBrackets, FitsLinks
<1> QED BY <1>3, <1>4, ThenPath DEF Follows

LEMMA CountPath ==
  ASSUME NEW s, Path(s), s # <<>>, s[1] \in {"count"},
         NEW n, n = (<<"doc_all">> \o replace_with) \o Tail(s)
  PROVE  Follows(n, s, 4) /\ Path(n)
<1>1. s \in Seq(Step)
  BY DEF Path
<1>2. n \in Seq(Step) /\ Len(n) = 4 + Len(s) - 1
  BY <1>1 DEF Step, replace_with
<1>3. \A i \in 2..Len(s) : n[i + 4 - 1] = s[i]
  BY <1>1 DEF Step, replace_with
<1>4. /\ n[1] = "doc_all" /\ n[2] = "is_workspace" /\ n[3] = "clear"
      /\ n[4] = "merged"
  BY <1>1 DEF Step, replace_with
<1>5. Continues(n, s, 4)
  BY <1>2, <1>3 DEF Continues
<1>6. FitsBrackets(n, 4, s[1])
  BY <1>4 DEF FitsBrackets, Mid, Ends, Releases, Migration, replace_with
<1>7. FitsLinks(n, 4, s[1])
  BY <1>4 DEF FitsLinks, Link, Handled, Uses, Puts,
         Mid, Releases, Migration, Rebuilding, Writing, Rewriting,
         Loading, Step, replace_with
<1> QED BY <1>5, <1>6, <1>7, ThenPath DEF Follows

LEMMA LoadEmptyPath ==
  ASSUME NEW s, Path(s), s # <<>>, s[1] \in {"load"},
         NEW n, n = (<<"insert_empty">>) \o Tail(s)
  PROVE  Follows(n, s, 1) /\ Path(n)
<1>1. s \in Seq(Step)
  BY DEF Path
<1>2. n \in Seq(Step) /\ Len(n) = 1 + Len(s) - 1
  BY <1>1 DEF Step
<1>3. \A i \in 2..Len(s) : n[i + 1 - 1] = s[i]
  BY <1>1 DEF Step
<1>4. /\ n[1] = "insert_empty"
  BY <1>1 DEF Step
<1>5. Continues(n, s, 1)
  BY <1>2, <1>3 DEF Continues
<1>6. FitsBrackets(n, 1, s[1])
  BY <1>4 DEF FitsBrackets, Mid, Ends, Releases, Migration
<1>7. FitsLinks(n, 1, s[1])
  BY <1>4 DEF FitsLinks, Link, Handled, Uses, Puts,
         Mid, Releases, Migration, Rebuilding, Writing, Rewriting,
         Loading, Step
<1> QED BY <1>5, <1>6, <1>7, ThenPath DEF Follows

LEMMA LoadManyPath ==
  ASSUME NEW s, Path(s), s # <<>>, s[1] \in {"load"},
         NEW n, n = (replace_with) \o Tail(s)
  PROVE  Follows(n, s, 3) /\ Path(n)
<1>1. s \in Seq(Step)
  BY DEF Path
<1>2. n \in Seq(Step) /\ Len(n) = 3 + Len(s) - 1
  BY <1>1 DEF Step, replace_with
<1>3. \A i \in 2..Len(s) : n[i + 3 - 1] = s[i]
  BY <1>1 DEF Step, replace_with
<1>4. /\ n[1] = "is_workspace" /\ n[2] = "clear" /\ n[3] = "merged"
  BY <1>1 DEF Step, replace_with
<1>5. Continues(n, s, 3)
  BY <1>2, <1>3 DEF Continues
<1>6. FitsBrackets(n, 3, s[1])
  BY <1>4 DEF FitsBrackets, Mid, Ends, Releases, Migration, replace_with
<1>7. FitsLinks(n, 3, s[1])
  BY <1>4 DEF FitsLinks, Link, Handled, Uses, Puts,
         Mid, Releases, Migration, Rebuilding, Writing, Rewriting,
         Loading, Step, replace_with
<1> QED BY <1>5, <1>6, <1>7, ThenPath DEF Follows

LEMMA LookupPath ==
  ASSUME NEW s, Path(s), s # <<>>, s[1] \in {"cache"},
         NEW n, n = (<<"lock", "load", "cached">>) \o Tail(s)
  PROVE  Follows(n, s, 3) /\ Path(n)
<1>1. s \in Seq(Step)
  BY DEF Path
<1>2. n \in Seq(Step) /\ Len(n) = 3 + Len(s) - 1
  BY <1>1 DEF Step
<1>3. \A i \in 2..Len(s) : n[i + 3 - 1] = s[i]
  BY <1>1 DEF Step
<1>4. /\ n[1] = "lock" /\ n[2] = "load" /\ n[3] = "cached"
  BY <1>1 DEF Step
<1>5. Continues(n, s, 3)
  BY <1>2, <1>3 DEF Continues
<1>6. FitsBrackets(n, 3, s[1])
  BY <1>4 DEF FitsBrackets, Mid, Ends, Releases, Migration
<1>7. FitsLinks(n, 3, s[1])
  BY <1>4 DEF FitsLinks, Link, Handled, Uses, Puts,
         Mid, Releases, Migration, Rebuilding, Writing, Rewriting,
         Loading, Step
<1> QED BY <1>5, <1>6, <1>7, ThenPath DEF Follows

LEMMA PersistPath ==
  ASSUME NEW s, Path(s), s # <<>>, s[1] \in {"persist"},
         NEW n, n = (update_doc) \o Tail(s)
  PROVE  Follows(n, s, 3) /\ Path(n)
<1>1. s \in Seq(Step)
  BY DEF Path
<1>2. n \in Seq(Step) /\ Len(n) = 3 + Len(s) - 1
  BY <1>1 DEF Step, update_doc
<1>3. \A i \in 2..Len(s) : n[i + 3 - 1] = s[i]
  BY <1>1 DEF Step, update_doc
<1>4. /\ n[1] = "lock" /\ n[2] = "count" /\ n[3] = "insert"
  BY <1>1 DEF Step, update_doc
<1>5. Continues(n, s, 3)
  BY <1>2, <1>3 DEF Continues
<1>6. FitsBrackets(n, 3, s[1])
  BY <1>4 DEF FitsBrackets, Mid, Ends, Releases, Migration, update_doc
<1>7. FitsLinks(n, 3, s[1])
  BY <1>4 DEF FitsLinks, Link, Handled, Uses, Puts,
         Mid, Releases, Migration, Rebuilding, Writing, Rewriting,
         Loading, Step, update_doc
<1> QED BY <1>5, <1>6, <1>7, ThenPath DEF Follows

LEMMA ForcedPath ==
  ASSUME NEW s, Path(s), s # <<>>, s[1] \in {"force"},
         NEW n, n = (delete_handler \o <<"again">>) \o Tail(s)
  PROVE  Follows(n, s, 5) /\ Path(n)
<1>1. s \in Seq(Step)
  BY DEF Path
<1>2. n \in Seq(Step) /\ Len(n) = 5 + Len(s) - 1
  BY <1>1 DEF Step, delete_handler, delete_workspace
<1>3. \A i \in 2..Len(s) : n[i + 5 - 1] = s[i]
  BY <1>1 DEF Step, delete_handler, delete_workspace
<1>4. /\ n[1] = "forget" /\ n[2] = "uncache" /\ n[3] = "lock" /\ n[4] = "drop"
      /\ n[5] = "again"
  BY <1>1 DEF Step, delete_handler, delete_workspace
<1>5. Continues(n, s, 5)
  BY <1>2, <1>3 DEF Continues
<1>6. FitsBrackets(n, 5, s[1])
  BY <1>4 DEF FitsBrackets, Mid, Ends, Releases, Migration, delete_handler, delete_workspace
<1>7. FitsLinks(n, 5, s[1])
  BY <1>4 DEF FitsLinks, Link, Handled, Uses, Puts,
         Mid, Releases, Migration, Rebuilding, Writing, Rewriting,
         Loading, Step, delete_handler, delete_workspace
<1> QED BY <1>5, <1>6, <1>7, ThenPath DEF Follows

LEMMA LookPath ==
  ASSUME NEW s, Path(s), s # <<>>, s[1] \in {"look"},
         NEW n, n = (get_or_create_workspace \o <<>>) \o Tail(s)
  PROVE  Follows(n, s, 1) /\ Path(n)
<1>1. s \in Seq(Step)
  BY DEF Path
<1>2. n \in Seq(Step) /\ Len(n) = 1 + Len(s) - 1
  BY <1>1 DEF Step, get_or_create_workspace
<1>3. \A i \in 2..Len(s) : n[i + 1 - 1] = s[i]
  BY <1>1 DEF Step, get_or_create_workspace
<1>4. /\ n[1] = "cache"
  BY <1>1 DEF Step, get_or_create_workspace
<1>5. Continues(n, s, 1)
  BY <1>2, <1>3 DEF Continues
<1>6. FitsBrackets(n, 1, s[1])
  BY <1>4 DEF FitsBrackets, Mid, Ends, Releases, Migration, get_or_create_workspace
<1>7. FitsLinks(n, 1, s[1])
  BY <1>4 DEF FitsLinks, Link, Handled, Uses, Puts,
         Mid, Releases, Migration, Rebuilding, Writing, Rewriting,
         Loading, Step, get_or_create_workspace
<1> QED BY <1>5, <1>6, <1>7, ThenPath DEF Follows

LEMMA OpenPath ==
  ASSUME NEW s, Path(s), s # <<>>, s[1] \in {"open"},
         NEW n, n = (get_or_create_workspace \o <<"import">>) \o Tail(s)
  PROVE  Follows(n, s, 2) /\ Path(n)
<1>1. s \in Seq(Step)
  BY DEF Path
<1>2. n \in Seq(Step) /\ Len(n) = 2 + Len(s) - 1
  BY <1>1 DEF Step, get_or_create_workspace
<1>3. \A i \in 2..Len(s) : n[i + 2 - 1] = s[i]
  BY <1>1 DEF Step, get_or_create_workspace
<1>4. /\ n[1] = "cache" /\ n[2] = "import"
  BY <1>1 DEF Step, get_or_create_workspace
<1>5. Continues(n, s, 2)
  BY <1>2, <1>3 DEF Continues
<1>6. FitsBrackets(n, 2, s[1])
  BY <1>4 DEF FitsBrackets, Mid, Ends, Releases, Migration, get_or_create_workspace
<1>7. FitsLinks(n, 2, s[1])
  BY <1>4 DEF FitsLinks, Link, Handled, Uses, Puts,
         Mid, Releases, Migration, Rebuilding, Writing, Rewriting,
         Loading, Step, get_or_create_workspace
<1> QED BY <1>5, <1>6, <1>7, ThenPath DEF Follows

LEMMA NormalizeRebuildPath ==
  ASSUME NEW s, Path(s), s # <<>>, s[1] \in {"normalize"},
         NEW n, n = (<<"rebuild">>) \o Tail(s)
  PROVE  Follows(n, s, 1) /\ Path(n)
<1>1. s \in Seq(Step)
  BY DEF Path
<1>2. n \in Seq(Step) /\ Len(n) = 1 + Len(s) - 1
  BY <1>1 DEF Step
<1>3. \A i \in 2..Len(s) : n[i + 1 - 1] = s[i]
  BY <1>1 DEF Step
<1>4. /\ n[1] = "rebuild"
  BY <1>1 DEF Step
<1>5. Continues(n, s, 1)
  BY <1>2, <1>3 DEF Continues
<1>6. FitsBrackets(n, 1, s[1])
  BY <1>4 DEF FitsBrackets, Mid, Ends, Releases, Migration
<1>7. FitsLinks(n, 1, s[1])
  BY <1>4 DEF FitsLinks, Link, Handled, Uses, Puts,
         Mid, Releases, Migration, Rebuilding, Writing, Rewriting,
         Loading, Step
<1> QED BY <1>5, <1>6, <1>7, ThenPath DEF Follows

\* The steps of full_migrate, from the load that it replaces to the end.
MigrateSteps(n) ==
  /\ n[1] = "migrate" /\ n[2] = "cache" /\ n[3] = "uncache" /\ n[4] = "lock"
  /\ n[5] = "drop" /\ n[6] = "load" /\ n[7] = "is_workspace" /\ n[8] = "clear"
  /\ n[9] = "full" /\ n[10] = "migrated"

\* The steps of full_migrate close every bracket that they open.
LEMMA FlushFits ==
  ASSUME NEW n, NEW m \in {10, 11}, NEW head, MigrateSteps(n),
         m = 11 => n[11] \in {"mark", "rebuilt"}
  PROVE  FitsBrackets(n, m, head)
<1> USE DEF MigrateSteps
<1>1. \A i \in 1..m : i \in {1, 2, 3, 4, 5, 6, 7, 8, 9, 10} \/ (i = 11 /\ m = 11)
  OBVIOUS
<1>2. \A i \in 1..m : n[i] \in Mid => i \in {6, 7, 8}
  BY <1>1 DEF Mid
<1>3. \A i \in {6, 7, 8} : n[i] \in Mid
  BY DEF Mid
<1>4. \A i \in 1..m : (n[i] = "lock" => i = 4) /\ (n[i] = "migrate" => i = 1)
  BY <1>1
<1>5. \A i \in 1..m : n[i] \in Releases => i = 5
  BY <1>1 DEF Releases
<1>6. ASSUME NEW i \in 1..m, n[i] \in Mid
      PROVE  \E k \in 1..m : i < k /\ n[k] \in Ends /\ \A j \in i + 1..k - 1 : n[j] \in Mid
  <2>1. i \in {6, 7, 8}
    BY <1>2, <1>6
  <2>2. 9 \in 1..m /\ i < 9 /\ n[9] \in Ends
    BY <2>1 DEF Ends
  <2>3. \A j \in i + 1..9 - 1 : j \in {6, 7, 8}
    BY <2>1
  <2>4. QED BY <2>2, <2>3, <1>3
<1>7. ASSUME NEW i \in 1..m, n[i] = "lock"
      PROVE  \E k \in 1..m : i < k /\ n[k] \in Releases /\ \A j \in i + 1..k - 1 : n[j] \in Mid
  <2>1. i = 4 /\ 5 \in 1..m /\ n[5] \in Releases
    BY <1>4, <1>7 DEF Releases
  <2>2. \A j \in i + 1..5 - 1 : FALSE
    BY <2>1
  <2>3. QED BY <2>1, <2>2
<1>8. ASSUME NEW i \in 1..m, n[i] = "migrate"
      PROVE  \E k \in 1..m : i < k /\ n[k] = "migrated" /\ \A j \in i + 1..k - 1 : n[j] \in Migration
  <2>1. i = 1 /\ 10 \in 1..m
    BY <1>4, <1>8
  <2>2. \A j \in i + 1..10 - 1 : j \in {2, 3, 4, 5, 6, 7, 8, 9}
    BY <2>1
  <2>3. \A j \in {2, 3, 4, 5, 9} : n[j] \in Migration
    BY DEF Migration, Releases
  <2>4. \A j \in {6, 7, 8} : n[j] \in Migration
    BY <1>3 DEF Migration
  <2>5. QED BY <2>1, <2>2, <2>3, <2>4
<1>9. ASSUME NEW k \in 1..m, n[k] \in Releases
      PROVE  \E j \in 1..k - 1 : n[j] = "lock" /\ \A i \in j + 1..k - 1 : n[i] \in Mid
  <2>1. k = 5
    BY <1>5, <1>9
  <2>2. 4 \in 1..k - 1 /\ \A i \in 4 + 1..k - 1 : FALSE
    BY <2>1
  <2>3. QED BY <2>2
<1>10. QED BY <1>6, <1>7, <1>8, <1>9 DEF FitsBrackets

LEMMA MigratePath ==
  ASSUME NEW s, Path(s), s # <<>>, s[1] \in {"normalize", "import"},
         NEW n, n = (full_migrate) \o Tail(s)
  PROVE  Follows(n, s, 10) /\ Path(n)
<1>1. s \in Seq(Step)
  BY DEF Path
<1>2. n \in Seq(Step) /\ Len(n) = 10 + Len(s) - 1
  BY <1>1 DEF Step, full_migrate, get_or_create_workspace, delete_workspace, flush_workspace
<1>3. \A i \in 2..Len(s) : n[i + 10 - 1] = s[i]
  BY <1>1 DEF Step, full_migrate, get_or_create_workspace, delete_workspace, flush_workspace
<1>4. /\ n[1] = "migrate" /\ n[2] = "cache" /\ n[3] = "uncache" /\ n[4] = "lock"
      /\ n[5] = "drop" /\ n[6] = "load" /\ n[7] = "is_workspace" /\ n[8] = "clear"
      /\ n[9] = "full" /\ n[10] = "migrated"
  BY <1>1 DEF Step, full_migrate, get_or_create_workspace, delete_workspace, flush_workspace
<1>5. Continues(n, s, 10)
  BY <1>2, <1>3 DEF Continues
<1>6. FitsBrackets(n, 10, s[1])
  <2>1. MigrateSteps(n)
    BY <1>4 DEF MigrateSteps
  <2>2. 10 \in {10, 11} /\ (10 = 11 => n[11] \in {"mark", "rebuilt"})
    OBVIOUS
  <2>3. QED BY <2>1, <2>2, FlushFits
<1>7. FitsLinks(n, 10, s[1])
  BY <1>4 DEF FitsLinks, Link, Handled, Uses, Puts,
         Mid, Releases, Migration, Rebuilding, Writing, Rewriting,
         Loading, Step, full_migrate, get_or_create_workspace, delete_workspace, flush_workspace
<1> QED BY <1>5, <1>6, <1>7, ThenPath DEF Follows

LEMMA ImportPath ==
  ASSUME NEW s, Path(s), s # <<>>, s[1] \in {"import"},
         NEW n, n = (full_migrate \o <<"mark">>) \o Tail(s)
  PROVE  Follows(n, s, 11) /\ Path(n)
<1>1. s \in Seq(Step)
  BY DEF Path
<1>2. n \in Seq(Step) /\ Len(n) = 11 + Len(s) - 1
  BY <1>1 DEF Step, full_migrate, get_or_create_workspace, delete_workspace, flush_workspace
<1>3. \A i \in 2..Len(s) : n[i + 11 - 1] = s[i]
  BY <1>1 DEF Step, full_migrate, get_or_create_workspace, delete_workspace, flush_workspace
<1>4. /\ n[1] = "migrate" /\ n[2] = "cache" /\ n[3] = "uncache" /\ n[4] = "lock"
      /\ n[5] = "drop" /\ n[6] = "load" /\ n[7] = "is_workspace" /\ n[8] = "clear"
      /\ n[9] = "full" /\ n[10] = "migrated" /\ n[11] = "mark"
  BY <1>1 DEF Step, full_migrate, get_or_create_workspace, delete_workspace, flush_workspace
<1>5. Continues(n, s, 11)
  BY <1>2, <1>3 DEF Continues
<1>6. FitsBrackets(n, 11, s[1])
  <2>1. MigrateSteps(n) /\ n[11] \in {"mark", "rebuilt"}
    BY <1>4 DEF MigrateSteps
  <2>2. QED BY <2>1, FlushFits
<1>7. FitsLinks(n, 11, s[1])
  BY <1>4 DEF FitsLinks, Link, Handled, Uses, Puts,
         Mid, Releases, Migration, Rebuilding, Writing, Rewriting,
         Loading, Step, full_migrate, get_or_create_workspace, delete_workspace, flush_workspace
<1> QED BY <1>5, <1>6, <1>7, ThenPath DEF Follows

LEMMA RebuildPath ==
  ASSUME NEW s, Path(s), s # <<>>, s[1] \in {"rebuild"},
         NEW n, n = (full_migrate \o <<"rebuilt">>) \o Tail(s)
  PROVE  Follows(n, s, 11) /\ Path(n)
<1>1. s \in Seq(Step)
  BY DEF Path
<1>2. n \in Seq(Step) /\ Len(n) = 11 + Len(s) - 1
  BY <1>1 DEF Step, full_migrate, get_or_create_workspace, delete_workspace, flush_workspace
<1>3. \A i \in 2..Len(s) : n[i + 11 - 1] = s[i]
  BY <1>1 DEF Step, full_migrate, get_or_create_workspace, delete_workspace, flush_workspace
<1>4. /\ n[1] = "migrate" /\ n[2] = "cache" /\ n[3] = "uncache" /\ n[4] = "lock"
      /\ n[5] = "drop" /\ n[6] = "load" /\ n[7] = "is_workspace" /\ n[8] = "clear"
      /\ n[9] = "full" /\ n[10] = "migrated" /\ n[11] = "rebuilt"
  BY <1>1 DEF Step, full_migrate, get_or_create_workspace, delete_workspace, flush_workspace
<1>5. Continues(n, s, 11)
  BY <1>2, <1>3 DEF Continues
<1>6. FitsBrackets(n, 11, s[1])
  <2>1. MigrateSteps(n) /\ n[11] \in {"mark", "rebuilt"}
    BY <1>4 DEF MigrateSteps
  <2>2. QED BY <2>1, FlushFits
<1>7. FitsLinks(n, 11, s[1])
  BY <1>4 DEF FitsLinks, Link, Handled, Uses, Puts,
         Mid, Releases, Migration, Rebuilding, Writing, Rewriting,
         Loading, Step, full_migrate, get_or_create_workspace, delete_workspace, flush_workspace
<1> QED BY <1>5, <1>6, <1>7, ThenPath DEF Follows

-----------------------------------------------------------------------------
(* What a step does to the way to a release. *)

\* A task on its way to a step of out stays on it.
LEMMA WithinFollows ==
  ASSUME NEW mid, NEW out, NEW s \in Seq(Step), s # <<>>, NEW n, NEW m, Follows(n, s, m),
         Within(s, mid, out), s[1] \notin out, \A i \in 1..m : n[i] \in mid
  PROVE  Within(n, mid, out)
<1>1. /\ Len(s) \in Nat \ {0} /\ m \in Nat /\ Len(n) = m + Len(s) - 1
      /\ \A j \in m + 1..Len(n) : j - m + 1 \in 2..Len(s) /\ n[j] = s[j - m + 1]
  BY Shifted DEF Follows
<1>2. PICK k \in 1..Len(s) : s[k] \in out /\ \A i \in 1..k - 1 : s[i] \in mid
  BY DEF Within
<1>3. k \in 2..Len(s)
  BY <1>1, <1>2
<1>4. k + m - 1 \in 1..Len(n) /\ n[k + m - 1] = s[k]
  <2>1. k + m - 1 \in m + 1..Len(n) /\ (k + m - 1) - m + 1 = k
    BY <1>1, <1>3
  <2> QED BY <1>1, <2>1
<1>5. ASSUME NEW i \in 1..(k + m - 1) - 1 PROVE n[i] \in mid
  <2>1. CASE i \in 1..m
    BY <2>1
  <2>2. CASE i \in m + 1..Len(n)
    <3>1. n[i] = s[i - m + 1] /\ i - m + 1 \in 1..k - 1
      BY <1>1, <1>3, <2>2
    <3> QED BY <1>2, <3>1
  <2> QED BY <1>1, <1>3, <2>1, <2>2
<1> QED BY <1>2, <1>4, <1>5 DEF Within

\* Who is on the way to a step of out has a step of mid or of out to do now.
LEMMA WithinHead ==
  ASSUME NEW mid, NEW out, NEW s \in Seq(Step), Within(s, mid, out)
  PROVE  s # <<>> /\ s[1] \in mid \cup out
<1>1. PICK k \in 1..Len(s) : s[k] \in out /\ \A i \in 1..k - 1 : s[i] \in mid
  BY DEF Within
<1>2. s # <<>> /\ (k = 1 \/ 1 \in 1..k - 1)
  BY <1>1
<1> QED BY <1>1, <1>2

\* No step but a lock starts a way to a release, and only a release ends it.
LEMMA HoldingFollows ==
  ASSUME NEW s, Path(s), s # <<>>, NEW n, NEW m, Follows(n, s, m)
  PROVE  /\ s[1] = "lock" => Holding(n) /\ ~Holding(s)
         /\ s[1] \in Releases => ~Holding(n) /\ Holding(s)
         /\ s[1] # "lock" /\ s[1] \notin Releases => (Holding(n) <=> Holding(s))
<1> s \in Seq(Step)
  BY DEF Path
<1>1. /\ Len(s) \in Nat \ {0} /\ m \in Nat /\ Len(n) = m + Len(s) - 1
      /\ \A j \in m + 1..Len(n) : j - m + 1 \in 2..Len(s) /\ n[j] = s[j - m + 1]
  BY Shifted DEF Follows
<1>2. n \in Seq(Step) /\ Path(n)
  BY ThenPath DEF Path
<1>3. FitsBrackets(n, m, s[1]) /\ FitsLinks(n, m, s[1])
  BY DEF Follows
<1>4. ASSUME s[1] = "lock" PROVE Holding(n) /\ ~Holding(s)
  <2>1. m = 0 /\ 1 \in 1..Len(s) /\ s[1] \in {"lock"}
    BY <1>1, <1>3, <1>4 DEF FitsLinks
  <2>2. PICK k \in 1..Len(s) : 1 < k /\ s[k] \in Releases /\ \A j \in 1 + 1..k - 1 : s[j] \in Mid
    BY <2>1 DEF Path, Bracket
  <2>3. k - 1 \in 1..Len(n) /\ n[k - 1] = s[(k - 1) - m + 1] /\ (k - 1) - m + 1 = k
    BY <1>1, <2>1, <2>2
  <2>4. ASSUME NEW i \in 1..(k - 1) - 1 PROVE n[i] \in Mid
    <3>1. i \in m + 1..Len(n) /\ i - m + 1 \in 1 + 1..k - 1
      BY <1>1, <2>1, <2>2
    <3> QED BY <1>1, <2>2, <3>1
  <2>5. Holding(n)
    BY <2>2, <2>3, <2>4 DEF Holding, Within
  <2>6. "lock" \notin Mid \cup Releases
    BY DEF Mid, Releases
  <2> QED BY <1>4, <2>5, <2>6, WithinHead DEF Holding
<1>5. ASSUME s[1] # "lock", s[1] \notin Mid PROVE ~Holding(n)
  <2> SUFFICES ASSUME Holding(n) PROVE FALSE
    OBVIOUS
  <2>1. PICK k \in 1..Len(n) : n[k] \in Releases /\ \A i \in 1..k - 1 : n[i] \in Mid
    BY DEF Holding, Within
  <2>2. "lock" \notin Mid
    BY DEF Mid
  <2>3. CASE k \in 1..m
    <3>1. PICK j \in 1..k - 1 : n[j] = "lock"
      BY <1>3, <2>1, <2>3 DEF FitsBrackets
    <3> QED BY <2>1, <2>2, <3>1
  <2>4. CASE k \in m + 1..Len(n)
    <3> DEFINE q == k - m + 1
    <3>1. q \in 2..Len(s) /\ q \in 1..Len(s) /\ s[q] \in Releases
      BY <1>1, <2>1, <2>4
    <3>2. \/ \E j \in 1..q - 1 : s[j] = "lock" /\ \A i \in j + 1..q - 1 : s[i] \in Mid
          \/ \A i \in 1..q - 1 : s[i] \in Mid
      BY <3>1 DEF Path, Locked
    <3>3. 1 \in 1..q - 1
      BY <3>1
    <3>4. PICK j \in 1..q - 1 : s[j] = "lock"
      BY <1>5, <3>2, <3>3
    <3>5. j # 1
      BY <1>5, <3>4
    <3>6. j + m - 1 \in m + 1..Len(n) /\ j + m - 1 \in 1..k - 1 /\ (j + m - 1) - m + 1 = j
      BY <1>1, <2>4, <3>1, <3>5
    <3>7. n[j + m - 1] = "lock"
      BY <1>1, <3>4, <3>6
    <3> QED BY <2>1, <2>2, <3>6, <3>7
  <2> QED BY <1>1, <2>1, <2>3, <2>4
<1>6. ASSUME s[1] \in Releases PROVE ~Holding(n) /\ Holding(s)
  <2>1. s[1] # "lock" /\ s[1] \notin Mid
    BY <1>6 DEF Mid, Releases
  <2>2. 1 \in 1..Len(s) /\ \A i \in 1..1 - 1 : s[i] \in Mid
    BY <1>1
  <2>3. Holding(s)
    BY <1>6, <2>2 DEF Holding, Within
  <2> QED BY <1>5, <2>1, <2>3
<1>7. ASSUME s[1] # "lock", s[1] \notin Releases PROVE Holding(n) <=> Holding(s)
  <2>1. CASE s[1] \notin Mid
    BY <1>5, <1>7, <2>1, WithinHead DEF Holding
  <2>2. CASE s[1] \in Mid
    <3>1. \A i \in 1..m : n[i] \in Mid
      BY <1>3, <2>2 DEF FitsLinks
    <3>2. Holding(s) => Holding(n)
      BY <1>7, <3>1, WithinFollows DEF Holding
    <3>3. ASSUME Holding(n) PROVE Holding(s)
      <4>1. PICK k \in 1..Len(n) : n[k] \in Releases /\ \A i \in 1..k - 1 : n[i] \in Mid
        BY <3>3 DEF Holding, Within
      <4>2. \A x \in Mid : x \notin Releases
        BY DEF Mid, Releases
      <4>3. k \in m + 1..Len(n)
        BY <1>1, <3>1, <4>1, <4>2
      <4> DEFINE q == k - m + 1
      <4>4. q \in 1..Len(s) /\ s[q] \in Releases
        BY <1>1, <4>1, <4>3
      <4>5. ASSUME NEW i \in 1..q - 1 PROVE s[i] \in Mid
        <5>1. CASE i = 1
          BY <2>2, <5>1
        <5>2. CASE i # 1
          <6>1. /\ i + m - 1 \in m + 1..Len(n) /\ i + m - 1 \in 1..k - 1
                /\ (i + m - 1) - m + 1 = i
            BY <1>1, <4>3, <5>2
          <6>2. n[i + m - 1] = s[i]
            BY <1>1, <6>1
          <6> QED BY <4>1, <6>1, <6>2
        <5> QED BY <5>1, <5>2
      <4> QED BY <4>4, <4>5 DEF Holding, Within
    <3> QED BY <3>2, <3>3
  <2> QED BY <2>1, <2>2
<1> QED BY <1>4, <1>6, <1>7

\* The end of a rebuild comes in with the rebuild only.
Rebuilds(s) == \E i \in 1..Len(s) : s[i] = "rebuilt"

LEMMA RebuildsFollows ==
  ASSUME NEW s \in Seq(Step), s # <<>>, NEW n, NEW m, Follows(n, s, m),
         Rebuilds(n), s[1] # "rebuild"
  PROVE  Rebuilds(s)
<1>1. /\ Len(s) \in Nat \ {0} /\ m \in Nat /\ Len(n) = m + Len(s) - 1
      /\ \A j \in m + 1..Len(n) : j - m + 1 \in 2..Len(s) /\ n[j] = s[j - m + 1]
  BY Shifted DEF Follows
<1>2. PICK i \in 1..Len(n) : n[i] = "rebuilt"
  BY DEF Rebuilds
<1>3. i \notin 1..m
  BY <1>2 DEF Follows, FitsLinks
<1>4. i - m + 1 \in 1..Len(s) /\ s[i - m + 1] = "rebuilt"
  BY <1>1, <1>2, <1>3
<1> QED BY <1>4 DEF Rebuilds

\* What was done before some of the steps.
LEMMA NextHead ==
  ASSUME NEW s, Path(s), s # <<>>, NEW n, n # <<>>, NEW m, Follows(n, s, m)
  PROVE  /\ n[1] = "clear" => s[1] = "is_workspace"
         /\ n[1] \in {"merged", "full"} => s[1] = "clear"
         /\ s[1] = "clear" => n[1] \in {"merged", "full"}
         /\ n[1] = "is_workspace" => s[1] \in {"load", "doc_all", "insert_empty", "merged"}
         /\ n[1] = "is_workspace" /\ s[1] \in {"insert_empty", "merged"} =>
              \E i \in 1..Len(n) : n[i] = "full"
         /\ n[1] = "doc_all" => s[1] = "count" /\ m > 0
         /\ n[1] = "drop" => s[1] = "lock"
<1> s \in Seq(Step) /\ n \in Seq(Step) /\ FitsLinks(n, m, s[1])
  BY DEF Path, Follows, Continues
<1>1. /\ Len(s) \in Nat \ {0} /\ m \in Nat /\ Len(n) = m + Len(s) - 1
      /\ \A j \in m + 1..Len(n) : j - m + 1 \in 2..Len(s) /\ n[j] = s[j - m + 1]
  BY Shifted DEF Follows
<1>2. CASE m > 0
  BY <1>2 DEF FitsLinks
<1>3. CASE m = 0
  <2>1. Len(n) \in Nat \ {0}
    OBVIOUS
  <2>2. 1 \in m + 1..Len(n) /\ 1 - m + 1 = 2
    BY <1>3, <2>1
  <2>3. 1 \in 1..Len(s) - 1 /\ n[1] = s[1 + 1]
    BY <1>1, <2>2
  <2>4. Link(s[1], s[1 + 1])
    BY <2>3 DEF Path
  <2>5. ASSUME s[1 + 1] = "is_workspace", s[1] \in Loading
        PROVE  \E i \in 1..Len(n) : n[i] = "full"
    <3>1. PICK k \in 1 + 1..Len(s) : s[k] = "full"
      BY <2>3, <2>5 DEF Path, Flushes
    <3>2. k - 1 \in m + 1..Len(n) /\ k - 1 \in 1..Len(n) /\ (k - 1) - m + 1 = k
      BY <1>1, <1>3, <3>1
    <3>3. n[k - 1] = s[k]
      BY <1>1, <3>2
    <3> QED BY <3>1, <3>2, <3>3
  <2> QED BY <2>3, <2>4, <2>5 DEF Link, Loading
<1> QED BY <1>1, <1>2, <1>3

\* A table that was emptied is filled again.
LEMMA ClearGoesOn ==
  ASSUME NEW s, Path(s), s # <<>>, s[1] = "clear", NEW n, NEW m, Follows(n, s, m)
  PROVE  n # <<>>
<1>1. s \in Seq(Step) /\ 1 \in 1..Len(s) /\ s[1] \in Mid
  BY DEF Path, Mid
<1>2. PICK k \in 1..Len(s) : 1 < k
  BY <1>1 DEF Path, Bracket
<1>3. Len(n) = m + Len(s) - 1 /\ m \in Nat
  BY <1>1, Shifted DEF Follows
<1>4. Len(n) > 0
  BY <1>1, <1>2, <1>3
<1> QED BY <1>4

\* What is still ahead stays ahead.
LEMMA AheadFollows ==
  ASSUME NEW s \in Seq(Step), s # <<>>, NEW n, NEW m, Follows(n, s, m), NEW step, s[1] # step,
         \E i \in 1..Len(s) : s[i] = step
  PROVE  \E i \in 1..Len(n) : n[i] = step
<1>1. /\ Len(s) \in Nat \ {0} /\ m \in Nat /\ Len(n) = m + Len(s) - 1
      /\ \A j \in m + 1..Len(n) : j - m + 1 \in 2..Len(s) /\ n[j] = s[j - m + 1]
  BY Shifted DEF Follows
<1>2. PICK i \in 2..Len(s) : s[i] = step
  BY <1>1
<1>3. i + m - 1 \in m + 1..Len(n) /\ i + m - 1 \in 1..Len(n) /\ (i + m - 1) - m + 1 = i
  BY <1>1
<1>4. n[i + m - 1] = s[i]
  BY <1>1, <1>3
<1> QED BY <1>2, <1>3, <1>4

\* A read that is not for a flush is made under the bucket.
LEMMA MergesHold ==
  ASSUME NEW s, Path(s), s # <<>>, s[1] \in Mid,
         s[1] = "doc_all" \/ ~\E i \in 1..Len(s) : s[i] = "full"
  PROVE  Holding(s)
<1>1. s \in Seq(Step) /\ Len(s) \in Nat /\ 1 \in 1..Len(s)
  BY DEF Path
<1>2. PICK k \in 1..Len(s) : 1 < k /\ s[k] \in Ends /\ \A j \in 1 + 1..k - 1 : s[j] \in Mid
  BY <1>1 DEF Path, Bracket
<1>3. s[1] = "doc_all" => s[k] # "full"
  <2>1. "doc_all" \in Writing /\ "full" \in Rewriting
    BY DEF Writing, Rewriting
  <2> QED BY <1>1, <2>1 DEF Path
<1>4. s[k] \in Releases
  BY <1>2, <1>3 DEF Ends, Releases
<1>5. \A i \in 1..k - 1 : s[i] \in Mid
  BY <1>1, <1>2
<1> QED BY <1>4, <1>5 DEF Holding, Within

\* A replacement or a deletion comes in with the steps that ask for it.
Replaces(s) == \E i \in 1..Len(s) : s[i] \in {"full", "drop"}

LEMMA ReplacesFollows ==
  ASSUME NEW s \in Seq(Step), s # <<>>, NEW n, NEW m, Follows(n, s, m), Replaces(n),
         s[1] \notin {"force", "normalize", "import", "rebuild"}
  PROVE  Replaces(s)
<1>1. /\ Len(s) \in Nat \ {0} /\ m \in Nat /\ Len(n) = m + Len(s) - 1
      /\ \A j \in m + 1..Len(n) : j - m + 1 \in 2..Len(s) /\ n[j] = s[j - m + 1]
  BY Shifted DEF Follows
<1>2. PICK i \in 1..Len(n) : n[i] \in {"full", "drop"}
  BY DEF Replaces
<1>3. i \notin 1..m
  BY <1>2 DEF Follows, FitsLinks
<1>4. i - m + 1 \in 1..Len(s) /\ s[i - m + 1] \in {"full", "drop"}
  BY <1>1, <1>2, <1>3
<1> QED BY <1>4 DEF Replaces

\* A migration is on its way to its end when its lock is taken.
LEMMA MigrateFollows ==
  ASSUME NEW s, Path(s), s # <<>>, s[1] = "migrate", NEW n, NEW m, Follows(n, s, m)
  PROVE  Within(n, Migration, {"migrated"})
<1>1. Path(n) /\ s \in Seq(Step)
  BY ThenPath DEF Path
<1>2. /\ Len(s) \in Nat \ {0} /\ m \in Nat /\ Len(n) = m + Len(s) - 1
      /\ \A j \in m + 1..Len(n) : j - m + 1 \in 2..Len(s) /\ n[j] = s[j - m + 1]
  BY <1>1, Shifted DEF Follows
<1>3. 1 \in 1..Len(s) /\ s[1] \in {"migrate"}
  BY <1>2
<1>4. PICK k \in 1..Len(s) : /\ 1 < k /\ s[k] \in {"migrated"}
                             /\ \A j \in 1 + 1..k - 1 : s[j] \in Migration
  BY <1>3 DEF Path, Bracket
<1>5. \A i \in 1..m : n[i] \in Migration
  BY <1>2 DEF Follows, FitsLinks
<1>6. k + m - 1 \in 1..Len(n) /\ n[k + m - 1] = s[k]
  <2>1. k + m - 1 \in m + 1..Len(n) /\ (k + m - 1) - m + 1 = k
    BY <1>2, <1>4
  <2> QED BY <1>2, <2>1
<1>7. ASSUME NEW i \in 1..(k + m - 1) - 1 PROVE n[i] \in Migration
  <2>1. CASE i \in 1..m
    BY <1>5, <2>1
  <2>2. CASE i \in m + 1..Len(n)
    <3>1. n[i] = s[i - m + 1] /\ i - m + 1 \in 1 + 1..k - 1
      BY <1>2, <1>4, <2>2
    <3> QED BY <1>4, <3>1
  <2> QED BY <1>2, <1>4, <2>1, <2>2
<1> QED BY <1>4, <1>6, <1>7 DEF Within

\* The end of a rebuild is the last step.
LEMMA RebuiltFollows ==
  ASSUME NEW s, Path(s), s # <<>>, s[1] = "rebuilt", NEW n, NEW m, Follows(n, s, m)
  PROVE  Rebuilds(s) /\ ~Rebuilds(n)
<1>1. s \in Seq(Step) /\ \A i \in 1..Len(s) :
        s[i] \in {"normalize", "rebuild", "rebuilt"} => i = Len(s)
  BY DEF Path
<1>2. /\ Len(s) \in Nat \ {0} /\ m \in Nat /\ Len(n) = m + Len(s) - 1
  BY <1>1, Shifted DEF Follows
<1>3. 1 \in 1..Len(s) /\ Len(s) = 1
  <2>1. 1 \in 1..Len(s) /\ s[1] \in {"normalize", "rebuild", "rebuilt"}
    BY <1>2
  <2> QED BY <1>1, <2>1
<1>4. Len(n) = m
  BY <1>2, <1>3
<1>5. \A i \in 1..m : n[i] # "rebuilt"
  BY DEF Follows, FitsLinks
<1> QED BY <1>3, <1>4, <1>5 DEF Rebuilds

\* Nothing follows a rebuild, and it goes on to its end under its lock.
LEMMA RebuildIsLast ==
  ASSUME NEW s \in Seq(Step), Path(s), s # <<>>, s[1] = "rebuild", NEW n, Follows(n, s, 0)
  PROVE  ~Rebuilds(n)
<1>1. 1 \in 1..Len(s) /\ s[1] \in {"normalize", "rebuild", "rebuilt"}
  OBVIOUS
<1>2. Len(s) = 1
  BY <1>1 DEF Path
<1>3. Len(n) = 0
  BY <1>2, Shifted DEF Follows
<1> QED BY <1>3 DEF Rebuilds

LEMMA RebuildIsUnderLock ==
  ASSUME NEW s, Path(s), NEW n, n = (full_migrate \o <<"rebuilt">>) \o Tail(s), s # <<>>
  PROVE  Within(n, Rebuilding, {"rebuilt"})
<1>1. s \in Seq(Step)
  BY DEF Path
<1>2. Len(n) = 11 + Len(s) - 1
  BY <1>1 DEF Step, full_migrate, get_or_create_workspace, delete_workspace, flush_workspace
<1>3. /\ n[1] = "migrate" /\ n[2] = "cache" /\ n[3] = "uncache" /\ n[4] = "lock"
      /\ n[5] = "drop" /\ n[6] = "load" /\ n[7] = "is_workspace" /\ n[8] = "clear"
      /\ n[9] = "full" /\ n[10] = "migrated" /\ n[11] = "rebuilt"
  BY <1>1 DEF Step, full_migrate, get_or_create_workspace, delete_workspace, flush_workspace
<1>4. 11 \in 1..Len(n) /\ n[11] \in {"rebuilt"}
  BY <1>1, <1>2, <1>3 DEF full_migrate, get_or_create_workspace, delete_workspace, flush_workspace
<1>5. \A i \in 1..11 - 1 : n[i] \in Rebuilding
  BY <1>3 DEF Rebuilding, Migration, Mid, Releases, full_migrate, get_or_create_workspace,
         delete_workspace, flush_workspace
<1> QED BY <1>4, <1>5 DEF Within

-----------------------------------------------------------------------------
(* The paths of the requests. *)

\* Steps that touch no lock but the cache's and replace nothing.
Plain == {"find", "cache", "blocks", "obj", "str", "arr", "map", "del", "unmap",
          "persist", "ack", "export"}
Starts == {"find", "cache", "export", "forget", "vacant", "force"}

\* A path a request may start with.
FirstPath(s) == Path(s) /\ s # <<>> /\ s[1] \in Starts /\ ~Rebuilds(s)

LEMMA PlainPath ==
  ASSUME NEW s \in Seq(Plain) PROVE Path(s) /\ ~Rebuilds(s)
<1>1. \A i \in 1..Len(s) : s[i] \in Plain
  OBVIOUS
<1>2. s \in Seq(Step) /\ Len(s) \in Nat
  BY DEF Plain, Step
<1>3. /\ \A x \in Plain : /\ x \notin Mid /\ x \notin Releases /\ x \notin {"lock", "migrate"}
                          /\ x \notin Rewriting
                          /\ x \notin {"normalize", "rebuild", "rebuilt"}
                          /\ x \notin Loading
      /\ \A x, y \in Plain : Link(x, y)
  BY DEF Plain, Mid, Releases, Rewriting, Loading, Link
<1>4. /\ Bracket(s, Mid, Mid, Ends) /\ Bracket(s, {"lock"}, Mid, Releases)
      /\ Bracket(s, {"migrate"}, Migration, {"migrated"})
  BY <1>1, <1>3 DEF Bracket
<1>5. Locked(s) /\ Flushes(s)
  BY <1>1, <1>2, <1>3 DEF Locked, Flushes
<1>6. \A i \in 1..Len(s) - 1 : Link(s[i], s[i + 1])
  BY <1>1, <1>2, <1>3
<1>7. ~Rebuilds(s)
  BY <1>1, <1>3 DEF Rebuilds
<1> QED BY <1>1, <1>2, <1>3, <1>4, <1>5, <1>6, <1>7 DEF Path

LEMMA ReadPaths == \A s \in Reads : FirstPath(s)
<1> SUFFICES ASSUME NEW s \in Reads PROVE FirstPath(s)
  OBVIOUS
<1>1. s \in Seq(Plain)
  <2>1. /\ get_workspace \in Seq(Plain) /\ get_or_create_workspace \in Seq(Plain)
        /\ export_workspace \in Seq(Plain) /\ get_block \in Seq(Plain)
    BY DEF get_workspace, get_or_create_workspace, export_workspace, get_block, Plain
  <2>2. s \in {get_workspace, get_or_create_workspace, export_workspace, get_block}
    BY DEF Reads, get_map, get_map_key, get_array, get_array_element,
           get_doc_keys, subscribe_sse, get_block, get_block_by_flavour, get_block_children,
           get_workspace_block, workspace_client, workspace_clients, history_workspace,
           set_workspace
  <2> QED BY <2>1, <2>2
<1>2. s # <<>> /\ s[1] \in Starts
  BY DEF Reads, get_workspace, get_map, get_map_key, get_array, get_array_element,
         get_doc_keys, subscribe_sse, get_block, get_block_by_flavour, get_block_children,
         get_workspace_block, workspace_client, workspace_clients, history_workspace,
         set_workspace, export_workspace, get_or_create_workspace, Starts
<1> QED BY <1>1, <1>2, PlainPath DEF FirstPath

LEMMA WritePaths == \A s \in Writes : FirstPath(s)
<1> SUFFICES ASSUME NEW s \in Writes PROVE FirstPath(s)
  OBVIOUS
<1>1. s \in Seq(Plain)
  <2>1. get_workspace \in Seq(Plain) /\ persist_and_broadcast \in Seq(Plain)
    BY DEF get_workspace, get_or_create_workspace, persist_and_broadcast, Plain
  <2>2. \A kind \in {"obj", "str", "arr", "map", "del", "unmap"} :
          /\ get_workspace \o <<kind>> \in Seq(Plain)
          /\ get_workspace \o <<kind>> \o persist_and_broadcast \in Seq(Plain)
    <3> SUFFICES ASSUME NEW kind \in {"obj", "str", "arr", "map", "del", "unmap"}
                 PROVE  /\ get_workspace \o <<kind>> \in Seq(Plain)
                        /\ get_workspace \o <<kind>> \o persist_and_broadcast \in Seq(Plain)
      OBVIOUS
    <3>1. <<kind>> \in Seq(Plain)
      BY DEF Plain
    <3> QED BY <2>1, <3>1
  <2> QED BY <2>2 DEF Writes, set_map, modify_array, set_block, delete_map_key,
         delete_array_element, delete_block, insert_block_children, remove_block_children
<1>2. s # <<>> /\ s[1] \in Starts
  BY DEF Writes, get_workspace, set_map, modify_array, set_block, delete_map_key,
         delete_array_element, delete_block, insert_block_children, remove_block_children,
         get_or_create_workspace, persist_and_broadcast, Starts
<1> QED BY <1>1, <1>2, PlainPath DEF FirstPath

LEMMA DeletePath == FirstPath(delete_handler)
<1> DEFINE s == delete_handler
<1>1. s \in Seq(Step) /\ Len(s) = 4 /\ s # <<>>
  BY DEF delete_handler, delete_workspace, Step
<1>2. s[1] = "forget" /\ s[2] = "uncache" /\ s[3] = "lock" /\ s[4] = "drop"
  BY DEF delete_handler, delete_workspace
<1> HIDE DEF s
<1>3. Bracket(s, Mid, Mid, Ends) /\ Bracket(s, {"lock"}, Mid, Releases)
      /\ Bracket(s, {"migrate"}, Migration, {"migrated"})
  BY <1>1, <1>2 DEF Bracket, Mid, Ends, Releases
<1>4. Locked(s) /\ Flushes(s)
  BY <1>1, <1>2 DEF Locked, Flushes, Mid, Releases, Loading
<1>5. /\ \A i \in 1..Len(s) - 1 : Link(s[i], s[i + 1])
      /\ \A i, k \in 1..Len(s) : ~(s[i] \in Writing /\ s[k] \in Rewriting)
      /\ \A i \in 1..Len(s) : s[i] \in {"normalize", "rebuild", "rebuilt"} => i = Len(s)
  BY <1>1, <1>2 DEF Link, Writing, Rewriting
<1>6. s[1] \in Starts /\ ~Rebuilds(s)
  BY <1>1, <1>2 DEF Starts, Rebuilds
<1>7. FirstPath(s)
  BY <1>1, <1>3, <1>4, <1>5, <1>6 DEF FirstPath, Path
<1> QED BY <1>7 DEF s

LEMMA UpgradePath == FirstPath(upgrade_handler)
<1> DEFINE s == upgrade_handler
<1>1. s \in Seq(Step) /\ Len(s) = 4 /\ s # <<>>
  BY DEF upgrade_handler, get_or_create_workspace, get_workspace, Step
<1>2. s[1] = "cache" /\ s[2] = "find" /\ s[3] = "cache" /\ s[4] = "normalize"
  BY DEF upgrade_handler, get_or_create_workspace, get_workspace
<1> HIDE DEF s
<1>3. Bracket(s, Mid, Mid, Ends) /\ Bracket(s, {"lock"}, Mid, Releases)
      /\ Bracket(s, {"migrate"}, Migration, {"migrated"})
  BY <1>1, <1>2 DEF Bracket, Mid, Ends, Releases
<1>4. Locked(s) /\ Flushes(s)
  BY <1>1, <1>2 DEF Locked, Flushes, Mid, Releases, Loading
<1>5. /\ \A i \in 1..Len(s) - 1 : Link(s[i], s[i + 1])
      /\ \A i, k \in 1..Len(s) : ~(s[i] \in Writing /\ s[k] \in Rewriting)
      /\ \A i \in 1..Len(s) : s[i] \in {"normalize", "rebuild", "rebuilt"} => i = Len(s)
  BY <1>1, <1>2 DEF Link, Writing, Rewriting
<1>6. s[1] \in Starts /\ ~Rebuilds(s)
  BY <1>1, <1>2 DEF Starts, Rebuilds
<1>7. FirstPath(s)
  BY <1>1, <1>3, <1>4, <1>5, <1>6 DEF FirstPath, Path
<1> QED BY <1>7 DEF s

LEMMA InitPath ==
  ASSUME NEW force \in {"vacant", "force"} PROVE FirstPath(init_workspace(force))
<1> DEFINE s == init_workspace(force)
<1>1. s \in Seq(Step) /\ Len(s) = 10 /\ s # <<>>
  BY DEF init_workspace, flush_workspace, Step
<1>2. /\ s[1] = force /\ s[2] = "load" /\ s[3] = "is_workspace" /\ s[4] = "clear"
      /\ s[5] = "full" /\ s[6] = "look" /\ s[7] = "open" /\ s[8] = "look"
      /\ s[9] = "export" /\ s[10] = "ack"
  BY DEF init_workspace, flush_workspace
<1> HIDE DEF s
<1>3. Bracket(s, Mid, Mid, Ends) /\ Bracket(s, {"lock"}, Mid, Releases)
      /\ Bracket(s, {"migrate"}, Migration, {"migrated"})
  BY <1>1, <1>2 DEF Bracket, Mid, Ends, Releases
<1>4. Locked(s) /\ Flushes(s)
  BY <1>1, <1>2 DEF Locked, Flushes, Mid, Releases, Loading
<1>5. /\ \A i \in 1..Len(s) - 1 : Link(s[i], s[i + 1])
      /\ \A i, k \in 1..Len(s) : ~(s[i] \in Writing /\ s[k] \in Rewriting)
      /\ \A i \in 1..Len(s) : s[i] \in {"normalize", "rebuild", "rebuilt"} => i = Len(s)
  BY <1>1, <1>2 DEF Link, Writing, Rewriting
<1>6. s[1] \in Starts /\ ~Rebuilds(s)
  BY <1>1, <1>2 DEF Starts, Rebuilds
<1>7. FirstPath(s)
  BY <1>1, <1>3, <1>4, <1>5, <1>6 DEF FirstPath, Path
<1> QED BY <1>7 DEF s

-----------------------------------------------------------------------------
(* The invariant. *)

todo(t) == loc[t].todo

\* A task's variables are a record with the fields of Idle.
Shaped(l) == l = [req |-> l.req, wrote |-> l.wrote, todo |-> l.todo, ws |-> l.ws,
                  ops |-> l.ops, data |-> l.data, main |-> l.main]
Shape ==
  /\ loc = [t \in Tasks |-> loc[t]]
  /\ \A t \in Tasks : Shaped(loc[t])

Paths == \A t \in Tasks : Path(todo(t))

\* A lock is held by the task that is on its way to giving it back.
Sections ==
  /\ bucket = {t \in Tasks : Holding(todo(t))}
  /\ \A t \in Tasks :
       /\ owner = t => Within(todo(t), Mid \cup {"lock"}, {"cached"})
       /\ migrating = t => Within(todo(t), Migration, {"migrated"})
       /\ rebuilder = t => Within(todo(t), Rebuilding, {"rebuilt"})
       /\ Rebuilds(todo(t)) => rebuilder = t
  /\ {owner, migrating, rebuilder} \subseteq Tasks \cup {NoTask}

Walking == Shape /\ Paths /\ Sections

-----------------------------------------------------------------------------
(* How a step moves its task. *)

\* Task t has done its step and put m others first; the other tasks stay.
Moves(t, m) ==
  /\ todo(t) # <<>> /\ Follows(loc'[t].todo, todo(t), m)
  /\ \A u \in Tasks \ {t} : loc'[u] = loc[u]

LEMMA BecomesMoves ==
  ASSUME NEW t \in Tasks, Shape, todo(t) # <<>>, NEW l, Shaped(l), NEW m,
         Follows(l.todo, todo(t), m), Becomes(t, l)
  PROVE  /\ Moves(t, m) /\ Shape' /\ loc'[t].todo = l.todo
         /\ loc'[t] = IF l.todo = <<>> THEN Idle ELSE l
<1>1. loc' = [loc EXCEPT ![t] = IF l.todo = <<>> THEN Idle ELSE l]
  BY DEF Becomes
<1>2. loc'[t] = (IF l.todo = <<>> THEN Idle ELSE l) /\ \A u \in Tasks \ {t} : loc'[u] = loc[u]
  BY <1>1 DEF Shape
<1>3. Idle.todo = <<>> /\ Shaped(Idle)
  BY DEF Idle, Shaped
<1>4. loc'[t].todo = l.todo
  BY <1>2, <1>3
<1>5. loc' = [u \in Tasks |-> loc'[u]]
  BY <1>1 DEF Shape
<1>6. \A u \in Tasks : Shaped(loc'[u])
  BY <1>2, <1>3 DEF Shape
<1>7. Shape'
  BY <1>5, <1>6 DEF Shape, Shaped
<1> QED BY <1>2, <1>4, <1>7 DEF Moves

\* What Then leaves of the task's variables.
LEMMA ThenShaped ==
  ASSUME NEW t \in Tasks, Shape, NEW steps
  PROVE  /\ Shaped(Then(t, steps)) /\ Then(t, steps).todo = steps \o Tail(todo(t))
         /\ Then(t, steps).req = loc[t].req /\ Then(t, steps).wrote = loc[t].wrote
         /\ Then(t, steps).ws = loc[t].ws /\ Then(t, steps).ops = loc[t].ops
         /\ Then(t, steps).data = loc[t].data /\ Then(t, steps).main = loc[t].main
<1>1. loc[t] = [req |-> loc[t].req, wrote |-> loc[t].wrote, todo |-> loc[t].todo,
                ws |-> loc[t].ws, ops |-> loc[t].ops, data |-> loc[t].data,
                main |-> loc[t].main]
  BY DEF Shape, Shaped
<1>2. \A x : [loc[t] EXCEPT !.todo = x]
               = [req |-> loc[t].req, wrote |-> loc[t].wrote, todo |-> x,
                  ws |-> loc[t].ws, ops |-> loc[t].ops, data |-> loc[t].data,
                  main |-> loc[t].main]
  BY <1>1
<1>3. Then(t, steps) = [loc[t] EXCEPT !.todo = steps \o Tail(todo(t))]
  BY DEF Then, todo
<1> QED BY <1>2, <1>3 DEF Shaped

LEMMA AtHead ==
  ASSUME NEW t \in Tasks, Paths, NEW step, At(t, step)
  PROVE  todo(t) # <<>> /\ todo(t) \in Seq(Step) /\ todo(t)[1] = step /\ Path(todo(t))
BY DEF At, Paths, Path, todo

-----------------------------------------------------------------------------
(* The sections under the locks. *)

\* What a step may do to the locks.
LockStep(t) ==
  LET head == todo(t)[1]  next == loc'[t].todo IN
  /\ bucket' = IF head = "lock" THEN bucket \cup {t}
               ELSE IF head \in Releases THEN bucket \ {t} ELSE bucket
  /\ head = "lock" => Cardinality(bucket) < Permits
  /\ \/ owner' = owner /\ head # "cached"
     \/ owner' = NoTask
     \/ owner' = t /\ Within(next, Mid \cup {"lock"}, {"cached"})
  /\ \/ migrating' = migrating /\ head # "migrated"
     \/ migrating' = NoTask
     \/ migrating' = t /\ head = "migrate"
  /\ \/ rebuilder' = rebuilder /\ head \notin {"rebuild", "rebuilt"}
     \/ rebuilder' = NoTask /\ head = "rebuilt"
     \/ /\ rebuilder = NoTask /\ head = "rebuild"
        /\ \/ rebuilder' = NoTask /\ ~Rebuilds(next)
           \/ rebuilder' = t /\ Within(next, Rebuilding, {"rebuilt"})

\* A task with nothing to do is on no way.
LEMMA NothingAhead == ~Holding(<<>>) /\ ~Rebuilds(<<>>) /\ Path(<<>>)
<1>1. ~Holding(<<>>) /\ ~Rebuilds(<<>>)
  BY DEF Holding, Within, Rebuilds
<1>2. Path(<<>>)
  BY DEF Path, Bracket, Locked, Flushes
<1> QED BY <1>1, <1>2

LEMMA NoTaskIsNone == NoTask \notin Tasks
BY StorageAssumption

\* The sections are kept by every step that treats the locks as LockStep says.
LEMMA MovesWalk ==
  ASSUME NEW t \in Tasks, Walking, NEW m, Moves(t, m), Shape', LockStep(t)
  PROVE  Walking'
<1> DEFINE s == todo(t)  h == s[1]  n == loc'[t].todo
<1>1. s # <<>> /\ Path(s) /\ s \in Seq(Step) /\ Follows(n, s, m)
  BY DEF Walking, Paths, Path, Moves
<1>2. \A u \in Tasks \ {t} : todo(u)' = todo(u)
  BY DEF Moves, todo
<1>3. Path(n)
  BY <1>1, ThenPath
<1>4. todo(t)' = n
  BY DEF todo
<1>5. Paths'
  <2> SUFFICES ASSUME NEW u \in Tasks PROVE Path(todo(u)')
    BY DEF Paths
  <2>1. CASE u = t
    BY <1>3, <1>4, <2>1
  <2>2. CASE u # t
    BY <1>2, <2>2 DEF Walking, Paths
  <2> QED BY <2>1, <2>2
<1> HIDE DEF n
<1>6. FitsLinks(n, m, h)
  BY <1>1 DEF Follows
<1>7. bucket' = {u \in Tasks : Holding(todo(u)')}
  <2>1. bucket = {u \in Tasks : Holding(todo(u))}
    BY DEF Walking, Sections
  <2>2. \A u \in Tasks \ {t} : Holding(todo(u)') <=> u \in bucket
    BY <1>2, <2>1
  <2>3. /\ h = "lock" => Holding(n)
        /\ h \in Releases => ~Holding(n)
        /\ h # "lock" /\ h \notin Releases => (Holding(n) <=> t \in bucket)
    BY <1>1, <2>1, HoldingFollows
  <2>4. "lock" \notin Releases
    BY DEF Releases
  <2>5. CASE h = "lock"
    BY <1>4, <2>1, <2>2, <2>3, <2>5 DEF LockStep
  <2>6. CASE h # "lock" /\ h \in Releases
    BY <1>4, <2>1, <2>2, <2>3, <2>6 DEF LockStep
  <2>7. CASE h # "lock" /\ h \notin Releases
    BY <1>4, <2>1, <2>2, <2>3, <2>7 DEF LockStep
  <2> QED BY <2>5, <2>6, <2>7
<1>8. ASSUME NEW u \in Tasks, owner' = u
      PROVE  Within(todo(u)', Mid \cup {"lock"}, {"cached"})
  <2>1. CASE owner' = owner /\ h # "cached"
    <3>1. Within(todo(u), Mid \cup {"lock"}, {"cached"})
      BY <1>8, <2>1 DEF Walking, Sections
    <3>2. CASE u # t
      BY <1>2, <3>1, <3>2
    <3>3. CASE u = t
      <4>1. h \in Mid \cup {"lock"}
        BY <1>1, <2>1, <3>1, <3>3, WithinHead
      <4>2. \A i \in 1..m : n[i] \in Mid \cup {"lock"}
        BY <1>6, <4>1 DEF FitsLinks
      <4>3. Within(n, Mid \cup {"lock"}, {"cached"})
        BY <1>1, <2>1, <3>1, <3>3, <4>2, WithinFollows
      <4> QED BY <1>4, <3>3, <4>3
    <3> QED BY <3>2, <3>3
  <2>2. CASE owner' = NoTask
    BY <1>8, <2>2, NoTaskIsNone
  <2>3. CASE owner' = t /\ Within(n, Mid \cup {"lock"}, {"cached"})
    BY <1>4, <1>8, <2>3
  <2> QED BY <2>1, <2>2, <2>3 DEF LockStep, n
<1>9. ASSUME NEW u \in Tasks, migrating' = u
      PROVE  Within(todo(u)', Migration, {"migrated"})
  <2>1. CASE migrating' = migrating /\ h # "migrated"
    <3>1. Within(todo(u), Migration, {"migrated"})
      BY <1>9, <2>1 DEF Walking, Sections
    <3>2. CASE u # t
      BY <1>2, <3>1, <3>2
    <3>3. CASE u = t
      <4>1. h \in Migration
        BY <1>1, <2>1, <3>1, <3>3, WithinHead
      <4>2. \A i \in 1..m : n[i] \in Migration
        BY <1>6, <4>1 DEF FitsLinks
      <4>3. Within(n, Migration, {"migrated"})
        BY <1>1, <2>1, <3>1, <3>3, <4>2, WithinFollows
      <4> QED BY <1>4, <3>3, <4>3
    <3> QED BY <3>2, <3>3
  <2>2. CASE migrating' = NoTask
    BY <1>9, <2>2, NoTaskIsNone
  <2>3. CASE migrating' = t /\ h = "migrate"
    <3>1. Within(n, Migration, {"migrated"})
      BY <1>1, <2>3, MigrateFollows
    <3> QED BY <1>4, <1>9, <2>3, <3>1
  <2> QED BY <2>1, <2>2, <2>3 DEF LockStep
<1>10. ASSUME NEW u \in Tasks, rebuilder' = u
       PROVE  Within(todo(u)', Rebuilding, {"rebuilt"})
  <2>1. CASE rebuilder' = rebuilder /\ h \notin {"rebuild", "rebuilt"}
    <3>1. Within(todo(u), Rebuilding, {"rebuilt"})
      BY <1>10, <2>1 DEF Walking, Sections
    <3>2. CASE u # t
      BY <1>2, <3>1, <3>2
    <3>3. CASE u = t
      <4>1. h \in Rebuilding
        BY <1>1, <2>1, <3>1, <3>3, WithinHead
      <4>2. \A i \in 1..m : n[i] \in Rebuilding
        BY <1>6, <4>1 DEF FitsLinks
      <4>3. Within(n, Rebuilding, {"rebuilt"})
        BY <1>1, <2>1, <3>1, <3>3, <4>2, WithinFollows
      <4> QED BY <1>4, <3>3, <4>3
    <3> QED BY <3>2, <3>3
  <2>2. CASE rebuilder' = NoTask
    BY <1>10, <2>2, NoTaskIsNone
  <2>3. CASE rebuilder' = t /\ Within(n, Rebuilding, {"rebuilt"})
    BY <1>4, <1>10, <2>3
  <2> QED BY <2>1, <2>2, <2>3 DEF LockStep, n
<1>11. ASSUME NEW u \in Tasks, Rebuilds(todo(u)') PROVE rebuilder' = u
  <2>1. CASE rebuilder' = rebuilder /\ h \notin {"rebuild", "rebuilt"}
    <3>1. Rebuilds(todo(u))
      <4>1. CASE u = t
        BY <1>1, <1>4, <1>11, <2>1, <4>1, RebuildsFollows
      <4>2. CASE u # t
        BY <1>2, <1>11, <4>2
      <4> QED BY <4>1, <4>2
    <3> QED BY <2>1, <3>1 DEF Walking, Sections
  <2>2. CASE rebuilder' = NoTask /\ h = "rebuilt"
    <3>1. Rebuilds(s) /\ ~Rebuilds(n)
      BY <1>1, <2>2, RebuiltFollows
    <3>2. rebuilder = t /\ u # t
      BY <1>4, <1>11, <3>1 DEF Walking, Sections
    <3>3. Rebuilds(todo(u))
      BY <1>2, <1>11, <3>2
    <3> QED BY <3>2, <3>3 DEF Walking, Sections
  <2>3. CASE rebuilder = NoTask /\ rebuilder' = NoTask /\ ~Rebuilds(n)
    <3>1. u # t
      BY <1>4, <1>11, <2>3
    <3>2. Rebuilds(todo(u))
      BY <1>2, <1>11, <3>1
    <3> QED BY <2>3, <3>2 DEF Walking, Sections
  <2>4. CASE rebuilder = NoTask /\ rebuilder' = t
    <3>1. CASE u = t
      BY <2>4, <3>1
    <3>2. CASE u # t
      <4>1. Rebuilds(todo(u))
        BY <1>2, <1>11, <3>2
      <4>2. rebuilder = u
        BY <4>1 DEF Walking, Sections
      <4> QED BY <2>4, <4>2, NoTaskIsNone
    <3> QED BY <3>1, <3>2
  <2> QED BY <2>1, <2>2, <2>3, <2>4 DEF LockStep, n
<1>12. {owner', migrating', rebuilder'} \subseteq Tasks \cup {NoTask}
  BY DEF LockStep, Walking, Sections
<1>13. Sections'
  BY <1>7, <1>8, <1>9, <1>10, <1>11, <1>12 DEF Sections
<1> QED BY <1>5, <1>13 DEF Walking

-----------------------------------------------------------------------------
(* The other invariants. *)

\* A workspace that was rebuilt is marked, and none is while one is at it.
RebuiltMarked ==
  /\ rebuilds \in {0, 1}
  /\ rebuilds = 1 => rebuilt = TRUE
  /\ rebuilder # NoTask => rebuilds = 0

\* Replacements come one at a time: none finds the table empty but the one that
\* emptied it, and none reads a row of another document.
Calm ==
  overlap = TRUE \/
  /\ \A s, t \in Replacing : s = t
  /\ \A i \in DOMAIN rows : rows[i].main = TRUE
  /\ \A t \in Tasks :
       /\ At(t, "is_workspace") => rows # <<>>
       /\ At(t, "clear") \/ At(t, "merged") \/ At(t, "full") => loc[t].main = TRUE
       /\ At(t, "doc_all") /\ rows = <<>> => \E s \in Tasks : At(s, "merged") \/ At(s, "full")

\* What a merge is about to delete it holds.
MergeHolds ==
  overlap = TRUE \/
  \A t \in Tasks : (At(t, "is_workspace") \/ At(t, "clear")) /\ ~Ahead(t, "full") =>
    Contents(rows) \subseteq loc[t].data

-----------------------------------------------------------------------------
(* What each step does: to its task, the locks, the rows and what is read. *)

RowStep(t) ==
  LET head == todo(t)[1] IN
  /\ head \in {"clear", "drop"} => rows' = <<>>
  /\ head = "merged" => rows' = Append(rows, Row(loc[t].data, loc[t].main))
  /\ head = "full" => rows' = Append(rows, Row(loc[t].ops, loc[t].main))
  /\ head = "insert" => rows' = Append(rows, Row(loc[t].ops, TRUE))
  /\ head = "insert_empty" => rows' = Append(rows, Row({}, TRUE))
  /\ head \notin {"clear", "drop", "merged", "full", "insert", "insert_empty"} => rows' = rows

DataStep(t) ==
  LET head == todo(t)[1]  next == loc'[t].todo IN
  /\ head = "count" /\ next # <<>> /\ next[1] = "doc_all" => Len(rows) >= TrimLimit
  /\ head = "load" /\ next # <<>> /\ next[1] = "is_workspace" =>
       MainRows # {} /\ loc'[t].data = UNION {rows[i].ops : i \in MainRows}
  /\ head = "doc_all" /\ next # <<>> => loc'[t].data = Contents(rows)
  /\ head = "is_workspace" /\ next # <<>> =>
       /\ loc'[t].data = loc[t].data
       /\ rows # <<>> => \E i \in DOMAIN rows : loc'[t].main = rows[i].main
  /\ head = "clear" /\ next # <<>> =>
       loc'[t].data = loc[t].data /\ loc'[t].main = loc[t].main

Effect(t, m) == Moves(t, m) /\ Shape' /\ LockStep(t) /\ RowStep(t) /\ DataStep(t)

\* A step that puts nothing first.
LEMMA PassesOn ==
  ASSUME NEW t \in Tasks, Walking, NEW step, At(t, step), NEW l, Shaped(l),
         l.todo = <<>> \o Tail(todo(t)), Becomes(t, l)
  PROVE  /\ Moves(t, 0) /\ Shape' /\ loc'[t].todo = l.todo
         /\ loc'[t].todo # <<>> => loc'[t] = l
         /\ todo(t)[1] = step
<1>1. todo(t) # <<>> /\ todo(t)[1] = step /\ Path(todo(t))
  BY AtHead DEF Walking
<1>2. Follows(l.todo, todo(t), 0)
  BY <1>1, GoesPath
<1>3. Moves(t, 0) /\ Shape' /\ loc'[t].todo = l.todo /\ (l.todo # <<>> => loc'[t] = l)
  BY <1>1, <1>2, BecomesMoves DEF Walking
<1> QED BY <1>1, <1>3

LEMMA GoesOn ==
  ASSUME NEW t \in Tasks, Walking, NEW step, At(t, step), Goes(t)
  PROVE  /\ Moves(t, 0) /\ Shape' /\ todo(t)[1] = step
         /\ loc'[t].todo # <<>> =>
              loc'[t].data = loc[t].data /\ loc'[t].main = loc[t].main
<1>1. /\ Shaped(Then(t, <<>>)) /\ Then(t, <<>>).todo = <<>> \o Tail(todo(t))
      /\ Then(t, <<>>).data = loc[t].data /\ Then(t, <<>>).main = loc[t].main
  BY ThenShaped DEF Walking
<1>2. /\ Moves(t, 0) /\ Shape' /\ todo(t)[1] = step
      /\ loc'[t].todo # <<>> => loc'[t] = Then(t, <<>>)
  BY <1>1, PassesOn DEF Goes
<1> QED BY <1>1, <1>2

LEMMA TakeEffect ==
  ASSUME NEW t \in Tasks, Walking, Take(t), UNCHANGED rebuilder PROVE Effect(t, 0)
<1>1. At(t, "lock") /\ Goes(t)
  BY DEF Take
<1>2. /\ Moves(t, 0) /\ Shape' /\ todo(t)[1] = "lock"
      /\ loc'[t].todo # <<>> =>
           loc'[t].data = loc[t].data /\ loc'[t].main = loc[t].main
  BY <1>1, GoesOn
<1>3. LockStep(t)
  BY <1>2 DEF Take, LockStep, Releases, locks, keckVars
<1>4. RowStep(t) /\ DataStep(t)
  BY <1>2 DEF Take, RowStep, DataStep
<1> QED BY <1>2, <1>3, <1>4 DEF Effect

LEMMA StartMigrateEffect ==
  ASSUME NEW t \in Tasks, Walking, StartMigrate(t), UNCHANGED rebuilder PROVE Effect(t, 0)
<1>1. At(t, "migrate") /\ Goes(t)
  BY DEF StartMigrate
<1>2. /\ Moves(t, 0) /\ Shape' /\ todo(t)[1] = "migrate"
      /\ loc'[t].todo # <<>> =>
           loc'[t].data = loc[t].data /\ loc'[t].main = loc[t].main
  BY <1>1, GoesOn
<1>3. LockStep(t)
  BY <1>2 DEF StartMigrate, LockStep, Releases, locks, keckVars
<1>4. RowStep(t) /\ DataStep(t)
  BY <1>2 DEF StartMigrate, RowStep, DataStep
<1> QED BY <1>2, <1>3, <1>4 DEF Effect

LEMMA EndMigrateEffect ==
  ASSUME NEW t \in Tasks, Walking, EndMigrate(t), UNCHANGED rebuilder PROVE Effect(t, 0)
<1>1. At(t, "migrated") /\ Goes(t)
  BY DEF EndMigrate
<1>2. /\ Moves(t, 0) /\ Shape' /\ todo(t)[1] = "migrated"
      /\ loc'[t].todo # <<>> =>
           loc'[t].data = loc[t].data /\ loc'[t].main = loc[t].main
  BY <1>1, GoesOn
<1>3. LockStep(t)
  BY <1>2 DEF EndMigrate, LockStep, Releases, locks, keckVars
<1>4. RowStep(t) /\ DataStep(t)
  BY <1>2 DEF EndMigrate, RowStep, DataStep
<1> QED BY <1>2, <1>3, <1>4 DEF Effect

LEMMA ClearEffect ==
  ASSUME NEW t \in Tasks, Walking, Clear(t), UNCHANGED rebuilder PROVE Effect(t, 0)
<1>1. At(t, "clear") /\ Goes(t)
  BY DEF Clear
<1>2. /\ Moves(t, 0) /\ Shape' /\ todo(t)[1] = "clear"
      /\ loc'[t].todo # <<>> =>
           loc'[t].data = loc[t].data /\ loc'[t].main = loc[t].main
  BY <1>1, GoesOn
<1>3. LockStep(t)
  BY <1>2 DEF Clear, LockStep, Releases, locks, keckVars
<1>4. RowStep(t) /\ DataStep(t)
  BY <1>2 DEF Clear, RowStep, DataStep
<1> QED BY <1>2, <1>3, <1>4 DEF Effect

LEMMA MergedEffect ==
  ASSUME NEW t \in Tasks, Walking, Merged(t), UNCHANGED rebuilder PROVE Effect(t, 0)
<1>1. At(t, "merged") /\ Goes(t)
  BY DEF Merged
<1>2. /\ Moves(t, 0) /\ Shape' /\ todo(t)[1] = "merged"
      /\ loc'[t].todo # <<>> =>
           loc'[t].data = loc[t].data /\ loc'[t].main = loc[t].main
  BY <1>1, GoesOn
<1>3. LockStep(t)
  BY <1>2 DEF Merged, LockStep, Releases, locks, keckVars
<1>4. RowStep(t) /\ DataStep(t)
  BY <1>2 DEF Merged, RowStep, DataStep
<1> QED BY <1>2, <1>3, <1>4 DEF Effect

LEMMA InsertEmptyEffect ==
  ASSUME NEW t \in Tasks, Walking, InsertEmpty(t), UNCHANGED rebuilder PROVE Effect(t, 0)
<1>1. At(t, "insert_empty") /\ Goes(t)
  BY DEF InsertEmpty
<1>2. /\ Moves(t, 0) /\ Shape' /\ todo(t)[1] = "insert_empty"
      /\ loc'[t].todo # <<>> =>
           loc'[t].data = loc[t].data /\ loc'[t].main = loc[t].main
  BY <1>1, GoesOn
<1>3. LockStep(t)
  BY <1>2 DEF InsertEmpty, LockStep, Releases, locks, keckVars
<1>4. RowStep(t) /\ DataStep(t)
  BY <1>2 DEF InsertEmpty, RowStep, DataStep
<1> QED BY <1>2, <1>3, <1>4 DEF Effect

LEMMA UncacheEffect ==
  ASSUME NEW t \in Tasks, Walking, Uncache(t), UNCHANGED rebuilder PROVE Effect(t, 0)
<1>1. At(t, "uncache") /\ Goes(t)
  BY DEF Uncache
<1>2. /\ Moves(t, 0) /\ Shape' /\ todo(t)[1] = "uncache"
      /\ loc'[t].todo # <<>> =>
           loc'[t].data = loc[t].data /\ loc'[t].main = loc[t].main
  BY <1>1, GoesOn
<1>3. LockStep(t)
  BY <1>2 DEF Uncache, LockStep, Releases, locks, keckVars
<1>4. RowStep(t) /\ DataStep(t)
  BY <1>2 DEF Uncache, RowStep, DataStep
<1> QED BY <1>2, <1>3, <1>4 DEF Effect

LEMMA DropEffect ==
  ASSUME NEW t \in Tasks, Walking, Drop(t), UNCHANGED rebuilder PROVE Effect(t, 0)
<1>1. At(t, "drop") /\ Goes(t)
  BY DEF Drop
<1>2. /\ Moves(t, 0) /\ Shape' /\ todo(t)[1] = "drop"
      /\ loc'[t].todo # <<>> =>
           loc'[t].data = loc[t].data /\ loc'[t].main = loc[t].main
  BY <1>1, GoesOn
<1>3. LockStep(t)
  BY <1>2 DEF Drop, LockStep, Releases, locks, keckVars
<1>4. RowStep(t) /\ DataStep(t)
  BY <1>2 DEF Drop, RowStep, DataStep
<1> QED BY <1>2, <1>3, <1>4 DEF Effect

LEMMA AckEffect ==
  ASSUME NEW t \in Tasks, Walking, Ack(t) PROVE Effect(t, 0)
<1>1. At(t, "ack") /\ Goes(t)
  BY DEF Ack
<1>2. /\ Moves(t, 0) /\ Shape' /\ todo(t)[1] = "ack"
      /\ loc'[t].todo # <<>> =>
           loc'[t].data = loc[t].data /\ loc'[t].main = loc[t].main
  BY <1>1, GoesOn
<1>3. LockStep(t)
  BY <1>2 DEF Ack, LockStep, Releases, locks, keckVars
<1>4. RowStep(t) /\ DataStep(t)
  BY <1>2 DEF Ack, RowStep, DataStep
<1> QED BY <1>2, <1>3, <1>4 DEF Effect

LEMMA ForgetEffect ==
  ASSUME NEW t \in Tasks, Walking, Forget(t) PROVE Effect(t, 0)
<1>1. At(t, "forget") /\ Goes(t)
  BY DEF Forget
<1>2. /\ Moves(t, 0) /\ Shape' /\ todo(t)[1] = "forget"
      /\ loc'[t].todo # <<>> =>
           loc'[t].data = loc[t].data /\ loc'[t].main = loc[t].main
  BY <1>1, GoesOn
<1>3. LockStep(t)
  BY <1>2 DEF Forget, LockStep, Releases, locks, keckVars
<1>4. RowStep(t) /\ DataStep(t)
  BY <1>2 DEF Forget, RowStep, DataStep
<1> QED BY <1>2, <1>3, <1>4 DEF Effect

LEMMA MarkEffect ==
  ASSUME NEW t \in Tasks, Walking, Mark(t) PROVE Effect(t, 0)
<1>1. At(t, "mark") /\ Goes(t)
  BY DEF Mark
<1>2. /\ Moves(t, 0) /\ Shape' /\ todo(t)[1] = "mark"
      /\ loc'[t].todo # <<>> =>
           loc'[t].data = loc[t].data /\ loc'[t].main = loc[t].main
  BY <1>1, GoesOn
<1>3. LockStep(t)
  BY <1>2 DEF Mark, LockStep, Releases, locks, keckVars
<1>4. RowStep(t) /\ DataStep(t)
  BY <1>2 DEF Mark, RowStep, DataStep
<1> QED BY <1>2, <1>3, <1>4 DEF Effect

LEMMA RebuildDoneEffect ==
  ASSUME NEW t \in Tasks, Walking, RebuildDone(t) PROVE Effect(t, 0)
<1>1. At(t, "rebuilt") /\ Goes(t)
  BY DEF RebuildDone
<1>2. /\ Moves(t, 0) /\ Shape' /\ todo(t)[1] = "rebuilt"
      /\ loc'[t].todo # <<>> =>
           loc'[t].data = loc[t].data /\ loc'[t].main = loc[t].main
  BY <1>1, GoesOn
<1>3. LockStep(t)
  BY <1>2 DEF RebuildDone, LockStep, Releases, locks, keckVars
<1>4. RowStep(t) /\ DataStep(t)
  BY <1>2 DEF RebuildDone, RowStep, DataStep
<1> QED BY <1>2, <1>3, <1>4 DEF Effect

LEMMA PassEffect ==
  ASSUME NEW t \in Tasks, Walking, Pass(t) PROVE Effect(t, 0)
<1>1. PICK step \in {"find", "vacant", "force", "again", "export"} : At(t, step)
  BY DEF Pass
<1>2. Goes(t)
  BY DEF Pass
<1>3. Moves(t, 0) /\ Shape' /\ todo(t)[1] = step
  BY <1>1, <1>2, GoesOn
<1>4. LockStep(t)
  BY <1>3 DEF Pass, LockStep, Releases, locks, keckVars
<1>5. RowStep(t) /\ DataStep(t)
  BY <1>3 DEF Pass, RowStep, DataStep
<1> QED BY <1>3, <1>4, <1>5 DEF Effect

LEMMA FullEffect ==
  ASSUME NEW t \in Tasks, Walking, Full(t), UNCHANGED rebuilder PROVE Effect(t, 0)
<1>a. PICK l : l = [Then(t, <<>>) EXCEPT !.ops = {}, !.data = {}, !.main = FALSE]
  OBVIOUS
<1>1. At(t, "full") /\ Becomes(t, l)
  BY <1>a DEF Full, Done
<1>2. Shaped(Then(t, <<>>)) /\ Then(t, <<>>).todo = <<>> \o Tail(todo(t))
  BY ThenShaped DEF Walking
<1>3. Shaped(l) /\ l.todo = <<>> \o Tail(todo(t))
  BY <1>2, <1>a DEF Shaped
<1>4. Moves(t, 0) /\ Shape' /\ todo(t)[1] = "full"
  BY <1>1, <1>3, PassesOn
<1>5. LockStep(t)
  BY <1>4 DEF Full, LockStep, Releases, locks
<1>6. RowStep(t) /\ DataStep(t)
  BY <1>4 DEF Full, RowStep, DataStep
<1> QED BY <1>4, <1>5, <1>6 DEF Effect

LEMMA InsertEffect ==
  ASSUME NEW t \in Tasks, Walking, Insert(t), UNCHANGED rebuilder PROVE Effect(t, 0)
<1>a. PICK l : l = [Then(t, <<>>) EXCEPT !.ops = {}, !.data = {}, !.main = FALSE]
  OBVIOUS
<1>1. At(t, "insert") /\ Becomes(t, l)
  BY <1>a DEF Insert, Done
<1>2. Shaped(Then(t, <<>>)) /\ Then(t, <<>>).todo = <<>> \o Tail(todo(t))
  BY ThenShaped DEF Walking
<1>3. Shaped(l) /\ l.todo = <<>> \o Tail(todo(t))
  BY <1>2, <1>a DEF Shaped
<1>4. Moves(t, 0) /\ Shape' /\ todo(t)[1] = "insert"
  BY <1>1, <1>3, PassesOn
<1>5. LockStep(t)
  BY <1>4 DEF Insert, LockStep, Releases, locks
<1>6. RowStep(t) /\ DataStep(t)
  BY <1>4 DEF Insert, RowStep, DataStep
<1> QED BY <1>4, <1>5, <1>6 DEF Effect

LEMMA CachedEffect ==
  ASSUME NEW t \in Tasks, Walking, Cached(t), UNCHANGED rebuilder PROVE Effect(t, 0)
<1>a. PICK l : l = [Then(t, <<>>) EXCEPT !.ws = cache', !.data = {}, !.main = FALSE]
  OBVIOUS
<1>1. At(t, "cached") /\ Becomes(t, l)
  BY <1>a DEF Cached
<1>2. Shaped(Then(t, <<>>)) /\ Then(t, <<>>).todo = <<>> \o Tail(todo(t))
  BY ThenShaped DEF Walking
<1>3. Shaped(l) /\ l.todo = <<>> \o Tail(todo(t))
  BY <1>2, <1>a DEF Shaped
<1>4. Moves(t, 0) /\ Shape' /\ todo(t)[1] = "cached"
  BY <1>1, <1>3, PassesOn
<1>5. LockStep(t)
  BY <1>4 DEF Cached, LockStep, Releases, locks
<1>6. RowStep(t) /\ DataStep(t)
  BY <1>4 DEF Cached, RowStep, DataStep
<1> QED BY <1>4, <1>5, <1>6 DEF Effect

LEMMA DocAllEffect ==
  ASSUME NEW t \in Tasks, Walking, DocAll(t), UNCHANGED rebuilder PROVE Effect(t, 0)
<1>a. PICK l : l = [Then(t, <<>>) EXCEPT !.data = Contents(rows)]
  OBVIOUS
<1>1. At(t, "doc_all") /\ Becomes(t, l)
  BY <1>a DEF DocAll
<1>2. Shaped(Then(t, <<>>)) /\ Then(t, <<>>).todo = <<>> \o Tail(todo(t))
  BY ThenShaped DEF Walking
<1>3. Shaped(l) /\ l.todo = <<>> \o Tail(todo(t)) /\ l.data = Contents(rows)
  BY <1>2, <1>a DEF Shaped
<1>4. /\ Moves(t, 0) /\ Shape' /\ todo(t)[1] = "doc_all"
      /\ loc'[t].todo # <<>> => loc'[t] = l
  BY <1>1, <1>3, PassesOn
<1>5. LockStep(t)
  BY <1>4 DEF DocAll, LockStep, Releases, locks
<1>6. RowStep(t) /\ DataStep(t)
  BY <1>3, <1>4 DEF DocAll, RowStep, DataStep
<1> QED BY <1>4, <1>5, <1>6 DEF Effect

LEMMA IsWorkspaceEffect ==
  ASSUME NEW t \in Tasks, Walking, IsWorkspace(t), UNCHANGED rebuilder PROVE Effect(t, 0)
<1>1. PICK main \in IF rows = <<>> THEN {FALSE} ELSE {rows[i].main : i \in DOMAIN rows} :
        Becomes(t, [Then(t, <<>>) EXCEPT !.main = main])
  BY DEF IsWorkspace
<1>a. PICK l : l = [Then(t, <<>>) EXCEPT !.main = main]
  OBVIOUS
<1>2. /\ Shaped(Then(t, <<>>)) /\ Then(t, <<>>).todo = <<>> \o Tail(todo(t))
      /\ Then(t, <<>>).data = loc[t].data
  BY ThenShaped DEF Walking
<1>3. Shaped(l) /\ l.todo = <<>> \o Tail(todo(t)) /\ l.main = main /\ l.data = loc[t].data
  BY <1>2, <1>a DEF Shaped
<1>4. At(t, "is_workspace") /\ Becomes(t, l)
  BY <1>1, <1>a DEF IsWorkspace
<1>5. /\ Moves(t, 0) /\ Shape' /\ todo(t)[1] = "is_workspace"
      /\ loc'[t].todo # <<>> => loc'[t] = l
  BY <1>3, <1>4, PassesOn
<1>6. LockStep(t)
  BY <1>5 DEF IsWorkspace, LockStep, Releases, locks
<1>7. rows # <<>> => \E i \in DOMAIN rows : main = rows[i].main
  BY <1>1
<1>8. RowStep(t) /\ DataStep(t)
  BY <1>3, <1>5, <1>7 DEF IsWorkspace, RowStep, DataStep
<1> QED BY <1>5, <1>6, <1>8 DEF Effect

LEMMA PutEffect ==
  ASSUME NEW t \in Tasks, Walking, Put(t) PROVE Effect(t, 0)
<1>1. PICK kind \in {"obj", "str", "arr", "map", "del", "unmap", "blocks"} :
        /\ At(t, kind)
        /\ \E before, new : Becomes(t, [Then(t, <<>>) EXCEPT !.data = before, !.wrote = new])
        /\ UNCHANGED <<rows, locks, keckVars>>
  BY DEF Put
<1>2. PICK before, new : Becomes(t, [Then(t, <<>>) EXCEPT !.data = before, !.wrote = new])
  BY <1>1
<1>a. PICK l : l = [Then(t, <<>>) EXCEPT !.data = before, !.wrote = new]
  OBVIOUS
<1>3. Shaped(Then(t, <<>>)) /\ Then(t, <<>>).todo = <<>> \o Tail(todo(t))
  BY ThenShaped DEF Walking
<1>4. Shaped(l) /\ l.todo = <<>> \o Tail(todo(t))
  BY <1>3, <1>a DEF Shaped
<1> Becomes(t, l)
  BY <1>2, <1>a
<1>5. Moves(t, 0) /\ Shape' /\ todo(t)[1] = kind
  BY <1>1, <1>4, PassesOn
<1>6. LockStep(t)
  BY <1>1, <1>5 DEF LockStep, Releases, locks, keckVars
<1>7. RowStep(t) /\ DataStep(t)
  BY <1>1, <1>5 DEF RowStep, DataStep
<1> QED BY <1>5, <1>6, <1>7 DEF Effect

\* A step that puts m others first.
LEMMA PutsFirst ==
  ASSUME NEW t \in Tasks, Walking, NEW step, At(t, step), NEW l, Shaped(l), NEW m,
         Follows(l.todo, todo(t), m), Becomes(t, l)
  PROVE  /\ Moves(t, m) /\ Shape' /\ loc'[t].todo = l.todo
         /\ loc'[t].todo # <<>> => loc'[t] = l
         /\ todo(t)[1] = step
<1>1. todo(t) # <<>> /\ todo(t)[1] = step
  BY AtHead DEF Walking
<1> QED BY <1>1, BecomesMoves DEF Walking

LEMMA CountEffect ==
  ASSUME NEW t \in Tasks, Walking, Count(t), UNCHANGED rebuilder
  PROVE  \E m : Effect(t, m)
<1>1. At(t, "count") /\ todo(t) # <<>> /\ todo(t)[1] = "count" /\ Path(todo(t))
  BY AtHead DEF Count, Walking
<1>2. CASE Len(rows) >= TrimLimit
  <2>1. PICK l : l = Then(t, <<"doc_all">> \o replace_with)
    OBVIOUS
  <2>2. Shaped(l) /\ l.todo = (<<"doc_all">> \o replace_with) \o Tail(todo(t)) /\ Becomes(t, l)
    BY <1>2, <2>1, ThenShaped DEF Count, Walking
  <2>3. Follows(l.todo, todo(t), 4)
    BY <1>1, <2>2, CountPath
  <2>4. Moves(t, 4) /\ Shape'
    BY <1>1, <2>2, <2>3, PutsFirst
  <2>5. LockStep(t) /\ RowStep(t) /\ DataStep(t)
    BY <1>1, <1>2 DEF Count, LockStep, Releases, locks, RowStep, DataStep
  <2> QED BY <2>4, <2>5 DEF Effect
<1>3. CASE ~(Len(rows) >= TrimLimit)
  <2>1. Goes(t)
    BY <1>3 DEF Count, Goes
  <2>2. Moves(t, 0) /\ Shape'
    BY <1>1, <2>1, GoesOn
  <2>3. loc'[t].todo # <<>> => loc'[t].todo[1] # "doc_all"
    <3>1. Path(todo(t)) /\ Follows(loc'[t].todo, todo(t), 0)
      BY <1>1, <2>2 DEF Moves
    <3> QED BY <1>1, <3>1, NextHead
  <2>4. LockStep(t) /\ RowStep(t) /\ DataStep(t)
    BY <1>1, <2>3 DEF Count, LockStep, Releases, locks, RowStep, DataStep
  <2> QED BY <2>2, <2>4 DEF Effect
<1> QED BY <1>2, <1>3

LEMMA LoadEffect ==
  ASSUME NEW t \in Tasks, Walking, Load(t), UNCHANGED rebuilder
  PROVE  \E m : Effect(t, m)
<1>1. At(t, "load") /\ todo(t) # <<>> /\ todo(t)[1] = "load" /\ Path(todo(t))
  BY AtHead DEF Load, Walking
<1>2. PICK steps : steps = CASE MainRows = {} -> <<"insert_empty">>
                             [] Cardinality(MainRows) = 1 -> <<>>
                             [] OTHER -> replace_with
  OBVIOUS
<1>3. PICK l : l = [Then(t, steps) EXCEPT !.data = UNION {rows[i].ops : i \in MainRows}]
  OBVIOUS
<1>4. Becomes(t, l)
  BY <1>2, <1>3 DEF Load
<1>5. Shaped(Then(t, steps)) /\ Then(t, steps).todo = steps \o Tail(todo(t))
  BY ThenShaped DEF Walking
<1>6. Shaped(l) /\ l.todo = steps \o Tail(todo(t)) /\ l.data = UNION {rows[i].ops : i \in MainRows}
  BY <1>3, <1>5 DEF Shaped
<1>7. ASSUME NEW m, Moves(t, m), Shape', loc'[t].todo # <<>> => loc'[t] = l,
             loc'[t].todo # <<>> /\ loc'[t].todo[1] = "is_workspace" => MainRows # {}
      PROVE  Effect(t, m)
  <2>1. LockStep(t) /\ RowStep(t)
    BY <1>1 DEF Load, LockStep, Releases, locks, RowStep
  <2>2. DataStep(t)
    BY <1>1, <1>6, <1>7 DEF DataStep
  <2> QED BY <1>7, <2>1, <2>2 DEF Effect
<1>8. CASE MainRows = {}
  <2>1. steps = <<"insert_empty">>
    <3>1. Cardinality(MainRows) # 1
      BY <1>8, FS_EmptySet
    <3> QED BY <1>2, <1>8, <3>1
  <2>2. Follows(l.todo, todo(t), 1) /\ l.todo[1] = "insert_empty"
    <3>1. todo(t) \in Seq(Step)
      BY <1>1 DEF Path
    <3>2. l.todo[1] = "insert_empty"
      BY <1>6, <2>1, <3>1 DEF Step
    <3> QED BY <1>1, <1>6, <2>1, <3>2, LoadEmptyPath
  <2>3. /\ Moves(t, 1) /\ Shape' /\ loc'[t].todo = l.todo
        /\ loc'[t].todo # <<>> => loc'[t] = l
    BY <1>1, <1>4, <1>6, <2>2, PutsFirst
  <2> QED BY <1>7, <2>2, <2>3
<1>9. CASE MainRows # {}
  <2>1. steps = <<>> \/ steps = replace_with
    BY <1>2, <1>9
  <2>2. \E m : Follows(l.todo, todo(t), m)
    <3>1. CASE steps = <<>>
      BY <1>1, <1>6, <3>1, GoesPath
    <3>2. CASE steps = replace_with
      BY <1>1, <1>6, <3>2, LoadManyPath
    <3> QED BY <2>1, <3>1, <3>2
  <2>3. PICK m : Follows(l.todo, todo(t), m)
    BY <2>2
  <2>4. Moves(t, m) /\ Shape' /\ (loc'[t].todo # <<>> => loc'[t] = l)
    BY <1>1, <1>4, <1>6, <2>3, PutsFirst
  <2> QED BY <1>7, <1>9, <2>4
<1> QED BY <1>8, <1>9

LEMMA LookupEffect ==
  ASSUME NEW t \in Tasks, Walking, Lookup(t), UNCHANGED rebuilder
  PROVE  \E m : Effect(t, m)
<1>1. At(t, "cache") /\ todo(t) # <<>> /\ todo(t)[1] = "cache" /\ Path(todo(t))
  BY AtHead DEF Lookup, Walking
<1>2. RowStep(t) /\ DataStep(t)
  BY <1>1 DEF Lookup, RowStep, DataStep
<1>3. CASE cache # 0
  <2>1. PICK l : l = [Then(t, <<>>) EXCEPT !.ws = cache]
    OBVIOUS
  <2>2. Shaped(Then(t, <<>>)) /\ Then(t, <<>>).todo = <<>> \o Tail(todo(t)) /\ Becomes(t, l)
    BY <1>3, <2>1, ThenShaped DEF Walking, Lookup
  <2>3. Shaped(l) /\ l.todo = <<>> \o Tail(todo(t))
    BY <2>1, <2>2 DEF Shaped
  <2>4. Moves(t, 0) /\ Shape'
    BY <1>1, <2>2, <2>3, PassesOn
  <2>5. LockStep(t)
    BY <1>1, <1>3 DEF Lookup, LockStep, Releases
  <2> QED BY <1>2, <2>4, <2>5 DEF Effect
<1>4. CASE cache = 0
  <2>1. PICK l : l = Then(t, <<"lock", "load", "cached">>)
    OBVIOUS
  <2>2. Shaped(l) /\ l.todo = <<"lock", "load", "cached">> \o Tail(todo(t)) /\ Becomes(t, l)
    BY <1>4, <2>1, ThenShaped DEF Walking, Lookup
  <2>3. Follows(l.todo, todo(t), 3)
    BY <1>1, <2>2, LookupPath
  <2>4. Moves(t, 3) /\ Shape' /\ loc'[t].todo = l.todo
    BY <1>1, <2>2, <2>3, PutsFirst
  <2>5. Within(l.todo, Mid \cup {"lock"}, {"cached"})
    <3>1. todo(t) \in Seq(Step)
      BY <1>1 DEF Path
    <3>2. l.todo[1] = "lock" /\ l.todo[2] = "load" /\ l.todo[3] = "cached" /\ 3 \in 1..Len(l.todo)
      BY <2>2, <3>1 DEF Step
    <3> QED BY <3>2 DEF Within, Mid
  <2>6. LockStep(t)
    BY <1>1, <1>4, <2>4, <2>5 DEF Lookup, LockStep, Releases
  <2> QED BY <1>2, <2>4, <2>6 DEF Effect
<1> QED BY <1>3, <1>4

LEMMA PersistEffect ==
  ASSUME NEW t \in Tasks, Walking, Persist(t)
  PROVE  \E m : Effect(t, m)
<1>1. At(t, "persist") /\ todo(t) # <<>> /\ todo(t)[1] = "persist" /\ Path(todo(t))
  BY AtHead DEF Persist, Walking
<1>2. PICK update : update = Diff(inst[loc[t].ws], loc[t].data)
  OBVIOUS
<1>3. PICK steps : steps = IF update = {} THEN <<>> ELSE update_doc
  OBVIOUS
<1>4. PICK l : l = [Then(t, steps) EXCEPT !.ops = update, !.data = {}, !.ws = 0]
  OBVIOUS
<1>5. Becomes(t, l)
  BY <1>2, <1>3, <1>4 DEF Persist
<1>6. Shaped(Then(t, steps)) /\ Then(t, steps).todo = steps \o Tail(todo(t))
  BY ThenShaped DEF Walking
<1>7. Shaped(l) /\ l.todo = steps \o Tail(todo(t))
  BY <1>4, <1>6 DEF Shaped
<1>8. \E m : Follows(l.todo, todo(t), m)
  <2>1. CASE steps = <<>>
    BY <1>1, <1>7, <2>1, GoesPath
  <2>2. CASE steps = update_doc
    BY <1>1, <1>7, <2>2, PersistPath
  <2> QED BY <1>3, <2>1, <2>2
<1>9. PICK m : Follows(l.todo, todo(t), m)
  BY <1>8
<1>10. Moves(t, m) /\ Shape'
  BY <1>1, <1>5, <1>7, <1>9, PutsFirst
<1>11. LockStep(t) /\ RowStep(t) /\ DataStep(t)
  BY <1>1 DEF Persist, LockStep, Releases, locks, keckVars, RowStep, DataStep
<1> QED BY <1>10, <1>11 DEF Effect

LEMMA ForcedEffect ==
  ASSUME NEW t \in Tasks, Walking, Forced(t)
  PROVE  \E m : Effect(t, m)
<1>1. At(t, "force") /\ todo(t) # <<>> /\ todo(t)[1] = "force" /\ Path(todo(t))
  BY AtHead DEF Forced, Walking
<1>2. PICK l : l = Then(t, delete_handler \o <<"again">>)
  OBVIOUS
<1>3. Shaped(l) /\ l.todo = (delete_handler \o <<"again">>) \o Tail(todo(t)) /\ Becomes(t, l)
  BY <1>2, ThenShaped DEF Forced, Walking
<1>4. Follows(l.todo, todo(t), 5)
  BY <1>1, <1>3, ForcedPath
<1>5. Moves(t, 5) /\ Shape'
  BY <1>1, <1>3, <1>4, PutsFirst
<1>6. LockStep(t) /\ RowStep(t) /\ DataStep(t)
  BY <1>1 DEF Forced, LockStep, Releases, locks, keckVars, RowStep, DataStep
<1> QED BY <1>5, <1>6 DEF Effect

LEMMA ReopenEffect ==
  ASSUME NEW t \in Tasks, Walking,
         Reopen(t, "look", <<>>) \/ Reopen(t, "open", <<"import">>)
  PROVE  \E m : Effect(t, m)
<1>1. PICK step \in {"look", "open"}, steps \in {<<>>, <<"import">>} :
        Reopen(t, step, steps) /\ (step = "look" <=> steps = <<>>)
  OBVIOUS
<1>2. At(t, step) /\ todo(t) # <<>> /\ todo(t)[1] = step /\ Path(todo(t))
  BY <1>1, AtHead DEF Reopen, Walking
<1>3. PICK found \in BOOLEAN :
        Becomes(t, Then(t, IF found THEN get_or_create_workspace \o steps ELSE <<>>))
  BY <1>1 DEF Reopen
<1>4. PICK first : first = IF found THEN get_or_create_workspace \o steps ELSE <<>>
  OBVIOUS
<1>5. PICK l : l = Then(t, first)
  OBVIOUS
<1>6. Shaped(l) /\ l.todo = first \o Tail(todo(t)) /\ Becomes(t, l)
  BY <1>3, <1>4, <1>5, ThenShaped DEF Walking
<1>7. \E m : Follows(l.todo, todo(t), m)
  <2>1. CASE ~found
    BY <1>2, <1>4, <1>6, <2>1, GoesPath
  <2>2. CASE found /\ step = "look"
    BY <1>1, <1>2, <1>4, <1>6, <2>2, LookPath
  <2>3. CASE found /\ step = "open"
    <3>1. steps = <<"import">>
      BY <1>1, <2>3
    <3> QED BY <1>2, <1>4, <1>6, <2>3, <3>1, OpenPath
  <2> QED BY <2>1, <2>2, <2>3
<1>8. PICK m : Follows(l.todo, todo(t), m)
  BY <1>7
<1>9. Moves(t, m) /\ Shape'
  BY <1>2, <1>6, <1>8, PutsFirst
<1>10. UNCHANGED <<rows, locks, rebuilder>>
  BY <1>1 DEF Reopen, keckVars
<1>11. LockStep(t) /\ RowStep(t) /\ DataStep(t)
  BY <1>1, <1>2, <1>10 DEF LockStep, Releases, locks, RowStep, DataStep
<1> QED BY <1>9, <1>11 DEF Effect

LEMMA NormalizeEffect ==
  ASSUME NEW t \in Tasks, Walking,
         \/ Normalize(t, "normalize", <<"rebuild">>)
         \/ Normalize(t, "import", full_migrate \o <<"mark">>)
  PROVE  \E m : Effect(t, m)
<1>1. PICK step \in {"normalize", "import"}, rebuild \in {<<"rebuild">>, full_migrate \o <<"mark">>} :
        /\ Normalize(t, step, rebuild)
        /\ step = "normalize" => rebuild = <<"rebuild">>
        /\ step = "import" => rebuild = full_migrate \o <<"mark">>
  OBVIOUS
<1>2. At(t, step) /\ todo(t) # <<>> /\ todo(t)[1] = step /\ Path(todo(t))
  BY <1>1, AtHead DEF Normalize, Walking
<1>3. PICK S : S = Normalized(inst[loc[t].ws], loc[t].ws)
  OBVIOUS
<1>4. PICK first : first = CASE Rebuildable(S) -> rebuild
                             [] S # inst[loc[t].ws] -> full_migrate
                             [] OTHER -> <<>>
  OBVIOUS
<1>5. PICK ops : ops = IF Rebuildable(S) THEN Rebuilt(S) ELSE S
  OBVIOUS
<1>6. PICK l : l = [Then(t, first) EXCEPT !.ops = ops, !.ws = 0]
  OBVIOUS
<1>7. Becomes(t, l) /\ UNCHANGED <<rows, locks, rebuilder>>
  BY <1>1, <1>3, <1>4, <1>5, <1>6 DEF Normalize, keckVars
<1>8. Shaped(Then(t, first)) /\ Then(t, first).todo = first \o Tail(todo(t))
  BY ThenShaped DEF Walking
<1>9. Shaped(l) /\ l.todo = first \o Tail(todo(t))
  BY <1>6, <1>8 DEF Shaped
<1>10. first \in {rebuild, full_migrate, <<>>}
  BY <1>4
<1>11. \E m : Follows(l.todo, todo(t), m)
  <2>1. CASE first = <<>>
    BY <1>2, <1>9, <2>1, GoesPath
  <2>2. CASE first = full_migrate
    BY <1>1, <1>2, <1>9, <2>2, MigratePath
  <2>3. CASE first = rebuild /\ step = "normalize"
    <3>1. rebuild = <<"rebuild">>
      BY <1>1, <2>3
    <3> QED BY <1>2, <1>9, <2>3, <3>1, NormalizeRebuildPath
  <2>4. CASE first = rebuild /\ step = "import"
    <3>1. rebuild = full_migrate \o <<"mark">>
      BY <1>1, <2>4
    <3> QED BY <1>2, <1>9, <2>4, <3>1, ImportPath
  <2> QED BY <1>1, <1>10, <2>1, <2>2, <2>3, <2>4
<1>12. PICK m : Follows(l.todo, todo(t), m)
  BY <1>11
<1>13. Moves(t, m) /\ Shape'
  BY <1>2, <1>7, <1>9, <1>12, PutsFirst
<1>14. LockStep(t) /\ RowStep(t) /\ DataStep(t)
  BY <1>1, <1>2, <1>7 DEF LockStep, Releases, locks, RowStep, DataStep
<1> QED BY <1>13, <1>14 DEF Effect

LEMMA RebuildEffect ==
  ASSUME NEW t \in Tasks, Walking, Rebuild(t)
  PROVE  \E m : Effect(t, m)
<1>1. /\ At(t, "rebuild") /\ todo(t) # <<>> /\ todo(t)[1] = "rebuild" /\ Path(todo(t))
      /\ rebuilder = NoTask
  BY AtHead DEF Rebuild, Walking
<1>2. todo(t) \in Seq(Step)
  BY <1>1 DEF Path
<1>3. RowStep(t) /\ DataStep(t)
  BY <1>1 DEF Rebuild, RowStep, DataStep
<1>4. CASE rebuilt
  <2>1. Goes(t)
    BY <1>4 DEF Rebuild, Goes
  <2>2. Moves(t, 0) /\ Shape'
    BY <1>1, <2>1, GoesOn
  <2>3. ~Rebuilds(loc'[t].todo)
    <3>1. Follows(loc'[t].todo, todo(t), 0)
      BY <2>2 DEF Moves
    <3> QED BY <1>1, <1>2, <3>1, RebuildIsLast
  <2>4. LockStep(t)
    BY <1>1, <1>4, <2>3 DEF Rebuild, LockStep, Releases, locks
  <2> QED BY <1>3, <2>2, <2>4 DEF Effect
<1>5. CASE ~rebuilt
  <2>1. PICK l : l = Then(t, full_migrate \o <<"rebuilt">>)
    OBVIOUS
  <2>2. Shaped(l) /\ l.todo = (full_migrate \o <<"rebuilt">>) \o Tail(todo(t)) /\ Becomes(t, l)
    BY <1>5, <2>1, ThenShaped DEF Walking, Rebuild
  <2>3. Follows(l.todo, todo(t), 11)
    BY <1>1, <2>2, RebuildPath
  <2>4. Moves(t, 11) /\ Shape' /\ loc'[t].todo = l.todo
    BY <1>1, <2>2, <2>3, PutsFirst
  <2>5. Within(l.todo, Rebuilding, {"rebuilt"})
    BY <1>1, <2>2, RebuildIsUnderLock
  <2>6. LockStep(t)
    BY <1>1, <1>5, <2>4, <2>5 DEF Rebuild, LockStep, Releases, locks
  <2> QED BY <1>3, <2>4, <2>6 DEF Effect
<1> QED BY <1>4, <1>5

\* Every step of a task but its last answer.
LEMMA StepEffect ==
  ASSUME NEW t \in Tasks, Walking, ServerStep(t), ~Answer(t)
  PROVE  \E m : Effect(t, m)
<1>1. CASE Pass(t) \/ Forced(t) \/ Put(t) \/ Persist(t) \/ Ack(t)
  BY <1>1, PassEffect, ForcedEffect, PutEffect, PersistEffect, AckEffect
<1>2. CASE Forget(t) \/ Mark(t) \/ Rebuild(t) \/ RebuildDone(t)
  BY <1>2, ForgetEffect, MarkEffect, RebuildEffect, RebuildDoneEffect
<1>3. CASE Reopen(t, "look", <<>>) \/ Reopen(t, "open", <<"import">>)
  BY <1>3, ReopenEffect
<1>4. CASE \/ Normalize(t, "normalize", <<"rebuild">>)
           \/ Normalize(t, "import", full_migrate \o <<"mark">>)
  BY <1>4, NormalizeEffect
<1>5. CASE StorageStep(t) /\ UNCHANGED rebuilder
  <2>1. CASE Take(t) \/ StartMigrate(t) \/ EndMigrate(t) \/ Count(t) \/ DocAll(t)
    BY <1>5, <2>1, TakeEffect, StartMigrateEffect, EndMigrateEffect, CountEffect, DocAllEffect
  <2>2. CASE IsWorkspace(t) \/ Clear(t) \/ Merged(t) \/ Full(t) \/ Insert(t)
    BY <1>5, <2>2, IsWorkspaceEffect, ClearEffect, MergedEffect, FullEffect, InsertEffect
  <2>3. CASE Lookup(t) \/ Load(t) \/ InsertEmpty(t) \/ Cached(t) \/ Uncache(t) \/ Drop(t)
    BY <1>5, <2>3, LookupEffect, LoadEffect, InsertEmptyEffect, CachedEffect,
       UncacheEffect, DropEffect
  <2> QED BY <1>5, <2>1, <2>2, <2>3 DEF StorageStep
<1> QED BY <1>1, <1>2, <1>3, <1>4, <1>5 DEF ServerStep

-----------------------------------------------------------------------------
(* The sections hold throughout. *)

\* A step after which the task is idle, or at the start of a path: it holds
\* nothing before and after.
Restarts(t) ==
  /\ loc' = [loc EXCEPT ![t] = loc'[t]] /\ Shaped(loc'[t])
  /\ Path(loc'[t].todo) /\ ~Holding(loc'[t].todo) /\ ~Rebuilds(loc'[t].todo)
  /\ ~Holding(todo(t)) /\ ~Rebuilds(todo(t))
  /\ owner # t /\ migrating # t /\ rebuilder # t
  /\ \A step \in Rebuilding : ~At(t, step)
  /\ loc'[t].todo = <<>> \/ loc'[t].todo[1] \in Starts
  /\ UNCHANGED <<rows, locks, rebuilder>>

LEMMA RestartWalks ==
  ASSUME NEW t \in Tasks, Walking, Restarts(t)
  PROVE  /\ Walking' /\ \A u \in Tasks \ {t} : loc'[u] = loc[u]
<1>1. \A u \in Tasks \ {t} : loc'[u] = loc[u] /\ todo(u)' = todo(u)
  BY DEF Restarts, Walking, Shape, todo
<1>2. loc' = [u \in Tasks |-> loc'[u]]
  BY DEF Restarts, Walking, Shape
<1>3. \A u \in Tasks : Shaped(loc'[u])
  BY <1>1 DEF Restarts, Walking, Shape
<1>4. Shape'
  BY <1>2, <1>3 DEF Shape, Shaped
<1>5. todo(t)' = loc'[t].todo
  BY DEF todo
<1>6. ASSUME NEW u \in Tasks PROVE Path(todo(u)')
  <2>1. CASE u = t
    BY <1>5, <2>1 DEF Restarts
  <2>2. CASE u # t
    BY <1>1, <2>2 DEF Walking, Paths
  <2> QED BY <2>1, <2>2
<1>7. Paths'
  BY <1>6 DEF Paths
<1>8. UNCHANGED <<bucket, owner, migrating, rebuilder>>
  BY DEF Restarts, locks
<1>9. ASSUME NEW u \in Tasks PROVE Holding(todo(u)') <=> Holding(todo(u))
  <2>1. CASE u = t
    BY <1>5, <2>1 DEF Restarts
  <2>2. CASE u # t
    BY <1>1, <2>2
  <2> QED BY <2>1, <2>2
<1>10. bucket' = {u \in Tasks : Holding(todo(u)')}
  BY <1>8, <1>9 DEF Walking, Sections
<1>11. ASSUME NEW u \in Tasks
       PROVE  /\ owner' = u => Within(todo(u)', Mid \cup {"lock"}, {"cached"})
              /\ migrating' = u => Within(todo(u)', Migration, {"migrated"})
              /\ rebuilder' = u => Within(todo(u)', Rebuilding, {"rebuilt"})
              /\ Rebuilds(todo(u)') => rebuilder' = u
  <2>1. CASE u = t
    BY <1>5, <1>8, <2>1 DEF Restarts
  <2>2. CASE u # t
    BY <1>1, <1>8, <2>2 DEF Walking, Sections
  <2> QED BY <2>1, <2>2
<1>12. Sections'
  BY <1>8, <1>10, <1>11 DEF Walking, Sections
<1> QED BY <1>1, <1>4, <1>7, <1>12 DEF Walking

\* A task whose next step is under no lock holds none.
LEMMA HoldsNone ==
  ASSUME NEW t \in Tasks, Walking, NEW step, At(t, step),
         step \notin Rebuilding \cup {"rebuilt"}
  PROVE  /\ ~Holding(todo(t)) /\ ~Rebuilds(todo(t))
         /\ owner # t /\ migrating # t /\ rebuilder # t
<1>1. todo(t) \in Seq(Step) /\ todo(t)[1] = step
  BY AtHead DEF Walking
<1>2. step \notin Mid \cup Releases \cup Migration \cup {"lock", "cached", "migrated"}
  BY DEF Rebuilding, Migration, Releases
<1>3. ~Holding(todo(t))
  BY <1>1, <1>2, WithinHead DEF Holding
<1>4. ~Within(todo(t), Mid \cup {"lock"}, {"cached"})
  BY <1>1, <1>2, WithinHead
<1>5. ~Within(todo(t), Migration, {"migrated"})
  BY <1>1, <1>2, WithinHead
<1>6. ~Within(todo(t), Rebuilding, {"rebuilt"})
  BY <1>1, WithinHead
<1> QED BY <1>3, <1>4, <1>5, <1>6 DEF Walking, Sections

LEMMA AnswerRestarts ==
  ASSUME NEW t \in Tasks, Walking, Answer(t)
  PROVE  Restarts(t) /\ loc'[t] = Idle
<1>1. PICK step \in {"obj", "str", "arr", "map", "find", "vacant", "again", "export"} : At(t, step)
  BY DEF Answer
<1>2. step \notin Rebuilding \cup {"rebuilt"}
  BY DEF Rebuilding, Migration, Mid, Releases
<1>3. loc' = [loc EXCEPT ![t] = Idle] /\ loc'[t] = Idle
  BY DEF Answer, Walking, Shape
<1>4. Shaped(Idle) /\ Idle.todo = <<>>
  BY DEF Shaped, Idle
<1>5. UNCHANGED <<rows, locks, rebuilder>>
  BY DEF Answer, keckVars
<1>6. /\ ~Holding(todo(t)) /\ ~Rebuilds(todo(t))
      /\ owner # t /\ migrating # t /\ rebuilder # t
  BY <1>1, <1>2, HoldsNone
<1>7. \A x \in Rebuilding : ~At(t, x)
  BY <1>1, <1>2, AtHead DEF Walking
<1> QED BY <1>7, <1>3, <1>4, <1>5, <1>6, NothingAhead DEF Restarts

LEMMA IdleHoldsNone ==
  ASSUME NEW t \in Tasks, Walking, loc[t] = Idle
  PROVE  /\ ~Holding(todo(t)) /\ ~Rebuilds(todo(t))
         /\ owner # t /\ migrating # t /\ rebuilder # t
<1>1. todo(t) = <<>>
  BY DEF todo, Idle
<1>2. \A mid, out : ~Within(<<>>, mid, out)
  BY DEF Within
<1> QED BY <1>1, <1>2, NothingAhead DEF Walking, Sections

LEMMA RequestRestarts ==
  ASSUME NEW t \in Tasks, Walking, Request(t)
  PROVE  Restarts(t) /\ FirstPath(loc'[t].todo) /\ loc[t] = Idle /\ UNCHANGED <<rebuilt, rebuilds>>
<1>1. PICK path, data : FirstPath(path) /\ Begin(t, path, data)
  <2>1. CASE \E path \in Reads \cup Writes \cup {delete_handler, upgrade_handler} :
               Begin(t, path, {})
    BY <2>1, ReadPaths, WritePaths, DeletePath, UpgradePath
  <2>2. CASE \E force \in {"vacant", "force"}, kind \in {"map", "str"} :
               Begin(t, init_workspace(force), {<<kind, count + 1, 0>>})
    <3>1. PICK force \in {"vacant", "force"}, kind \in {"map", "str"} :
               Begin(t, init_workspace(force), {<<kind, count + 1, 0>>})
      BY <2>2
    <3>2. FirstPath(init_workspace(force))
      BY InitPath
    <3> QED BY <3>1, <3>2
  <2> QED BY <2>1, <2>2 DEF Request
<1>2. PICK l : l = [Idle EXCEPT !.req = count', !.todo = path, !.ops = data, !.wrote = data]
  OBVIOUS
<1>3. Shaped(l) /\ l.todo = path
  BY <1>2 DEF Shaped, Idle
<1>4. loc' = [loc EXCEPT ![t] = l] /\ loc'[t] = l
  BY <1>1, <1>2 DEF Begin, Walking, Shape
<1>5. loc[t] = Idle /\ UNCHANGED <<rows, locks, rebuilder, rebuilt, rebuilds>>
  BY <1>1 DEF Begin
<1>6. /\ ~Holding(todo(t)) /\ ~Rebuilds(todo(t))
      /\ owner # t /\ migrating # t /\ rebuilder # t
  BY <1>5, IdleHoldsNone
<1>7. Path(path) /\ ~Rebuilds(path) /\ ~Holding(path)
  <2>1. path[1] \notin Mid \cup Releases /\ path \in Seq(Step)
    BY <1>1 DEF FirstPath, Path, Starts, Mid, Releases
  <2> QED BY <1>1, <2>1, WithinHead DEF FirstPath, Holding
<1>8. \A step : ~At(t, step)
  BY <1>5 DEF At, Idle
<1> QED BY <1>1, <1>3, <1>4, <1>5, <1>6, <1>7, <1>8 DEF Restarts, FirstPath

\* After a crash, and at the start, every task is idle and every lock is free.
LEMMA IdleWalks ==
  ASSUME loc = [t \in Tasks |-> Idle], bucket = {}, owner = NoTask, migrating = NoTask,
         rebuilder = NoTask
  PROVE  Walking
<1>1. \A t \in Tasks : loc[t] = Idle /\ todo(t) = <<>> /\ Shaped(Idle)
  BY DEF todo, Idle, Shaped
<1>2. Shape
  BY <1>1 DEF Shape
<1>3. Paths
  BY <1>1, NothingAhead DEF Paths
<1>4. Sections
  BY <1>1, NothingAhead, NoTaskIsNone DEF Sections
<1> QED BY <1>2, <1>3, <1>4 DEF Walking

LEMMA CrashIsIdle ==
  ASSUME Crash
  PROVE  /\ \A t \in Tasks : loc'[t] = Idle /\ todo(t)' = <<>>
         /\ Walking'
<1>1. /\ (loc = [t \in Tasks |-> Idle])' /\ (bucket = {})' /\ (owner = NoTask)'
      /\ (migrating = NoTask)' /\ (rebuilder = NoTask)'
  BY DEF Crash
<1>2. Walking'
  BY <1>1, IdleWalks, PTL
<1> QED BY <1>1, <1>2 DEF todo, Idle

LEMMA NextIs ==
  ASSUME [Next]_vars
  PROVE  \/ \E t \in Tasks : Request(t)
         \/ \E t \in Tasks : Answer(t)
         \/ \E t \in Tasks : ServerStep(t) /\ ~Answer(t)
         \/ Crash
         \/ UNCHANGED vars
BY DEF Next

LEMMA NextWalks ==
  ASSUME Walking, [Next]_vars PROVE Walking'
<1>1. CASE \E t \in Tasks : Request(t)
  BY <1>1, RequestRestarts, RestartWalks
<1>2. CASE \E t \in Tasks : Answer(t)
  BY <1>2, AnswerRestarts, RestartWalks
<1>3. CASE \E t \in Tasks : ServerStep(t) /\ ~Answer(t)
  <2>1. PICK t \in Tasks : ServerStep(t) /\ ~Answer(t)
    BY <1>3
  <2>2. PICK m : Effect(t, m)
    BY <2>1, StepEffect
  <2> QED BY <2>2, MovesWalk DEF Effect
<1>4. CASE Crash
  BY <1>4, CrashIsIdle
<1>5. CASE UNCHANGED vars
  <2>1. UNCHANGED <<loc, bucket, owner, migrating, rebuilder>>
    BY <1>5 DEF vars, storageVars, keckVars
  <2>2. Shape' /\ Paths'
    BY <2>1 DEF Walking, Shape, Shaped, Paths, todo
  <2>3. \A t \in Tasks : todo(t)' = todo(t)
    BY <2>1 DEF todo
  <2>4. Sections'
    BY <2>1, <2>3 DEF Walking, Sections
  <2> QED BY <2>2, <2>4 DEF Walking
<1> QED BY <1>1, <1>2, <1>3, <1>4, <1>5, NextIs

LEMMA InitWalks == ASSUME Init PROVE Walking
BY IdleWalks DEF Init, StorageInit

(* Every task that runs is on a path its steps allow, and every lock belongs to
   the task whose path gives it back: the guards of the bucket, the cache,
   last_migrate and plain_yjs_rebuilt are dropped on every way through the
   handlers. *)
THEOREM LocksAreReturned == Spec => []Walking
BY InitWalks, NextWalks, PTL DEF Spec

-----------------------------------------------------------------------------
(* Some request can always go on. *)

LEMMA BucketIsFinite ==
  ASSUME Walking
  PROVE  Cardinality(bucket) \in Nat /\ IsFiniteSet(bucket) /\ bucket \subseteq Tasks
BY StorageAssumption, FS_Subset, FS_CardinalityType DEF Walking, Sections

LEMMA SomeGoesOn == ASSUME Walking PROVE NoneStuck
<1> SUFFICES ASSUME \E t \in Tasks : loc[t] # Idle
             PROVE  \E t \in Tasks : loc[t] # Idle /\ ~Stalled(t)
  BY DEF NoneStuck
<1>1. Cardinality(bucket) \in Nat /\ bucket \subseteq Tasks /\ Permits \in Nat \ {0}
  BY BucketIsFinite, StorageAssumption
<1>2. ASSUME NEW t \in Tasks, Within(todo(t), Rebuilding, {"rebuilt"})
      PROVE  /\ loc[t] # Idle
             /\ \A step \in {"forget", "mark", "rebuild", "find", "vacant", "force", "again",
                             "look", "open"} : ~At(t, step)
  <2>1. todo(t) # <<>> /\ todo(t) \in Seq(Step) /\ todo(t)[1] \in Rebuilding \cup {"rebuilt"}
    BY <1>2, WithinHead DEF Walking, Paths, Path
  <2>2. loc[t] # Idle
    BY <2>1 DEF todo, Idle
  <2>3. \A step : At(t, step) => step \in Rebuilding \cup {"rebuilt"}
    BY <2>1, AtHead DEF Walking
  <2> QED BY <2>2, <2>3 DEF Rebuilding, Migration, Mid, Releases
<1>3. CASE Cardinality(bucket) >= Permits
  <2>1. bucket # {}
    BY <1>1, <1>3, FS_EmptySet
  <2>2. PICK t \in Tasks : t \in bucket
    BY <1>1, <2>1
  <2>3. Holding(todo(t))
    BY <2>2 DEF Walking, Sections
  <2>4. todo(t) # <<>> /\ todo(t)[1] \in Mid \cup Releases
    BY <2>3, WithinHead DEF Walking, Paths, Path, Holding
  <2>5. loc[t] # Idle
    BY <2>4 DEF todo, Idle
  <2>6. \A step : At(t, step) => step \in Mid \cup Releases
    BY <2>4, AtHead DEF Walking
  <2>7. ~Stalled(t)
    BY <2>6 DEF Stalled, Waiting, Mid, Releases
  <2> QED BY <2>5, <2>7
<1>4. CASE ~(Cardinality(bucket) >= Permits) /\ owner # NoTask
  <2>1. owner \in Tasks
    BY <1>4 DEF Walking, Sections
  <2>2. Within(todo(owner), Mid \cup {"lock"}, {"cached"})
    BY <2>1 DEF Walking, Sections
  <2>3. todo(owner) # <<>> /\ todo(owner)[1] \in Mid \cup {"lock", "cached"}
    BY <2>1, <2>2, WithinHead DEF Walking, Paths, Path
  <2>4. loc[owner] # Idle
    BY <2>3 DEF todo, Idle
  <2>5. \A step : At(owner, step) => step \in Mid \cup {"lock", "cached"}
    BY <2>1, <2>3, AtHead DEF Walking
  <2>6. ~Stalled(owner)
    BY <1>4, <2>5 DEF Stalled, Waiting, Mid
  <2> QED BY <2>1, <2>4, <2>6
<1>5. CASE ~(Cardinality(bucket) >= Permits) /\ owner = NoTask /\ migrating # NoTask
  <2>1. migrating \in Tasks
    BY <1>5 DEF Walking, Sections
  <2>2. Within(todo(migrating), Migration, {"migrated"})
    BY <2>1 DEF Walking, Sections
  <2>3. todo(migrating) # <<>> /\ todo(migrating)[1] \in Migration \cup {"migrated"}
    BY <2>1, <2>2, WithinHead DEF Walking, Paths, Path
  <2>4. loc[migrating] # Idle
    BY <2>3 DEF todo, Idle
  <2>5. \A step : At(migrating, step) => step \in Migration \cup {"migrated"}
    BY <2>1, <2>3, AtHead DEF Walking
  <2>6. ~Stalled(migrating)
    BY <1>5, <2>5 DEF Stalled, Waiting, Migration, Mid, Releases
  <2> QED BY <2>1, <2>4, <2>6
<1>6. CASE /\ ~(Cardinality(bucket) >= Permits) /\ owner = NoTask /\ migrating = NoTask
           /\ rebuilder # NoTask
  <2>1. rebuilder \in Tasks
    BY <1>6 DEF Walking, Sections
  <2>2. Within(todo(rebuilder), Rebuilding, {"rebuilt"})
    BY <2>1 DEF Walking, Sections
  <2>3. loc[rebuilder] # Idle /\ ~Stalled(rebuilder)
    BY <1>2, <1>6, <2>1, <2>2 DEF Stalled, Waiting
  <2> QED BY <2>1, <2>3
<1>7. CASE /\ ~(Cardinality(bucket) >= Permits) /\ owner = NoTask /\ migrating = NoTask
           /\ rebuilder = NoTask
  <2>1. \E found \in BOOLEAN : Detected(found)
    <3>1. CASE cache # 0
      BY <1>7, <3>1 DEF Detected
    <3>2. CASE cache = 0
      <4>1. Detected(rows # <<>>)
        BY <1>1, <1>7, <3>2 DEF Detected
      <4> QED BY <4>1
    <3> QED BY <3>1, <3>2
  <2>2. \A t \in Tasks : ~Stalled(t)
    BY <1>7, <2>1 DEF Stalled, Waiting
  <2> QED BY <2>2
<1> QED BY <1>3, <1>4, <1>5, <1>6, <1>7

(* However many requests run and however many may hold the bucket, the handlers
   do not wait for each other in a circle: of those that have begun, one is not
   waiting. *)
THEOREM SomeRequestGoesOn == Spec => []NoneStuck
<1>1. Walking => NoneStuck
  BY SomeGoesOn
<1> QED BY <1>1, LocksAreReturned, PTL

-----------------------------------------------------------------------------
(* A workspace is rebuilt once. *)

LEMMA NextMarks ==
  ASSUME Walking, RebuiltMarked, [Next]_vars PROVE RebuiltMarked'
<1>1. CASE UNCHANGED <<rebuilt, rebuilder, rebuilds>>
  BY <1>1 DEF RebuiltMarked
<1>2. CASE Crash
  BY <1>2 DEF Crash, RebuiltMarked
<1>3. CASE \E t \in Tasks : Forget(t)
  BY <1>3 DEF Forget, RebuiltMarked
<1>4. CASE \E t \in Tasks : Mark(t)
  BY <1>4 DEF Mark, RebuiltMarked
<1>5. CASE \E t \in Tasks : Rebuild(t)
  BY <1>5 DEF Rebuild, RebuiltMarked
<1>6. CASE \E t \in Tasks : RebuildDone(t)
  <2>1. PICK t \in Tasks : RebuildDone(t)
    BY <1>6
  <2>2. todo(t) # <<>> /\ todo(t) \in Seq(Step) /\ todo(t)[1] = "rebuilt"
    BY <2>1, AtHead DEF RebuildDone, Walking
  <2>3. Rebuilds(todo(t))
    <3>1. 1 \in 1..Len(todo(t))
      BY <2>2
    <3> QED BY <2>2, <3>1 DEF Rebuilds
  <2>4. rebuilder = t /\ t # NoTask
    BY <2>3, NoTaskIsNone DEF Walking, Sections
  <2>5. rebuilds = 0
    BY <2>4 DEF RebuiltMarked
  <2> QED BY <2>1, <2>5 DEF RebuildDone, RebuiltMarked
<1>7. ASSUME NEW t \in Tasks, Request(t) \/ Answer(t) \/ ServerStep(t)
      PROVE  \/ UNCHANGED <<rebuilt, rebuilder, rebuilds>>
             \/ Forget(t) \/ Mark(t) \/ Rebuild(t) \/ RebuildDone(t)
  <2>1. CASE Request(t)
    BY <2>1 DEF Request, Begin
  <2>2. CASE Answer(t)
    BY <2>2 DEF Answer, keckVars
  <2>3. CASE Pass(t) \/ Forced(t) \/ Put(t) \/ Persist(t)
    BY <2>3 DEF Pass, Forced, Put, Persist, keckVars
  <2>4. CASE Ack(t)
    BY <2>4 DEF Ack
  <2>5. CASE Reopen(t, "look", <<>>) \/ Reopen(t, "open", <<"import">>)
    BY <2>5 DEF Reopen, keckVars
  <2>6. CASE \/ Normalize(t, "normalize", <<"rebuild">>)
             \/ Normalize(t, "import", full_migrate \o <<"mark">>)
    BY <2>6 DEF Normalize, keckVars
  <2>7. CASE StorageStep(t) /\ UNCHANGED <<rebuilt, rebuilder, count, acked, rebuilds>>
    BY <2>7
  <2> QED BY <1>7, <2>1, <2>2, <2>3, <2>4, <2>5, <2>6, <2>7 DEF ServerStep
<1>8. CASE UNCHANGED vars
  BY <1>1, <1>8 DEF vars, keckVars
<1> QED BY <1>1, <1>2, <1>3, <1>4, <1>5, <1>6, <1>7, <1>8, NextIs

(* Whoever asks at the same time, a workspace of plain maps is rebuilt once until
   it is forgotten (persist_plain_yjs_rebuild_once). *)
THEOREM RebuildIsOnce == Spec => []RebuiltOnce
<1>1. Init => RebuiltMarked
  BY DEF Init, RebuiltMarked
<1>2. Walking /\ RebuiltMarked /\ [Next]_vars => RebuiltMarked'
  BY NextMarks
<1>3. RebuiltMarked => RebuiltOnce
  BY DEF RebuiltMarked, RebuiltOnce
<1> QED BY <1>1, <1>2, <1>3, LocksAreReturned, PTL DEF Spec

-----------------------------------------------------------------------------
(* The rows of the table. *)

\* The rows are a sequence, and begin as one row of the workspace or none.
IsRows(rs) == rs \in Seq({rs[i] : i \in 1..Len(rs)})

LEMMA RowAdded ==
  ASSUME IsRows(rows), NEW rs, NEW ops, NEW main, rs = Append(rows, Row(ops, main))
  PROVE  /\ IsRows(rs) /\ rs # <<>>
         /\ Contents(rs) = Contents(rows) \cup ops
         /\ (\A i \in DOMAIN rows : rows[i].main = TRUE) /\ main = TRUE =>
              \A i \in DOMAIN rs : rs[i].main = TRUE
<1>1. Len(rows) \in Nat /\ DOMAIN rows = 1..Len(rows)
  BY DEF IsRows
<1>2. /\ Len(rs) = Len(rows) + 1 /\ DOMAIN rs = 1..Len(rs)
      /\ \A i \in 1..Len(rows) : rs[i] = rows[i]
      /\ rs[Len(rs)] = Row(ops, main)
  <2>1. rows \in Seq({rows[i] : i \in 1..Len(rows)} \cup {Row(ops, main)})
    BY DEF IsRows
  <2> QED BY <2>1
<1>3. IsRows(rs)
  <2> PICK S : S = {rs[i] : i \in 1..Len(rs)}
    OBVIOUS
  <2>1. rows \in Seq(S)
    <3>1. \A i \in 1..Len(rows) : i \in 1..Len(rs) /\ rows[i] = rs[i]
      BY <1>1, <1>2
    <3>2. {rows[i] : i \in 1..Len(rows)} \subseteq {rs[i] : i \in 1..Len(rs)}
      BY <3>1
    <3> QED BY <3>2 DEF IsRows
  <2>2. Row(ops, main) \in S
    BY <1>1, <1>2
  <2>3. rs \in Seq(S)
    BY <2>1, <2>2
  <2> QED BY <2>3 DEF IsRows
<1>4. rs # <<>>
  BY <1>1, <1>2
<1>5. Row(ops, main).ops = ops /\ Row(ops, main).main = main
  BY DEF Row
<1>6. Contents(rs) = Contents(rows) \cup ops
  <2>1. \A i \in DOMAIN rs : i = Len(rs) \/ i \in DOMAIN rows
    BY <1>1, <1>2
  <2>2. Len(rs) \in DOMAIN rs /\ \A i \in DOMAIN rows : i \in DOMAIN rs
    BY <1>1, <1>2
  <2> QED BY <1>1, <1>2, <1>5, <2>1, <2>2 DEF Contents
<1>7. ASSUME \A i \in DOMAIN rows : rows[i].main = TRUE, main = TRUE, NEW i \in DOMAIN rs
      PROVE  rs[i].main = TRUE
  <2>1. CASE i \in DOMAIN rows
    BY <1>1, <1>2, <1>7, <2>1
  <2>2. CASE i = Len(rs)
    BY <1>2, <1>5, <1>7, <2>2
  <2>3. i \in DOMAIN rows \/ i = Len(rs)
    BY <1>1, <1>2
  <2> QED BY <2>1, <2>2, <2>3
<1> QED BY <1>3, <1>4, <1>6, <1>7

LEMMA NoRows ==
  IsRows(<<>>) /\ Contents(<<>>) = {} /\ \A i \in DOMAIN <<>> : <<>>[i].main = TRUE
BY DEF IsRows, Contents

\* At most one, of a finite set that has no more.
LEMMA OneAtMost ==
  ASSUME NEW S, IsFiniteSet(S), ~(Cardinality(S) > 1), NEW x \in S, NEW y \in S
  PROVE  x = y
<1> SUFFICES ASSUME x # y PROVE FALSE
  OBVIOUS
<1>1. Cardinality(S) \in Nat /\ IsFiniteSet(S \ {x}) /\ Cardinality(S \ {x}) = Cardinality(S) - 1
  BY FS_CardinalityType, FS_RemoveElement
<1>2. Cardinality(S \ {x}) \in Nat
  BY <1>1, FS_CardinalityType
<1>3. Cardinality(S \ {x}) = 0
  BY <1>1, <1>2
<1>4. S \ {x} = {}
  BY <1>1, <1>3, FS_EmptySet
<1> QED BY <1>4

\* No more tasks hold the bucket than may.
Bounded == Cardinality(bucket) <= Permits

LEMMA NextBounded ==
  ASSUME Walking, Bounded, [Next]_vars PROVE Bounded'
<1>1. Cardinality(bucket) \in Nat /\ IsFiniteSet(bucket) /\ Permits \in Nat
  BY BucketIsFinite, StorageAssumption
<1>2. CASE UNCHANGED bucket
  BY <1>2 DEF Bounded
<1>3. CASE \E t \in Tasks : ServerStep(t) /\ ~Answer(t)
  <2>1. PICK t \in Tasks : ServerStep(t) /\ ~Answer(t)
    BY <1>3
  <2>2. LockStep(t)
    BY <2>1, StepEffect DEF Effect
  <2>3. CASE todo(t)[1] = "lock"
    <3>1. Cardinality(bucket \cup {t}) <= Cardinality(bucket) + 1
      BY <1>1, FS_AddElement
    <3>2. Cardinality(bucket \cup {t}) \in Nat
      BY <1>1, FS_AddElement, FS_CardinalityType
    <3> QED BY <1>1, <2>2, <2>3, <3>1, <3>2 DEF LockStep, Bounded
  <2>4. CASE todo(t)[1] # "lock"
    <3>1. bucket' \subseteq bucket
      BY <2>2, <2>4 DEF LockStep
    <3>2. Cardinality(bucket') <= Cardinality(bucket) /\ Cardinality(bucket') \in Nat
      BY <1>1, <3>1, FS_Subset, FS_CardinalityType
    <3> QED BY <1>1, <3>2 DEF Bounded
  <2> QED BY <2>3, <2>4
<1>4. CASE Crash
  <2>1. bucket' = {}
    BY <1>4 DEF Crash
  <2> QED BY <1>1, <2>1, FS_EmptySet DEF Bounded
<1>5. CASE \E t \in Tasks : Request(t) \/ Answer(t)
  BY <1>2, <1>5, RequestRestarts, AnswerRestarts DEF Restarts, locks
<1>6. CASE UNCHANGED vars
  BY <1>2, <1>6 DEF vars, storageVars
<1> QED BY <1>3, <1>4, <1>5, <1>6, NextIs

\* A step changes what its own task is at.
LEMMA MovedAt ==
  ASSUME NEW t \in Tasks, Walking, NEW m, Moves(t, m)
  PROVE  /\ \A step : \A u \in Tasks \ {t} : At(u, step)' <=> At(u, step)
         /\ \A step : At(t, step)' <=> loc'[t].todo # <<>> /\ loc'[t].todo[1] = step
         /\ \A step : At(t, step) <=> todo(t)[1] = step
         /\ todo(t) # <<>> /\ Path(todo(t)) /\ Follows(loc'[t].todo, todo(t), m)
<1>1. \A step : \A u \in Tasks \ {t} : At(u, step)' <=> At(u, step)
  BY DEF Moves, At
<1>2. /\ todo(t) # <<>> /\ Path(todo(t)) /\ Follows(loc'[t].todo, todo(t), m)
      /\ todo(t) \in Seq(Step) /\ loc'[t].todo \in Seq(Step)
  BY ThenPath DEF Moves, Walking, Paths, Path
<1>3. \A step : At(t, step)' <=> loc'[t].todo # <<>> /\ loc'[t].todo[1] = step
  BY <1>2 DEF At
<1>4. \A step : At(t, step) <=> todo(t)[1] = step
  BY <1>2 DEF At, todo
<1> QED BY <1>1, <1>2, <1>3, <1>4

LEMMA RestartAt ==
  ASSUME NEW t \in Tasks, Walking, Restarts(t)
  PROVE  /\ \A step : \A u \in Tasks \ {t} : At(u, step)' <=> At(u, step)
         /\ \A step \in Mid \cup Releases \cup {"full"} : ~At(t, step) /\ ~At(t, step)'
<1>1. \A step : \A u \in Tasks \ {t} : At(u, step)' <=> At(u, step)
  BY RestartWalks DEF At
<1>2. loc'[t].todo \in Seq(Step)
  BY DEF Restarts, Path
<1>3. \A step \in Mid \cup Releases \cup {"full"} : step \notin Starts /\ step \in Rebuilding
  BY DEF Rebuilding, Migration, Mid, Releases, Starts
<1>4. \A step \in Mid \cup Releases \cup {"full"} : ~At(t, step)'
  BY <1>2, <1>3 DEF Restarts, At
<1> QED BY <1>1, <1>3, <1>4 DEF Restarts

\* overlap is set as soon as two tasks replace rows.
LEMMA OneReplaces ==
  ASSUME overlap' = (overlap \/ Cardinality(Replacing') > 1), overlap' # TRUE
  PROVE  overlap # TRUE /\ \A s, t \in Replacing' : s = t
<1>1. IsFiniteSet(Replacing')
  <2>1. Replacing' \subseteq Tasks
    BY DEF Replacing
  <2> QED BY <2>1, StorageAssumption, FS_Subset
<1>2. ~(Cardinality(Replacing') > 1)
  OBVIOUS
<1> QED BY <1>1, <1>2, OneAtMost

LEMMA ReplacingIs ==
  ASSUME NEW t \in Tasks,
         \E step \in {"is_workspace", "clear", "merged", "full", "drop"} : At(t, step)
  PROVE  t \in Replacing
BY DEF Replacing

\* Two that hold the only permit of the bucket are one.
LEMMA OneHolds ==
  ASSUME Permits = 1, Walking, Bounded, NEW s \in Tasks, NEW t \in Tasks,
         Holding(todo(s)), Holding(todo(t))
  PROVE  s = t
<1>1. s \in bucket /\ t \in bucket
  BY DEF Walking, Sections
<1>2. ~(Cardinality(bucket) > 1) /\ IsFiniteSet(bucket)
  BY BucketIsFinite DEF Bounded
<1> QED BY <1>1, <1>2, OneAtMost

Rows == IsRows(rows)

\* The rows after a step: none, the same, or one more.
LEMMA RowsAfter ==
  ASSUME Rows, NEW t \in Tasks, RowStep(t)
  PROVE  /\ Rows'
         /\ rows' = <<>> => todo(t)[1] \in {"clear", "drop"} \/ rows' = rows
         /\ todo(t)[1] \in {"merged", "full", "insert", "insert_empty"} => rows' # <<>>
<1>1. CASE todo(t)[1] \in {"clear", "drop"}
  BY <1>1, NoRows DEF RowStep, Rows
<1>2. CASE todo(t)[1] = "merged"
  BY <1>2, RowAdded DEF RowStep, Rows
<1>3. CASE todo(t)[1] = "full"
  BY <1>3, RowAdded DEF RowStep, Rows
<1>4. CASE todo(t)[1] = "insert"
  BY <1>4, RowAdded DEF RowStep, Rows
<1>5. CASE todo(t)[1] = "insert_empty"
  BY <1>5, RowAdded DEF RowStep, Rows
<1>6. CASE todo(t)[1] \notin {"clear", "drop", "merged", "full", "insert", "insert_empty"}
  BY <1>6 DEF RowStep, Rows
<1> QED BY <1>1, <1>2, <1>3, <1>4, <1>5, <1>6

LEMMA EffectCalm ==
  ASSUME Permits = 1, Walking, Bounded, Rows, Calm, NEW t \in Tasks, NEW m, Effect(t, m),
         overlap' = (overlap \/ Cardinality(Replacing') > 1)
  PROVE  Calm'
<1> SUFFICES ASSUME overlap' # TRUE
             PROVE  /\ \A s, u \in Replacing' : s = u
                    /\ \A i \in DOMAIN rows' : rows'[i].main = TRUE
                    /\ \A u \in Tasks :
                         /\ At(u, "is_workspace")' => rows' # <<>>
                         /\ At(u, "clear")' \/ At(u, "merged")' \/ At(u, "full")' =>
                              loc'[u].main = TRUE
                         /\ At(u, "doc_all")' /\ rows' = <<>> =>
                              \E s \in Tasks : At(s, "merged")' \/ At(s, "full")'
  BY DEF Calm
<1> DEFINE h == todo(t)[1]  n == loc'[t].todo
<1>1. /\ overlap # TRUE /\ \A s, u \in Replacing' : s = u
  BY OneReplaces
<1>2. /\ \A s, u \in Replacing : s = u
      /\ \A i \in DOMAIN rows : rows[i].main = TRUE
      /\ \A u \in Tasks :
           /\ At(u, "is_workspace") => rows # <<>>
           /\ At(u, "clear") \/ At(u, "merged") \/ At(u, "full") => loc[u].main = TRUE
           /\ At(u, "doc_all") /\ rows = <<>> => \E s \in Tasks : At(s, "merged") \/ At(s, "full")
  BY <1>1 DEF Calm
<1>3. Moves(t, m) /\ LockStep(t) /\ RowStep(t) /\ DataStep(t)
  BY DEF Effect
<1>4. /\ \A step : \A u \in Tasks \ {t} : At(u, step)' <=> At(u, step)
      /\ \A step : At(t, step)' <=> n # <<>> /\ n[1] = step
      /\ \A step : At(t, step) <=> h = step
      /\ todo(t) # <<>> /\ Path(todo(t)) /\ Follows(n, todo(t), m)
  BY <1>3, MovedAt
<1>5. \A u \in Tasks \ {t} : loc'[u] = loc[u]
  BY <1>3 DEF Moves
<1>6. /\ rows' = <<>> => h \in {"clear", "drop"} \/ rows' = rows
      /\ h \in {"merged", "full", "insert", "insert_empty"} => rows' # <<>>
  BY <1>3, RowsAfter
<1>7. \A i \in DOMAIN rows' : rows'[i].main = TRUE
  <2>1. CASE h \in {"clear", "drop"}
    BY <1>3, <2>1, NoRows DEF RowStep
  <2>2. CASE h = "merged"
    BY <1>2, <1>3, <1>4, <2>2, RowAdded DEF RowStep, Rows
  <2>3. CASE h = "full"
    BY <1>2, <1>3, <1>4, <2>3, RowAdded DEF RowStep, Rows
  <2>4. CASE h = "insert"
    BY <1>2, <1>3, <2>4, RowAdded DEF RowStep, Rows
  <2>5. CASE h = "insert_empty"
    BY <1>2, <1>3, <2>5, RowAdded DEF RowStep, Rows
  <2>6. CASE h \notin {"clear", "drop", "merged", "full", "insert", "insert_empty"}
    BY <1>2, <1>3, <2>6 DEF RowStep
  <2> QED BY <2>1, <2>2, <2>3, <2>4, <2>5, <2>6
<1>8. ASSUME n # <<>>
      PROVE  /\ n[1] = "clear" => h = "is_workspace"
             /\ n[1] \in {"merged", "full"} => h = "clear"
             /\ h = "clear" => n[1] \in {"merged", "full"}
             /\ n[1] = "is_workspace" => h \in {"load", "doc_all", "insert_empty", "merged"}
             /\ n[1] = "doc_all" => h = "count"
  BY <1>4, <1>8, NextHead
<1> HIDE DEF n, h
<1>9. ASSUME NEW u \in Tasks, At(u, "is_workspace")' PROVE rows' # <<>>
  <2>1. CASE u = t
    <3>1. n # <<>> /\ n[1] = "is_workspace"
      BY <1>4, <1>9, <2>1
    <3>2. h \in {"load", "doc_all", "insert_empty", "merged"}
      BY <1>8, <3>1
    <3>3. CASE h = "load"
      <4>1. MainRows # {}
        BY <1>3, <3>1, <3>3 DEF DataStep, n, h
      <4>2. rows # <<>>
        BY <4>1 DEF MainRows
      <4> QED BY <1>6, <3>3, <4>2
    <3>4. CASE h = "doc_all"
      <4>1. SUFFICES ASSUME rows = <<>> PROVE FALSE
        BY <1>6, <3>4
      <4>2. PICK s \in Tasks : At(s, "merged") \/ At(s, "full")
        BY <1>2, <1>4, <3>4, <4>1
      <4>3. s # t
        BY <1>4, <3>4, <4>2
      <4>4. At(s, "merged")' \/ At(s, "full")'
        BY <1>4, <4>2, <4>3
      <4>5. s \in Replacing' /\ t \in Replacing'
        BY <1>4, <3>1, <4>4 DEF Replacing
      <4> QED BY <1>1, <4>3, <4>5
    <3>5. CASE h \in {"insert_empty", "merged"}
      BY <1>6, <3>5
    <3> QED BY <3>2, <3>3, <3>4, <3>5
  <2>2. CASE u # t
    <3>1. At(u, "is_workspace")
      BY <1>4, <1>9, <2>2
    <3>2. h \notin {"clear", "drop"}
      <4>1. u \in Replacing
        BY <3>1, ReplacingIs
      <4>2. h \in {"clear", "drop"} => t \in Replacing
        BY <1>4, ReplacingIs
      <4> QED BY <1>2, <2>2, <4>1, <4>2
    <3> QED BY <1>2, <1>6, <3>1, <3>2
  <2> QED BY <2>1, <2>2
<1>10. ASSUME NEW u \in Tasks, At(u, "clear")' \/ At(u, "merged")' \/ At(u, "full")'
       PROVE  loc'[u].main = TRUE
  <2>1. CASE u = t
    <3>1. n # <<>> /\ n[1] \in {"clear", "merged", "full"}
      BY <1>4, <1>10, <2>1
    <3>2. CASE n[1] = "clear"
      <4>1. h = "is_workspace"
        BY <1>8, <3>1, <3>2
      <4>2. rows # <<>>
        BY <1>2, <1>4, <4>1
      <4>3. \E i \in DOMAIN rows : loc'[t].main = rows[i].main
        BY <1>3, <3>1, <4>1, <4>2 DEF DataStep, n, h
      <4> QED BY <1>2, <2>1, <4>3
    <3>3. CASE n[1] \in {"merged", "full"}
      <4>1. h = "clear"
        BY <1>8, <3>1, <3>3
      <4>2. loc'[t].main = loc[t].main
        BY <1>3, <3>1, <4>1 DEF DataStep, n, h
      <4> QED BY <1>2, <1>4, <2>1, <4>1, <4>2
    <3> QED BY <3>1, <3>2, <3>3
  <2>2. CASE u # t
    BY <1>2, <1>4, <1>5, <1>10, <2>2
  <2> QED BY <2>1, <2>2
<1>11. ASSUME NEW u \in Tasks, At(u, "doc_all")', rows' = <<>>
       PROVE  \E s \in Tasks : At(s, "merged")' \/ At(s, "full")'
  <2>1. u # t
    <3> SUFFICES ASSUME u = t PROVE FALSE
      OBVIOUS
    <3>1. n # <<>> /\ n[1] = "doc_all"
      BY <1>4, <1>11
    <3>2. h = "count"
      BY <1>8, <3>1
    <3>3. Len(rows) >= TrimLimit /\ rows' = rows
      BY <1>3, <3>1, <3>2 DEF DataStep, RowStep, n, h
    <3>4. Len(rows) = 0
      BY <1>11, <3>3
    <3> QED BY <3>3, <3>4, StorageAssumption
  <2>2. At(u, "doc_all")
    BY <1>4, <1>11, <2>1
  <2>3. CASE h = "clear"
    <3>1. n # <<>>
      BY <1>4, <2>3, ClearGoesOn DEF h
    <3>2. n[1] \in {"merged", "full"}
      BY <1>8, <2>3, <3>1
    <3> QED BY <1>4, <3>1, <3>2
  <2>4. CASE h = "drop"
    <3>1. Holding(todo(t))
      <4>1. "drop" \in Releases
        BY DEF Releases
      <4> QED BY <1>4, <2>4, <4>1, HoldingFollows DEF h
    <3>2. Holding(todo(u))
      <4>1. "doc_all" \in Mid
        BY DEF Mid
      <4>2. todo(u) # <<>> /\ todo(u)[1] = "doc_all" /\ Path(todo(u))
        BY <2>2, AtHead DEF Walking
      <4> QED BY <4>1, <4>2, MergesHold
    <3> QED BY <2>1, <3>1, <3>2, OneHolds
  <2>5. CASE h \notin {"clear", "drop"}
    <3>1. rows = <<>> /\ h \notin {"merged", "full"}
      BY <1>6, <1>11, <2>5
    <3>2. PICK s \in Tasks : At(s, "merged") \/ At(s, "full")
      BY <1>2, <2>2, <3>1
    <3>3. s # t
      BY <1>4, <3>1, <3>2
    <3> QED BY <1>4, <3>2, <3>3
  <2> QED BY <2>3, <2>4, <2>5
<1> QED BY <1>1, <1>7, <1>9, <1>10, <1>11

\* A request that begins or ends touches no row.
LEMMA RestartCalm ==
  ASSUME Walking, Calm, NEW t \in Tasks, Restarts(t),
         overlap' = (overlap \/ Cardinality(Replacing') > 1)
  PROVE  Calm'
<1> SUFFICES ASSUME overlap' # TRUE
             PROVE  /\ \A s, u \in Replacing' : s = u
                    /\ \A i \in DOMAIN rows' : rows'[i].main = TRUE
                    /\ \A u \in Tasks :
                         /\ At(u, "is_workspace")' => rows' # <<>>
                         /\ At(u, "clear")' \/ At(u, "merged")' \/ At(u, "full")' =>
                              loc'[u].main = TRUE
                         /\ At(u, "doc_all")' /\ rows' = <<>> =>
                              \E s \in Tasks : At(s, "merged")' \/ At(s, "full")'
  BY DEF Calm
<1>1. overlap # TRUE /\ \A s, u \in Replacing' : s = u
  BY OneReplaces
<1>2. /\ \A i \in DOMAIN rows : rows[i].main = TRUE
      /\ \A u \in Tasks :
           /\ At(u, "is_workspace") => rows # <<>>
           /\ At(u, "clear") \/ At(u, "merged") \/ At(u, "full") => loc[u].main = TRUE
           /\ At(u, "doc_all") /\ rows = <<>> => \E s \in Tasks : At(s, "merged") \/ At(s, "full")
  BY <1>1 DEF Calm
<1>3. rows' = rows /\ \A u \in Tasks \ {t} : loc'[u] = loc[u]
  BY RestartWalks DEF Restarts
<1>4. /\ \A step : \A u \in Tasks \ {t} : At(u, step)' <=> At(u, step)
      /\ \A step \in {"is_workspace", "clear", "merged", "full", "doc_all"} :
           ~At(t, step) /\ ~At(t, step)'
  BY RestartAt DEF Mid, Releases
<1>5. ASSUME NEW u \in Tasks
      PROVE  /\ At(u, "is_workspace")' => rows' # <<>>
             /\ At(u, "clear")' \/ At(u, "merged")' \/ At(u, "full")' => loc'[u].main = TRUE
             /\ At(u, "doc_all")' /\ rows' = <<>> =>
                  \E s \in Tasks : At(s, "merged")' \/ At(s, "full")'
  <2>1. CASE u = t
    BY <1>4, <2>1
  <2>2. CASE u # t
    <3>1. ASSUME At(u, "doc_all")', rows' = <<>>
          PROVE  \E s \in Tasks : At(s, "merged")' \/ At(s, "full")'
      <4>1. PICK s \in Tasks : At(s, "merged") \/ At(s, "full")
        BY <1>2, <1>3, <1>4, <2>2, <3>1
      <4>2. s # t
        BY <1>4, <4>1
      <4> QED BY <1>4, <4>1, <4>2
    <3> QED BY <1>2, <1>3, <1>4, <2>2, <3>1
  <2> QED BY <2>1, <2>2
<1> QED BY <1>1, <1>2, <1>3, <1>5

LEMMA NextRows ==
  ASSUME Walking, Rows, [Next]_vars PROVE Rows'
<1>1. CASE rows' = rows
  BY <1>1 DEF Rows
<1>2. CASE \E t \in Tasks : ServerStep(t) /\ ~Answer(t)
  BY <1>2, StepEffect, RowsAfter DEF Effect
<1>3. CASE \E t \in Tasks : Request(t) \/ Answer(t)
  BY <1>1, <1>3, RequestRestarts, AnswerRestarts DEF Restarts
<1>4. CASE Crash
  BY <1>1, <1>4 DEF Crash
<1>5. CASE UNCHANGED vars
  BY <1>1, <1>5 DEF vars, storageVars
<1> QED BY <1>2, <1>3, <1>4, <1>5, NextIs

\* A step of the server is a restart of one task, an effect, or a crash.
LEMMA NextSteps ==
  ASSUME Walking, [Next]_vars
  PROVE  \/ /\ \E t \in Tasks : Restarts(t) \/ \E m : Effect(t, m)
            /\ overlap' = (overlap \/ Cardinality(Replacing') > 1)
         \/ Crash /\ overlap' = overlap
         \/ UNCHANGED vars
<1>1. CASE Crash /\ UNCHANGED overlap
  BY <1>1
<1>2. CASE UNCHANGED vars
  BY <1>2
<1>3. CASE /\ \E t \in Tasks : Request(t) \/ ServerStep(t)
           /\ overlap' = (overlap \/ Cardinality(Replacing') > 1)
  <2>1. PICK t \in Tasks : Request(t) \/ ServerStep(t)
    BY <1>3
  <2>2. Restarts(t) \/ \E m : Effect(t, m)
    BY <2>1, RequestRestarts, AnswerRestarts, StepEffect
  <2> QED BY <1>3, <2>2
<1> QED BY <1>1, <1>2, <1>3 DEF Next

LEMMA NextCalm ==
  ASSUME Permits = 1, Walking, Bounded, Rows, Calm, [Next]_vars PROVE Calm'
<1>1. CASE /\ \E t \in Tasks : Restarts(t) \/ \E m : Effect(t, m)
           /\ overlap' = (overlap \/ Cardinality(Replacing') > 1)
  BY <1>1, RestartCalm, EffectCalm
<1>2. CASE Crash /\ overlap' = overlap
  <2>1. /\ \A step : \A t \in Tasks : ~At(t, step)'
        /\ rows' = rows
    <3>1. \A t \in Tasks : loc'[t] = Idle
      BY <1>2, CrashIsIdle
    <3> QED BY <1>2, <3>1 DEF At, Idle, Crash
  <2>2. Replacing' = {}
    BY <2>1 DEF Replacing
  <2> QED BY <1>2, <2>1, <2>2 DEF Calm
<1>3. CASE UNCHANGED vars
  BY <1>3 DEF vars, storageVars, Calm, Replacing, At
<1> QED BY <1>1, <1>2, <1>3, NextSteps

LEMMA InitCalm == ASSUME Init PROVE Bounded /\ Rows /\ Calm
<1>1. bucket = {} /\ loc = [t \in Tasks |-> Idle]
  BY DEF Init, StorageInit
<1>2. Bounded
  BY <1>1, FS_EmptySet, StorageAssumption DEF Bounded
<1>3. \A step : \A t \in Tasks : ~At(t, step)
  BY <1>1 DEF At, Idle
<1>4. Replacing = {}
  BY <1>3 DEF Replacing
<1>5. rows = <<>> \/ \E ops : rows = <<Row(ops, TRUE)>>
  BY DEF Init
<1>6. Rows /\ \A i \in DOMAIN rows : rows[i].main = TRUE
  <2>1. CASE rows = <<>>
    BY <2>1, NoRows DEF Rows
  <2>2. CASE \E ops : rows = <<Row(ops, TRUE)>>
    <3>1. PICK ops : rows = <<Row(ops, TRUE)>>
      BY <2>2
    <3>2. PICK r : r = Row(ops, TRUE)
      OBVIOUS
    <3>3. Len(rows) = 1 /\ DOMAIN rows = {1} /\ rows[1] = r /\ rows \in Seq({r})
      BY <3>1, <3>2
    <3>4. {rows[i] : i \in 1..Len(rows)} = {r}
      <4>1. 1..Len(rows) = {1}
        BY <3>3
      <4> QED BY <3>3, <4>1
    <3>5. IsRows(rows)
      BY <3>3, <3>4 DEF IsRows
    <3>6. r.main = TRUE
      BY <3>2 DEF Row
    <3> QED BY <3>3, <3>5, <3>6 DEF Rows
  <2> QED BY <1>5, <2>1, <2>2
<1> QED BY <1>2, <1>3, <1>4, <1>6 DEF Calm

CalmInv == Walking /\ Bounded /\ Rows /\ Calm

(* With one permit of the bucket, as for SQLite: unless two replacements of the
   rows overlapped, every row of the workspace is one that init_workspace finds. *)
THEOREM RowsStayFound ==
  ASSUME Permits = 1 PROVE Spec => []RowsAreFound
<1>1. Init => CalmInv
  BY InitWalks, InitCalm DEF CalmInv
<1>2. CalmInv /\ [Next]_vars => CalmInv'
  BY NextWalks, NextBounded, NextRows, NextCalm DEF CalmInv
<1>3. CalmInv => RowsAreFound
  BY DEF CalmInv, Calm, RowsAreFound
<1> QED BY <1>1, <1>2, <1>3, PTL DEF Spec

-----------------------------------------------------------------------------
(* What a merge deletes it holds. *)

LEMMA AheadIs ==
  ASSUME NEW t \in Tasks, todo(t) \in Seq(Step), NEW step
  PROVE  Ahead(t, step) <=> \E i \in 1..Len(todo(t)) : todo(t)[i] = step
BY DEF Ahead, todo

LEMMA EffectMergeHolds ==
  ASSUME Permits = 1, Walking, Bounded, Rows, Calm, MergeHolds, NEW t \in Tasks, NEW m,
         Effect(t, m), overlap' = (overlap \/ Cardinality(Replacing') > 1)
  PROVE  MergeHolds'
<1> SUFFICES ASSUME overlap' # TRUE, NEW u \in Tasks,
                    At(u, "is_workspace")' \/ At(u, "clear")', ~Ahead(u, "full")'
             PROVE  Contents(rows') \subseteq loc'[u].data
  BY DEF MergeHolds
<1> DEFINE h == todo(t)[1]  n == loc'[t].todo
<1>1. overlap # TRUE
  BY OneReplaces
<1>2. /\ \A s, v \in Replacing : s = v
      /\ \A i \in DOMAIN rows : rows[i].main = TRUE
      /\ (At(u, "is_workspace") \/ At(u, "clear")) /\ ~Ahead(u, "full") =>
           Contents(rows) \subseteq loc[u].data
  BY <1>1 DEF Calm, MergeHolds
<1>3. Moves(t, m) /\ RowStep(t) /\ DataStep(t)
  BY DEF Effect
<1>4. /\ \A step : \A v \in Tasks \ {t} : At(v, step)' <=> At(v, step)
      /\ \A step : At(t, step)' <=> n # <<>> /\ n[1] = step
      /\ \A step : At(t, step) <=> h = step
      /\ todo(t) # <<>> /\ Path(todo(t)) /\ Follows(n, todo(t), m)
  BY <1>3, MovedAt
<1>5. todo(t) \in Seq(Step) /\ n \in Seq(Step)
  BY <1>4, ThenPath DEF Path
<1>6. CASE u = t
  <2>1. n # <<>> /\ n[1] \in {"is_workspace", "clear"}
    BY <1>4, <1>6
  <2>2. ~\E i \in 1..Len(n) : n[i] = "full"
    BY <1>5, <1>6 DEF Ahead
  <2>3. /\ n[1] = "clear" => h = "is_workspace"
        /\ n[1] = "is_workspace" => h \in {"load", "doc_all", "insert_empty", "merged"}
        /\ n[1] = "is_workspace" /\ h \in {"insert_empty", "merged"} =>
             \E i \in 1..Len(n) : n[i] = "full"
    BY <1>4, <2>1, NextHead
  <2> HIDE DEF n, h
  <2>4. CASE n[1] = "clear"
    <3>1. h = "is_workspace"
      BY <2>3, <2>4
    <3>2. rows' = rows /\ loc'[t].data = loc[t].data
      BY <1>3, <2>1, <3>1 DEF RowStep, DataStep, n, h
    <3>3. ~Ahead(t, "full")
      <4> SUFFICES ASSUME Ahead(t, "full") PROVE FALSE
        OBVIOUS
      <4>1. \E i \in 1..Len(todo(t)) : todo(t)[i] = "full"
        BY <1>5, AheadIs
      <4>2. todo(t)[1] # "full"
        BY <3>1 DEF h
      <4> QED BY <1>4, <1>5, <2>2, <4>1, <4>2, AheadFollows
    <3> QED BY <1>2, <1>4, <1>6, <3>1, <3>2, <3>3
  <2>5. CASE n[1] = "is_workspace" /\ h = "load"
    <3>1. rows' = rows /\ loc'[t].data = UNION {rows[i].ops : i \in MainRows}
      BY <1>3, <2>1, <2>5 DEF RowStep, DataStep, n, h
    <3>2. MainRows = DOMAIN rows
      BY <1>2 DEF MainRows
    <3> QED BY <1>6, <3>1, <3>2 DEF Contents
  <2>6. CASE n[1] = "is_workspace" /\ h = "doc_all"
    <3>1. rows' = rows /\ loc'[t].data = Contents(rows)
      BY <1>3, <2>1, <2>6 DEF RowStep, DataStep, n, h
    <3> QED BY <1>6, <3>1
  <2> QED BY <2>1, <2>2, <2>3, <2>4, <2>5, <2>6
<1>7. CASE u # t
  <2>1. loc'[u] = loc[u]
    BY <1>3, <1>7 DEF Moves
  <2>2. At(u, "is_workspace") \/ At(u, "clear")
    BY <1>4, <1>7
  <2>3. ~Ahead(u, "full")
    BY <2>1 DEF Ahead
  <2>4. Contents(rows) \subseteq loc'[u].data
    BY <1>2, <2>1, <2>2, <2>3
  <2>5. h \notin {"merged", "full"}
    <3>1. u \in Replacing
      BY <2>2, ReplacingIs
    <3>2. h \in {"merged", "full"} => t \in Replacing
      BY <1>4, ReplacingIs
    <3> QED BY <1>2, <1>7, <3>1, <3>2
  <2>6. h # "insert"
    <3> SUFFICES ASSUME h = "insert" PROVE FALSE
      OBVIOUS
    <3>1. Holding(todo(t))
      <4>1. "insert" \in Releases
        BY DEF Releases
      <4> QED BY <1>4, <4>1, HoldingFollows
    <3>2. Holding(todo(u))
      <4>1. todo(u) # <<>> /\ todo(u)[1] \in {"is_workspace", "clear"} /\ Path(todo(u))
            /\ todo(u) \in Seq(Step)
        BY <2>2, AtHead DEF Walking
      <4>2. todo(u)[1] \in Mid
        BY <4>1 DEF Mid
      <4>3. ~\E i \in 1..Len(todo(u)) : todo(u)[i] = "full"
        BY <2>3, <4>1, AheadIs
      <4> QED BY <4>1, <4>2, <4>3, MergesHold
    <3> QED BY <1>7, <3>1, <3>2, OneHolds
  <2>7. CASE h \in {"clear", "drop"}
    BY <1>3, <2>7, NoRows DEF RowStep
  <2>8. CASE h = "insert_empty"
    <3>1. Contents(rows') = Contents(rows) \cup {}
      BY <1>3, <2>8, RowAdded DEF RowStep, Rows
    <3> QED BY <2>4, <3>1
  <2>9. CASE h \notin {"clear", "drop", "merged", "full", "insert", "insert_empty"}
    BY <1>3, <2>4, <2>9 DEF RowStep
  <2> QED BY <2>5, <2>6, <2>7, <2>8, <2>9
<1> QED BY <1>6, <1>7

LEMMA RestartMergeHolds ==
  ASSUME Walking, MergeHolds, NEW t \in Tasks, Restarts(t),
         overlap' = (overlap \/ Cardinality(Replacing') > 1)
  PROVE  MergeHolds'
<1> SUFFICES ASSUME overlap' # TRUE, NEW u \in Tasks,
                    At(u, "is_workspace")' \/ At(u, "clear")', ~Ahead(u, "full")'
             PROVE  Contents(rows') \subseteq loc'[u].data
  BY DEF MergeHolds
<1>1. overlap # TRUE
  BY OneReplaces
<1>2. /\ \A step : \A v \in Tasks \ {t} : At(v, step)' <=> At(v, step)
      /\ \A step \in {"is_workspace", "clear"} : ~At(t, step) /\ ~At(t, step)'
  BY RestartAt DEF Mid
<1>3. u # t
  BY <1>2
<1>4. loc'[u] = loc[u] /\ rows' = rows
  BY <1>3, RestartWalks DEF Restarts
<1>5. ~Ahead(u, "full") /\ (At(u, "is_workspace") \/ At(u, "clear"))
  BY <1>2, <1>3, <1>4 DEF Ahead
<1> QED BY <1>1, <1>4, <1>5 DEF MergeHolds

LEMMA NextMergeHolds ==
  ASSUME Permits = 1, Walking, Bounded, Rows, Calm, MergeHolds, [Next]_vars PROVE MergeHolds'
<1>1. CASE /\ \E t \in Tasks : Restarts(t) \/ \E m : Effect(t, m)
           /\ overlap' = (overlap \/ Cardinality(Replacing') > 1)
  BY <1>1, RestartMergeHolds, EffectMergeHolds
<1>2. CASE Crash /\ overlap' = overlap
  <2>1. \A step : \A t \in Tasks : ~At(t, step)'
    <3>1. \A t \in Tasks : loc'[t] = Idle
      BY <1>2, CrashIsIdle
    <3> QED BY <3>1 DEF At, Idle
  <2> QED BY <2>1 DEF MergeHolds
<1>3. CASE UNCHANGED vars
  BY <1>3 DEF vars, storageVars, MergeHolds, At, Ahead
<1> QED BY <1>1, <1>2, <1>3, NextSteps

-----------------------------------------------------------------------------
(* The docs table implements DurableDoc. *)

\* What the other tasks hold stays held.
LEMMA HeldIs ==
  ASSUME NEW e
  PROVE  e \in Held <=> \E t \in Tasks : At(t, "merged") /\ e \in loc[t].data
BY DEF Held

LEMMA ReplacedIs ==
  Replaced <=> overlap = TRUE \/ \E t \in Tasks : Ahead(t, "full") \/ Ahead(t, "drop")
BY DEF Replaced

LEMMA DurableNext ==
  ASSUME \/ /\ Replaced /\ Replaced' \in BOOLEAN
         \/ /\ ~Replaced /\ Replaced' = TRUE
            /\ Contents(rows)' = Contents(rows) /\ Held' = Held
         \/ /\ Replaced' = Replaced
            /\ Contents(rows) \cup Held \subseteq Contents(rows)' \cup Held'
         \/ /\ Held' = {} /\ Replaced' \in {Replaced, FALSE} /\ Contents(rows)' = Contents(rows)
  PROVE  [Durable!Next]_(Durable!vars)
BY DEF Durable!Next, Durable!Replace, Durable!Begin, Durable!WriteOrMerge, Durable!Crash, Durable!vars

LEMMA EffectIsDurable ==
  ASSUME CalmInv, MergeHolds, NEW t \in Tasks, NEW m, Effect(t, m),
         overlap' = (overlap \/ Cardinality(Replacing') > 1)
  PROVE  [Durable!Next]_(Durable!vars)
<1> DEFINE h == todo(t)[1]  n == loc'[t].todo
<1>1. Moves(t, m) /\ RowStep(t) /\ DataStep(t)
  BY DEF Effect
<1>2. /\ \A step : \A v \in Tasks \ {t} : At(v, step)' <=> At(v, step)
      /\ \A step : At(t, step)' <=> n # <<>> /\ n[1] = step
      /\ \A step : At(t, step) <=> h = step
      /\ todo(t) # <<>> /\ Path(todo(t)) /\ Follows(n, todo(t), m)
  BY <1>1, MovedAt DEF CalmInv
<1>3. /\ todo(t) \in Seq(Step) /\ n \in Seq(Step)
      /\ \A v \in Tasks \ {t} : loc'[v] = loc[v]
  BY <1>1, <1>2, ThenPath DEF Path, Moves
<1>4. Replaced' \in BOOLEAN /\ Replaced \in BOOLEAN
  BY DEF Replaced
<1>5. CASE Replaced
  BY <1>4, <1>5, DurableNext
<1>6. CASE ~Replaced
  <2>1. overlap # TRUE /\ \A v \in Tasks : ~Ahead(v, "full") /\ ~Ahead(v, "drop")
    BY <1>6, ReplacedIs
  <2>2. ~Replaces(todo(t)) /\ h \notin {"full", "drop"}
    <3>1. ~Replaces(todo(t))
      BY <1>3, <2>1, AheadIs DEF Replaces
    <3>2. 1 \in 1..Len(todo(t))
      BY <1>2, <1>3
    <3> QED BY <3>1, <3>2 DEF Replaces
  <2>3. n # <<>> => /\ n[1] = "clear" => h = "is_workspace"
                    /\ n[1] \in {"merged", "full"} => h = "clear"
                    /\ h = "clear" => n[1] \in {"merged", "full"}
                    /\ n[1] = "is_workspace" => h \in {"load", "doc_all", "insert_empty", "merged"}
                    /\ n[1] = "drop" => h = "lock"
    BY <1>2, NextHead
  <2>4. ASSUME h # "merged", h # "clear" PROVE Held' = Held
    <3>1. ~At(t, "merged") /\ ~At(t, "merged")'
      BY <1>2, <2>3, <2>4
    <3>2. \A v \in Tasks \ {t} : loc'[v].data = loc[v].data /\ (At(v, "merged")' <=> At(v, "merged"))
      BY <1>2, <1>3
    <3>3. \A v \in Tasks : At(v, "merged")' <=> At(v, "merged")
      BY <3>1, <3>2
    <3>4. {v \in Tasks : At(v, "merged")'} = {v \in Tasks : At(v, "merged")}
      BY <3>3
    <3>5. \A v \in {w \in Tasks : At(w, "merged")} : loc'[v].data = loc[v].data
      BY <3>1, <3>2
    <3> QED BY <3>4, <3>5 DEF Held
  <2> HIDE DEF n, h
  <2>5. CASE Replaced'
    <3>1. CASE Ahead(t, "full")' \/ Ahead(t, "drop")'
      <4>1. Replaces(n)
        BY <1>3, <3>1 DEF Ahead, Replaces, n
      <4>2. h \in {"force", "normalize", "import", "rebuild"}
        BY <1>2, <1>3, <2>2, <4>1, ReplacesFollows DEF h
      <4>3. rows' = rows
        BY <1>1, <4>2 DEF RowStep, h
      <4>4. Held' = Held
        BY <2>4, <4>2
      <4> QED BY <1>4, <1>6, <2>5, <4>3, <4>4, DurableNext
    <3>2. CASE ~(Ahead(t, "full")' \/ Ahead(t, "drop")')
      <4>1. \A v \in Tasks : ~Ahead(v, "full")' /\ ~Ahead(v, "drop")'
        BY <1>3, <2>1, <3>2 DEF Ahead
      <4>2. overlap'
        BY <2>5, <4>1 DEF Replaced
      <4>3. Cardinality(Replacing') > 1
        BY <2>1, <4>2
      <4>4. h \notin {"is_workspace", "clear", "merged", "full", "drop"} /\ t \in Replacing'
        <5>1. \A u, v \in Replacing : u = v
          BY <2>1 DEF CalmInv, Calm
        <5>2. \A v \in Tasks \ {t} : v \in Replacing' <=> v \in Replacing
          BY <1>2 DEF Replacing
        <5>3. Replacing' \subseteq Tasks /\ Replacing \subseteq Tasks
          BY DEF Replacing
        <5>4. ASSUME \A u, v \in Replacing' : u = v PROVE FALSE
          <6>1. Replacing' = {} \/ \E v : Replacing' = {v}
            BY <5>4
          <6>2. Cardinality(Replacing') \in {0, 1}
            BY <6>1, FS_EmptySet, FS_Singleton
          <6> QED BY <4>3, <6>2
        <5>5. PICK u \in Replacing', v \in Replacing' : u # v
          BY <5>4
        <5>6. t \in Replacing'
          BY <5>1, <5>2, <5>3, <5>5
        <5>7. t \notin Replacing
          BY <5>1, <5>2, <5>3, <5>5
        <5>8. \A step \in {"is_workspace", "clear", "merged", "full", "drop"} : ~At(t, step)
          BY <5>7, ReplacingIs
        <5> QED BY <1>2, <5>6, <5>8
      <4>5. n # <<>> /\ n[1] \in {"is_workspace", "clear", "merged", "full", "drop"}
        BY <1>2, <4>4 DEF Replacing
      <4>6. h \in {"load", "doc_all", "insert_empty", "lock"}
        BY <2>3, <4>4, <4>5
      <4>7. Held' = Held
        BY <2>4, <4>6
      <4>8. Contents(rows)' = Contents(rows)
        <5>1. CASE h = "insert_empty"
          <6>1. Contents(rows') = Contents(rows) \cup {}
            BY <1>1, <5>1, RowAdded DEF RowStep, CalmInv, Rows, h
          <6> QED BY <6>1 DEF Contents
        <5>2. CASE h # "insert_empty"
          <6>1. rows' = rows
            BY <1>1, <4>6, <5>2 DEF RowStep, h
          <6> QED BY <6>1 DEF Contents
        <5> QED BY <5>1, <5>2
      <4> QED BY <1>4, <1>6, <2>5, <4>7, <4>8, DurableNext
    <3> QED BY <3>1, <3>2
  <2>6. CASE ~Replaced'
    <3>1. Replaced' = Replaced
      BY <1>4, <1>6, <2>6
    <3>2. Contents(rows)' = Contents(rows')
      BY DEF Contents
    <3>3. Contents(rows) \cup Held \subseteq Contents(rows') \cup Held'
      <4>1. CASE h = "clear"
        <5>1. n # <<>>
          BY <1>2, <4>1, ClearGoesOn DEF h
        <5>2. n[1] = "merged"
          <6>1. ~Ahead(t, "full")'
            BY <2>6 DEF Replaced
          <6>2. ~\E i \in 1..Len(n) : n[i] = "full"
            BY <1>3, <6>1 DEF Ahead, n
          <6>3. 1 \in 1..Len(n)
            BY <1>3, <5>1
          <6> QED BY <2>3, <4>1, <5>1, <6>2, <6>3
        <5>3. loc'[t].data = loc[t].data
          BY <1>1, <4>1, <5>1 DEF DataStep, n, h
        <5>4. Contents(rows) \subseteq loc'[t].data
          BY <1>2, <2>1, <4>1, <5>3 DEF MergeHolds
        <5>5. At(t, "merged")'
          BY <1>2, <5>1, <5>2
        <5>6. Contents(rows) \subseteq Held'
          BY <5>4, <5>5 DEF Held
        <5>7. ASSUME NEW e \in Held PROVE e \in Held'
          <6>1. PICK v \in Tasks : At(v, "merged") /\ e \in loc[v].data
            BY HeldIs
          <6>2. v # t
            BY <1>2, <4>1, <6>1
          <6>3. At(v, "merged")' /\ e \in loc'[v].data
            BY <1>2, <1>3, <6>1, <6>2
          <6> QED BY <6>3 DEF Held
        <5> QED BY <5>6, <5>7
      <4>2. CASE h = "merged"
        <5>1. Contents(rows') = Contents(rows) \cup loc[t].data
          <6>1. rows' = Append(rows, Row(loc[t].data, loc[t].main))
            BY <1>1, <4>2 DEF RowStep, h
          <6>2. IsRows(rows)
            BY DEF CalmInv, Rows
          <6> QED BY <6>1, <6>2, RowAdded
        <5>2. ASSUME NEW e \in Held PROVE e \in loc[t].data \/ e \in Held'
          <6>1. PICK v \in Tasks : At(v, "merged") /\ e \in loc[v].data
            BY HeldIs
          <6>2. CASE v = t
            BY <6>1, <6>2
          <6>3. CASE v # t
            <7>1. At(v, "merged")' /\ e \in loc'[v].data
              BY <1>2, <1>3, <6>1, <6>3
            <7> QED BY <7>1 DEF Held
          <6> QED BY <6>2, <6>3
        <5> QED BY <5>1, <5>2
      <4>3. CASE h \in {"insert", "insert_empty"}
        <5>1. \E ops : Contents(rows') = Contents(rows) \cup ops
          BY <1>1, <4>3, RowAdded DEF RowStep, CalmInv, Rows, h
        <5>2. Held' = Held
          BY <2>4, <4>3
        <5> QED BY <5>1, <5>2
      <4>4. CASE h \notin {"clear", "merged", "insert", "insert_empty"}
        <5>1. rows' = rows
          BY <1>1, <2>2, <4>4 DEF RowStep, h
        <5>2. Held' = Held
          BY <2>4, <4>4
        <5> QED BY <5>1, <5>2
      <4> QED BY <4>1, <4>2, <4>3, <4>4
    <3> QED BY <3>1, <3>2, <3>3, DurableNext
  <2> QED BY <2>5, <2>6
<1> QED BY <1>5, <1>6

LEMMA RestartIsDurable ==
  ASSUME CalmInv, NEW t \in Tasks, Restarts(t),
         overlap' = (overlap \/ Cardinality(Replacing') > 1)
  PROVE  [Durable!Next]_(Durable!vars)
<1>1. Replaced' \in BOOLEAN /\ Replaced \in BOOLEAN
  BY DEF Replaced
<1>2. /\ \A step : \A v \in Tasks \ {t} : At(v, step)' <=> At(v, step)
      /\ ~At(t, "merged") /\ ~At(t, "merged")'
      /\ \A v \in Tasks \ {t} : loc'[v] = loc[v]
  BY RestartAt, RestartWalks DEF Mid, CalmInv
<1>3. Held' = Held
  <2>1. {v \in Tasks : At(v, "merged")'} = {v \in Tasks : At(v, "merged")}
    BY <1>2
  <2>2. \A v \in {w \in Tasks : At(w, "merged")} : loc'[v].data = loc[v].data
    BY <1>2
  <2> QED BY <2>1, <2>2 DEF Held
<1>4. Contents(rows)' = Contents(rows)
  BY DEF Restarts, Contents
<1> QED BY <1>1, <1>3, <1>4, DurableNext

LEMMA NextIsDurable ==
  ASSUME CalmInv, MergeHolds, [Next]_vars
  PROVE  [Durable!Next]_(Durable!vars)
<1>1. CASE /\ \E t \in Tasks : Restarts(t) \/ \E m : Effect(t, m)
           /\ overlap' = (overlap \/ Cardinality(Replacing') > 1)
  BY <1>1, RestartIsDurable, EffectIsDurable
<1>2. CASE Crash /\ overlap' = overlap
  <2>1. \A step : \A t \in Tasks : ~At(t, step)' /\ ~Ahead(t, step)'
    <3>1. \A t \in Tasks : loc'[t] = Idle
      BY <1>2, CrashIsIdle DEF CalmInv
    <3> QED BY <3>1 DEF At, Ahead, Idle
  <2>2. Held' = {}
    BY <2>1 DEF Held
  <2>3. Contents(rows)' = Contents(rows)
    BY <1>2 DEF Crash, Contents
  <2>4. Replaced' \in {Replaced, FALSE}
    <3>1. Replaced' = (overlap' = TRUE)
      BY <2>1 DEF Replaced
    <3>2. overlap = TRUE => Replaced = TRUE
      BY DEF Replaced
    <3> QED BY <1>2, <3>1, <3>2
  <2> QED BY <2>2, <2>3, <2>4, DurableNext
<1>3. CASE UNCHANGED vars
  <2>1. UNCHANGED <<Contents(rows), Held, Replaced>>
    BY <1>3 DEF vars, storageVars, Contents, Held, Replaced, At, Ahead
  <2> QED BY <2>1 DEF Durable!vars
<1> QED BY <1>1, <1>2, <1>3, NextSteps DEF CalmInv

LEMMA InitIsDurable == ASSUME Init PROVE Durable!Init /\ MergeHolds
<1>1. \A step : \A t \in Tasks : ~At(t, step) /\ ~Ahead(t, step)
  BY DEF Init, StorageInit, At, Ahead, Idle
<1>2. Held = {} /\ MergeHolds
  BY <1>1 DEF Held, MergeHolds
<1>3. Replaced = FALSE
  BY <1>1 DEF Replaced, Init, StorageInit
<1> QED BY <1>2, <1>3 DEF Durable!Init

(* With one permit of the bucket, the rows under the handlers, their merges and
   loads implement DurableDoc: nothing but a replacement, a deletion or a crash in
   the middle of a merge takes an entry off the record. *)
THEOREM DocsAreDurable ==
  ASSUME Permits = 1 PROVE Spec => StorageIsDurable
<1>1. Init => CalmInv /\ MergeHolds /\ Durable!Init
  BY InitWalks, InitCalm, InitIsDurable DEF CalmInv
<1>2. CalmInv /\ MergeHolds /\ [Next]_vars => (CalmInv /\ MergeHolds)'
  BY NextWalks, NextBounded, NextRows, NextCalm, NextMergeHolds DEF CalmInv
<1>3. CalmInv /\ MergeHolds /\ [Next]_vars => [Durable!Next]_(Durable!vars)
  BY NextIsDurable
<1> QED BY <1>1, <1>2, <1>3, PTL DEF Spec, StorageIsDurable, Durable!Spec

-----------------------------------------------------------------------------
(* What is persisted and answered stays on record. *)

\* Kinds of the values that requests write.
Values == {"obj", "str", "arr", "map"}

LEMMA ReqsIs ==
  ASSUME NEW S, NEW q
  PROVE  q \in Reqs(S) <=> \E e \in S : Kind(e) \in Values /\ Req(e) = q
BY DEF Reqs, OfKind, Values

\* All entries there are: in the rows, the instances and the tasks' variables.
Carried(u) == loc[u].ops \cup loc[u].data
Entries == Contents(rows) \cup (UNION {inst[i] : i \in DOMAIN inst})
             \cup (UNION {Carried(u) : u \in Tasks})

\* The requests that a step of t may find as writers of values, its own if it
\* writes one.
Seen(t) == Reqs(Entries) \cup (IF todo(t)[1] \in Values THEN {loc[t].req} ELSE {})

\* The workspace is loaded next.
Loads(s) == 3 <= Len(s) /\ s[1] = "lock" /\ s[2] = "load" /\ s[3] = "cached"

\* What a step leaves of its task's variables.
Turns(t) ==
  LET head == todo(t)[1]  k == loc'[t] IN
  /\ Reqs(k.ops) \subseteq Seen(t) /\ Reqs(k.data) \subseteq Seen(t)
  /\ k.todo # <<>> =>
    /\ k.req = loc[t].req
    /\ head \notin Puts => k.wrote = loc[t].wrote
    /\ head \notin {"persist", "full", "insert", "normalize", "import"} => k.ops = loc[t].ops
    /\ head \notin {"cache", "cached", "persist", "normalize", "import"} => k.ws = loc[t].ws
    /\ head = "cache" => \/ k.ws = cache /\ cache # 0
                         \/ k.ws = loc[t].ws /\ Loads(k.todo)
    /\ head = "cached" => k.ws = Len(inst')
    /\ head \in Puts => /\ k.todo = Tail(todo(t))
                        /\ Reqs(k.data) \subseteq Reqs(inst[k.ws])
                        /\ \A e \in k.wrote : /\ e \in inst'[k.ws]
                                              /\ \/ Kind(e) = "del"
                                                 \/ /\ Kind(e) = head /\ head \in Values
                                                    /\ Req(e) = k.req

\* ... and of the instances.
Instances(t) ==
  LET head == todo(t)[1] IN
  /\ IsRows(inst') /\ Len(inst) \in Nat /\ Len(inst') \in Nat /\ Len(inst) <= Len(inst')
  /\ \A i \in 1..Len(inst) : inst[i] \subseteq inst'[i]
  /\ \A i \in 1..Len(inst') : Reqs(inst'[i]) \subseteq Seen(t)
  /\ head = "cached" => Len(inst') = Len(inst) + 1
  /\ cache' \in {cache, 0, Len(inst')}

\* persist_and_broadcast: what the request has changed is handed on to be written.
Persists(t) ==
  todo(t)[1] = "persist" =>
    \A e \in inst[loc[t].ws] : Kind(e) = "del" \/ e \notin loc[t].data =>
      e \in loc'[t].ops /\ \E i \in 1..Len(loc'[t].todo) : loc'[t].todo[i] = "insert"

History(t) ==
  /\ count' = count
  /\ acked' = IF todo(t)[1] = "ack" THEN acked \cup {<<loc[t].req, e>> : e \in loc[t].wrote}
              ELSE acked
  /\ wiped' = IF Wipes(t) THEN count ELSE wiped

LEMMA ReqsOfPart ==
  ASSUME NEW S, NEW T, S \subseteq T PROVE Reqs(S) \subseteq Reqs(T)
BY ReqsIs

LEMMA EntryOf ==
  /\ \A i \in DOMAIN inst : inst[i] \subseteq Entries
  /\ \A u \in Tasks : loc[u].ops \subseteq Entries /\ loc[u].data \subseteq Entries
  /\ Contents(rows) \subseteq Entries
<1>1. \A i \in DOMAIN inst : inst[i] \subseteq UNION {inst[j] : j \in DOMAIN inst}
  OBVIOUS
<1>2. \A u \in Tasks : Carried(u) \subseteq UNION {Carried(v) : v \in Tasks}
  OBVIOUS
<1>3. \A u \in Tasks : loc[u].ops \subseteq Carried(u) /\ loc[u].data \subseteq Carried(u)
  BY DEF Carried
<1>5. /\ Contents(rows) \subseteq Entries
      /\ UNION {inst[j] : j \in DOMAIN inst} \subseteq Entries
      /\ UNION {Carried(v) : v \in Tasks} \subseteq Entries
  BY DEF Entries
<1>6. \A u \in Tasks : Carried(u) \subseteq Entries
  BY <1>2, <1>5
<1> QED BY <1>1, <1>3, <1>5, <1>6

\* A task goes on as l says, or is idle.
LEMMA BecomesOne ==
  ASSUME NEW t \in Tasks, Walking, NEW l, Becomes(t, l)
  PROVE  loc'[t] \in {l, Idle} /\ (loc'[t].todo # <<>> => loc'[t] = l)
BY DEF Becomes, Walking, Shape, Idle

LEMMA IdleCarries == ASSUME NEW S PROVE Reqs(Idle.ops) \subseteq S /\ Reqs(Idle.data) \subseteq S
BY ReqsIs DEF Idle

\* A step that neither changes an instance nor hands one on.
LEMMA QuietTurns ==
  ASSUME NEW t \in Tasks, Walking, IsRows(inst), UNCHANGED inst, cache' \in {cache, 0},
         NEW l, Becomes(t, l),
         todo(t)[1] \notin Uses \cup {"cached"},
         l.req = loc[t].req, l.wrote = loc[t].wrote,
         l.ops = loc[t].ops \/ (l.ops = {} /\ todo(t)[1] \in {"full", "insert"}),
         l.data \subseteq loc[t].data \cup Contents(rows),
         \/ l.ws = loc[t].ws /\ (todo(t)[1] = "cache" => Loads(l.todo))
         \/ todo(t)[1] = "cache" /\ cache # 0 /\ l.ws = cache
  PROVE  Turns(t) /\ Instances(t) /\ Persists(t)
<1>1. loc'[t] \in {l, Idle} /\ (loc'[t].todo # <<>> => loc'[t] = l)
  BY BecomesOne
<1>2. l.ops \subseteq Entries /\ l.data \subseteq Entries
  BY EntryOf
<1>3. Reqs(l.ops) \subseteq Seen(t) /\ Reqs(l.data) \subseteq Seen(t)
  BY <1>2, ReqsOfPart DEF Seen
<1>4. \A i \in 1..Len(inst) : Reqs(inst[i]) \subseteq Seen(t)
  BY EntryOf, ReqsOfPart DEF Seen, IsRows
<1>5. Instances(t)
  BY <1>4 DEF Instances, Uses, IsRows
<1>6. Persists(t)
  BY DEF Persists, Uses
<1>7. Turns(t)
  BY <1>1, <1>3, IdleCarries DEF Turns, Uses
<1> QED BY <1>5, <1>6, <1>7

\* Steps that end with Goes, and those that only put others first.
LEMMA StaysQuiet ==
  ASSUME NEW t \in Tasks, Walking, IsRows(inst), UNCHANGED inst, cache' \in {cache, 0},
         NEW steps, Becomes(t, Then(t, steps)), todo(t)[1] \notin Uses \cup {"cache", "cached"}
  PROVE  Turns(t) /\ Instances(t) /\ Persists(t)
<1>1. /\ Then(t, steps).req = loc[t].req /\ Then(t, steps).wrote = loc[t].wrote
      /\ Then(t, steps).ws = loc[t].ws /\ Then(t, steps).ops = loc[t].ops
      /\ Then(t, steps).data = loc[t].data
  BY ThenShaped DEF Walking
<1> QED BY <1>1, QuietTurns

\* No step but a replacement or a deletion of the rows wipes anything.
LEMMA NoWipe ==
  ASSUME NEW t \in Tasks, Walking, NEW step, At(t, step), step \notin {"drop", "clear"}
  PROVE  ~Wipes(t)
BY AtHead DEF Wipes, At, Walking

LEMMA StorageTurns ==
  ASSUME NEW t \in Tasks, Walking, IsRows(inst), StorageStep(t), ~Cached(t),
         wiped' = IF Wipes(t) THEN count ELSE wiped,
         UNCHANGED <<rebuilt, rebuilder, count, acked, rebuilds>>
  PROVE  Turns(t) /\ Instances(t) /\ Persists(t) /\ History(t)
<1> DEFINE head == todo(t)[1]
<1>1. \A step : At(t, step) => head = step
  BY AtHead DEF Walking
<1>2. head \notin {"ack", "cached"} \cup Uses => History(t)
  BY DEF History
<1>3. CASE Take(t) \/ StartMigrate(t) \/ EndMigrate(t) \/ Clear(t) \/ Merged(t) \/ InsertEmpty(t)
           \/ Uncache(t) \/ Drop(t)
  <2>1. head \in {"lock", "migrate", "migrated", "clear", "merged", "insert_empty", "uncache", "drop"}
    BY <1>1, <1>3 DEF Take, StartMigrate, EndMigrate, Clear, Merged, InsertEmpty, Uncache, Drop
  <2>2. Goes(t) /\ UNCHANGED inst /\ cache' \in {cache, 0}
    BY <1>3 DEF Take, StartMigrate, EndMigrate, Clear, Merged, InsertEmpty, Uncache, Drop
  <2>3. Becomes(t, Then(t, <<>>))
    BY <2>2 DEF Goes
  <2>4. head \notin {"ack", "cache", "cached"} \cup Uses
    BY <2>1 DEF Uses, Puts
  <2> QED BY <1>2, <2>2, <2>3, <2>4, StaysQuiet
<1>4. CASE Full(t) \/ Insert(t)
  <2>1. head \in {"full", "insert"} /\ Done(t) /\ UNCHANGED <<inst, cache>>
    BY <1>1, <1>4 DEF Full, Insert
  <2>2. PICK l : l = [Then(t, <<>>) EXCEPT !.ops = {}, !.data = {}, !.main = FALSE]
    OBVIOUS
  <2>3. Becomes(t, l)
    BY <2>1, <2>2 DEF Done
  <2>4. /\ l.req = loc[t].req /\ l.wrote = loc[t].wrote /\ l.ws = loc[t].ws
        /\ l.ops = {} /\ l.data = {}
    BY <2>2, ThenShaped DEF Shaped, Walking
  <2>5. head \notin {"ack", "cached"} \cup Uses
    BY <2>1 DEF Uses, Puts
  <2> QED BY <1>2, <2>1, <2>3, <2>4, <2>5, QuietTurns
<1>5. CASE Count(t)
  <2>1. head = "count" /\ UNCHANGED <<inst, cache>>
    BY <1>1, <1>5 DEF Count
  <2>2. \E steps : Becomes(t, Then(t, steps))
    BY <1>5 DEF Count
  <2>3. head \notin {"ack", "cache", "cached"} \cup Uses
    BY <2>1 DEF Uses, Puts
  <2> QED BY <1>2, <2>1, <2>2, <2>3, StaysQuiet
<1>6. CASE DocAll(t)
  <2>1. head = "doc_all" /\ UNCHANGED <<inst, cache>>
    BY <1>1, <1>6 DEF DocAll
  <2>2. PICK l : l = [Then(t, <<>>) EXCEPT !.data = Contents(rows)]
    OBVIOUS
  <2>3. Becomes(t, l)
    BY <1>6, <2>2 DEF DocAll
  <2>4. /\ l.req = loc[t].req /\ l.wrote = loc[t].wrote /\ l.ws = loc[t].ws
        /\ l.ops = loc[t].ops /\ l.data = Contents(rows)
    BY <2>2, ThenShaped DEF Shaped, Walking
  <2>5. head \notin {"ack", "cached"} \cup Uses
    BY <2>1 DEF Uses, Puts
  <2> QED BY <1>2, <2>1, <2>3, <2>4, <2>5, QuietTurns
<1>7. CASE IsWorkspace(t)
  <2>1. head = "is_workspace" /\ UNCHANGED <<inst, cache>>
    BY <1>1, <1>7 DEF IsWorkspace
  <2>2. PICK main : Becomes(t, [Then(t, <<>>) EXCEPT !.main = main])
    BY <1>7 DEF IsWorkspace
  <2>3. PICK l : l = [Then(t, <<>>) EXCEPT !.main = main]
    OBVIOUS
  <2>4. Becomes(t, l)
    BY <2>2, <2>3
  <2>5. /\ l.req = loc[t].req /\ l.wrote = loc[t].wrote /\ l.ws = loc[t].ws
        /\ l.ops = loc[t].ops /\ l.data = loc[t].data
    BY <2>3, ThenShaped DEF Shaped, Walking
  <2>6. head \notin {"ack", "cached"} \cup Uses
    BY <2>1 DEF Uses, Puts
  <2> QED BY <1>2, <2>1, <2>4, <2>5, <2>6, QuietTurns
<1>8. CASE Lookup(t)
  <2>1. head = "cache" /\ UNCHANGED <<inst, cache>>
    BY <1>1, <1>8 DEF Lookup
  <2>2. head \notin {"ack", "cached"} \cup Uses
    BY <2>1 DEF Uses, Puts
  <2>3. CASE cache = 0
    <3>1. PICK l : l = Then(t, <<"lock", "load", "cached">>)
      OBVIOUS
    <3>2. Becomes(t, l)
      BY <1>8, <2>3, <3>1 DEF Lookup
    <3>3. /\ l.req = loc[t].req /\ l.wrote = loc[t].wrote /\ l.ws = loc[t].ws
          /\ l.ops = loc[t].ops /\ l.data = loc[t].data
          /\ l.todo = <<"lock", "load", "cached">> \o Tail(todo(t))
      BY <3>1, ThenShaped DEF Walking
    <3>4. Loads(l.todo)
      <4>1. Tail(todo(t)) \in Seq(Step)
        BY <1>8, AtHead DEF Lookup, Walking
      <4> QED BY <3>3, <4>1 DEF Loads
    <3> QED BY <1>2, <2>1, <2>2, <3>2, <3>3, <3>4, QuietTurns
  <2>4. CASE cache # 0
    <3>1. PICK l : l = [Then(t, <<>>) EXCEPT !.ws = cache]
      OBVIOUS
    <3>2. Becomes(t, l)
      BY <1>8, <2>4, <3>1 DEF Lookup
    <3>3. /\ l.req = loc[t].req /\ l.wrote = loc[t].wrote /\ l.ws = cache
          /\ l.ops = loc[t].ops /\ l.data = loc[t].data
      BY <3>1, ThenShaped DEF Shaped, Walking
    <3> QED BY <1>2, <2>1, <2>2, <2>4, <3>2, <3>3, QuietTurns
  <2> QED BY <2>3, <2>4
<1>9. CASE Load(t)
  <2>1. head = "load" /\ UNCHANGED <<inst, cache>>
    BY <1>1, <1>9 DEF Load
  <2>2. PICK steps : Becomes(t, [Then(t, steps) EXCEPT !.data = UNION {rows[i].ops : i \in MainRows}])
    BY <1>9 DEF Load
  <2>3. PICK l : l = [Then(t, steps) EXCEPT !.data = UNION {rows[i].ops : i \in MainRows}]
    OBVIOUS
  <2>4. Becomes(t, l)
    BY <2>2, <2>3
  <2>5. /\ l.req = loc[t].req /\ l.wrote = loc[t].wrote /\ l.ws = loc[t].ws
        /\ l.ops = loc[t].ops /\ l.data = UNION {rows[i].ops : i \in MainRows}
    BY <2>3, ThenShaped DEF Shaped, Walking
  <2>6. l.data \subseteq Contents(rows)
    BY <2>5 DEF MainRows, Contents
  <2>7. head \notin {"ack", "cached"} \cup Uses
    BY <2>1 DEF Uses, Puts
  <2> QED BY <1>2, <2>1, <2>4, <2>5, <2>6, <2>7, QuietTurns
<1> QED BY <1>3, <1>4, <1>5, <1>6, <1>7, <1>8, <1>9 DEF StorageStep

\* The steps of the handlers that neither change nor hand on anything.
LEMMA HandlerTurns ==
  ASSUME NEW t \in Tasks, Walking, IsRows(inst),
         \/ Pass(t) \/ Forced(t) \/ Ack(t) \/ Forget(t) \/ Mark(t) \/ Rebuild(t) \/ RebuildDone(t)
         \/ Reopen(t, "look", <<>>) \/ Reopen(t, "open", <<"import">>)
  PROVE  Turns(t) /\ Instances(t) /\ Persists(t) /\ History(t)
<1> DEFINE head == todo(t)[1]
<1>1. \A step : At(t, step) => head = step
  BY AtHead DEF Walking
<1>2. UNCHANGED <<inst, cache, count>>
  BY DEF Pass, Forced, Ack, Forget, Mark, Rebuild, RebuildDone, Reopen, keckVars
<1>3. \E step \in {"find", "vacant", "force", "again", "export", "ack", "forget", "mark", "rebuild",
                   "rebuilt", "look", "open"} : At(t, step)
  BY DEF Pass, Forced, Ack, Forget, Mark, Rebuild, RebuildDone, Reopen
<1>4. PICK step \in {"find", "vacant", "force", "again", "export", "ack", "forget", "mark", "rebuild",
                    "rebuilt", "look", "open"} : At(t, step)
  BY <1>3
<1>5. head = step /\ head \notin Uses \cup {"cache", "cached"} /\ ~Wipes(t)
  BY <1>1, <1>4, NoWipe DEF Uses, Puts
<1>6. \E steps : Becomes(t, Then(t, steps))
  BY DEF Pass, Forced, Ack, Forget, Mark, Rebuild, RebuildDone, Reopen, Goes
<1>7. Turns(t) /\ Instances(t) /\ Persists(t)
  BY <1>2, <1>5, <1>6, StaysQuiet
<1>8. History(t)
  <2>1. wiped' = wiped
    BY DEF Pass, Forced, Ack, Forget, Mark, Rebuild, RebuildDone, Reopen, keckVars
  <2>2. CASE Ack(t)
    <3>1. head = "ack" /\ acked' = acked \cup {<<loc[t].req, e>> : e \in loc[t].wrote}
      BY <1>1, <2>2 DEF Ack
    <3> QED BY <1>2, <1>5, <2>1, <3>1 DEF History
  <2>3. CASE ~Ack(t)
    <3>1. acked' = acked /\ head # "ack"
      BY <1>1, <2>3 DEF Pass, Forced, Forget, Mark, Rebuild, RebuildDone, Reopen, keckVars
    <3> QED BY <1>2, <1>5, <2>1, <3>1 DEF History
  <2> QED BY <2>2, <2>3
<1> QED BY <1>7, <1>8

\* One instance more.
LEMMA CachedTurns ==
  ASSUME NEW t \in Tasks, Walking, IsRows(inst), Cached(t),
         wiped' = IF Wipes(t) THEN count ELSE wiped, UNCHANGED <<count, acked>>
  PROVE  Turns(t) /\ Instances(t) /\ Persists(t) /\ History(t)
<1>1. At(t, "cached") /\ todo(t)[1] = "cached"
  BY AtHead DEF Cached, Walking
<1>2. inst' = Append(inst, loc[t].data) /\ cache' = Len(inst')
  BY DEF Cached
<1>3. Len(inst) \in Nat /\ DOMAIN inst = 1..Len(inst)
  BY DEF IsRows
<1>4. PICK data : data = loc[t].data
  OBVIOUS
<1>5. /\ Len(inst') = Len(inst) + 1 /\ IsRows(inst')
      /\ \A i \in 1..Len(inst) : inst'[i] = inst[i]
      /\ inst'[Len(inst) + 1] = data
  <2>1. inst \in Seq({inst[i] : i \in 1..Len(inst)} \cup {data})
    BY DEF IsRows
  <2>2. /\ Len(inst') = Len(inst) + 1
        /\ \A i \in 1..Len(inst) : inst'[i] = inst[i]
        /\ inst'[Len(inst) + 1] = data
    BY <1>2, <1>4, <2>1
  <2>3. IsRows(inst')
    <3> PICK S : S = {inst'[i] : i \in 1..Len(inst')}
      OBVIOUS
    <3>1. {inst[i] : i \in 1..Len(inst)} \subseteq {inst'[i] : i \in 1..Len(inst')}
      <4>1. \A i \in 1..Len(inst) : i \in 1..Len(inst') /\ inst[i] = inst'[i]
        BY <1>3, <2>2
      <4> QED BY <4>1
    <3>2. inst \in Seq(S) /\ data \in S
      <4>1. Len(inst) + 1 \in 1..Len(inst')
        BY <1>3, <2>2
      <4> QED BY <2>2, <3>1, <4>1 DEF IsRows
    <3>3. inst' \in Seq(S)
      BY <1>2, <1>4, <3>2
    <3> QED BY <3>3 DEF IsRows
  <2> QED BY <2>2, <2>3
<1>6. \A i \in 1..Len(inst') : Reqs(inst'[i]) \subseteq Seen(t)
  <2>1. \A i \in 1..Len(inst) : inst[i] \subseteq Entries
    BY <1>3, EntryOf
  <2>2. data \subseteq Entries
    BY <1>4, EntryOf
  <2>3. \A i \in 1..Len(inst') : inst'[i] \subseteq Entries
    <3> SUFFICES ASSUME NEW i \in 1..Len(inst') PROVE inst'[i] \subseteq Entries
      OBVIOUS
    <3>1. i \in 1..Len(inst) \/ i = Len(inst) + 1
      BY <1>3, <1>5
    <3> QED BY <1>5, <2>1, <2>2, <3>1
  <2> QED BY <2>3, ReqsOfPart DEF Seen
<1>7. Instances(t)
  BY <1>2, <1>3, <1>5, <1>6 DEF Instances
<1>8. PICK l : l = [Then(t, <<>>) EXCEPT !.ws = cache', !.data = {}, !.main = FALSE]
  OBVIOUS
<1>9. Becomes(t, l)
  BY <1>8 DEF Cached
<1>10. /\ l.req = loc[t].req /\ l.wrote = loc[t].wrote /\ l.ws = cache'
       /\ l.ops = loc[t].ops /\ l.data = {}
  BY <1>8, ThenShaped DEF Shaped, Walking
<1>11. loc'[t] \in {l, Idle} /\ (loc'[t].todo # <<>> => loc'[t] = l)
  BY <1>9, BecomesOne
<1>12. Reqs(l.ops) \subseteq Seen(t) /\ Reqs(l.data) \subseteq Seen(t)
  BY <1>10, EntryOf, ReqsOfPart, ReqsIs DEF Seen
<1>13. Turns(t)
  BY <1>1, <1>2, <1>10, <1>11, <1>12, IdleCarries DEF Turns, Puts
<1>14. Persists(t) /\ History(t)
  BY <1>1, NoWipe DEF Persists, History
<1> QED BY <1>7, <1>13, <1>14

\* A step that adds to the instance its task uses.
LEMMA GrowsInstance ==
  ASSUME NEW t \in Tasks, IsRows(inst), NEW ws \in 1..Len(inst), NEW S, inst[ws] \subseteq S,
         Reqs(S) \subseteq Seen(t), inst' = [inst EXCEPT ![ws] = S], cache' = cache,
         todo(t)[1] # "cached"
  PROVE  Instances(t) /\ inst'[ws] = S
<1>1. Len(inst) \in Nat /\ DOMAIN inst = 1..Len(inst) /\ inst \in Seq({inst[i] : i \in 1..Len(inst)})
  BY DEF IsRows
<1>2. /\ Len(inst') = Len(inst) /\ DOMAIN inst' = 1..Len(inst')
      /\ \A i \in 1..Len(inst) : inst'[i] = IF i = ws THEN S ELSE inst[i]
  BY <1>1
<1>3. IsRows(inst')
  <2> PICK f : f = inst'
    OBVIOUS
  <2> PICK T : T = {f[i] : i \in 1..Len(f)}
    OBVIOUS
  <2> PICK n : n = Len(inst)
    OBVIOUS
  <2>1. \A i \in 1..n : f[i] \in T
    BY <1>2
  <2>2. n \in Nat /\ f = [i \in 1..n |-> f[i]]
    BY <1>1, <1>2
  <2>3. f \in [1..n -> T]
    BY <2>1, <2>2
  <2>4. \A m \in Nat : \A g \in [1..m -> T] : g \in Seq(T)
    OBVIOUS
  <2>5. f \in Seq(T)
    BY <2>2, <2>3, <2>4
  <2>6. IsRows(f)
    BY <2>5 DEF IsRows
  <2> QED BY <2>6
<1>4. \A i \in 1..Len(inst) : Reqs(inst[i]) \subseteq Seen(t)
  BY <1>1, EntryOf, ReqsOfPart DEF Seen
<1>5. /\ \A i \in 1..Len(inst) : inst[i] \subseteq inst'[i]
      /\ \A i \in 1..Len(inst') : Reqs(inst'[i]) \subseteq Seen(t)
      /\ inst'[ws] = S
  BY <1>2, <1>4
<1>6. \A i \in 1..Len(inst') : Reqs(inst'[i]) \subseteq Seen(t)
  BY <1>5
<1>7. /\ Len(inst) \in Nat /\ Len(inst') \in Nat /\ Len(inst) <= Len(inst')
      /\ cache' \in {cache, 0, Len(inst')} /\ inst'[ws] = S
  BY <1>1, <1>2, <1>5
<1> QED BY <1>3, <1>5, <1>6, <1>7 DEF Instances

\* A change of the document: its request's value, or the deletion of one.
LEMMA PutTurns ==
  ASSUME NEW t \in Tasks, Walking, IsRows(inst), Put(t), loc[t].ws \in 1..Len(inst)
  PROVE  Turns(t) /\ Instances(t) /\ Persists(t) /\ History(t)
<1>1. PICK kind \in Puts :
        LET before == IF kind \in {"map", "unmap", "blocks"} THEN WithPages(t) ELSE inst[loc[t].ws] IN
        /\ At(t, kind)
        /\ \E new \in CASE kind = "blocks" -> {{}}
                        [] kind = "del"    -> Deletion(before, {"obj", "str", "arr"})
                        [] kind = "unmap"  -> Deletion(before, {"map"})
                        [] OTHER           -> {{<<kind, loc[t].req, loc[t].ws>>}} :
             /\ inst' = [inst EXCEPT ![loc[t].ws] = before \cup new]
             /\ Becomes(t, [Then(t, <<>>) EXCEPT !.data = before, !.wrote = new])
        /\ UNCHANGED <<rows, cache, locks, keckVars>>
  BY DEF Put, Puts
<1>2. PICK before : before = IF kind \in {"map", "unmap", "blocks"} THEN WithPages(t) ELSE inst[loc[t].ws]
  OBVIOUS
<1>3. PICK new : /\ new \in CASE kind = "blocks" -> {{}}
                             [] kind = "del"    -> Deletion(before, {"obj", "str", "arr"})
                             [] kind = "unmap"  -> Deletion(before, {"map"})
                             [] OTHER           -> {{<<kind, loc[t].req, loc[t].ws>>}}
                 /\ inst' = [inst EXCEPT ![loc[t].ws] = before \cup new]
                 /\ Becomes(t, [Then(t, <<>>) EXCEPT !.data = before, !.wrote = new])
  BY <1>1, <1>2
<1>4. todo(t)[1] = kind /\ UNCHANGED <<cache, count, acked, wiped>> /\ ~Wipes(t)
  BY <1>1, AtHead, NoWipe DEF keckVars, Puts, Walking
<1>5. inst[loc[t].ws] \subseteq before /\ Reqs(before) \subseteq Reqs(inst[loc[t].ws])
  <2>1. before = inst[loc[t].ws] \/ before = inst[loc[t].ws] \cup {<<"pages", loc[t].req, loc[t].ws>>}
    BY <1>2 DEF WithPages
  <2>2. Kind(<<"pages", loc[t].req, loc[t].ws>>) \notin Values
    BY DEF Kind, Values
  <2> QED BY <2>1, <2>2, ReqsIs
<1>6. \A e \in new : \/ Kind(e) = "del"
                     \/ Kind(e) = kind /\ kind \in Values /\ Req(e) = loc[t].req
  <2>1. CASE kind = "blocks"
    BY <1>3, <2>1
  <2>2. CASE kind \in {"del", "unmap"}
    BY <1>3, <2>2 DEF Deletion, Kind
  <2>3. CASE kind \in Values
    <3>1. new = {<<kind, loc[t].req, loc[t].ws>>}
      BY <1>3, <2>3 DEF Values
    <3> QED BY <2>3, <3>1 DEF Kind, Req
  <2> QED BY <2>1, <2>2, <2>3 DEF Puts, Values
<1>7. Reqs(before \cup new) \subseteq Seen(t) /\ Reqs(before) \subseteq Seen(t)
  <2>1. Reqs(inst[loc[t].ws]) \subseteq Reqs(Entries)
    BY EntryOf, ReqsOfPart DEF IsRows
  <2>2. ASSUME NEW q \in Reqs(before \cup new) PROVE q \in Seen(t)
    <3>1. PICK e \in before \cup new : Kind(e) \in Values /\ Req(e) = q
      BY <2>2, ReqsIs
    <3>2. CASE e \in before
      BY <1>5, <2>1, <3>1, <3>2, ReqsIs DEF Seen
    <3>3. CASE e \in new
      BY <1>4, <1>6, <3>1, <3>3 DEF Seen, Values
    <3> QED BY <3>2, <3>3
  <2> QED BY <1>5, <2>1, <2>2 DEF Seen
<1>8. Instances(t) /\ inst'[loc[t].ws] = before \cup new
  <2>1. PICK S : S = before \cup new
    OBVIOUS
  <2>2. PICK ws : ws = loc[t].ws
    OBVIOUS
  <2>3. /\ ws \in 1..Len(inst) /\ inst[ws] \subseteq S /\ Reqs(S) \subseteq Seen(t)
        /\ inst' = [inst EXCEPT ![ws] = S] /\ cache' = cache /\ todo(t)[1] # "cached"
    BY <1>3, <1>4, <1>5, <1>7, <2>1, <2>2 DEF Puts
  <2>4. Instances(t) /\ inst'[ws] = S
    BY <2>3, GrowsInstance
  <2> QED BY <2>1, <2>2, <2>4
<1>9. PICK l : l = [Then(t, <<>>) EXCEPT !.data = before, !.wrote = new]
  OBVIOUS
<1>10. Becomes(t, l)
  BY <1>3, <1>9
<1>11. /\ l.req = loc[t].req /\ l.wrote = new /\ l.ws = loc[t].ws
       /\ l.ops = loc[t].ops /\ l.data = before /\ l.todo = Tail(todo(t))
  <2>1. /\ Shaped(Then(t, <<>>)) /\ Then(t, <<>>).todo = <<>> \o Tail(todo(t))
        /\ Then(t, <<>>).req = loc[t].req /\ Then(t, <<>>).ws = loc[t].ws
        /\ Then(t, <<>>).ops = loc[t].ops
    BY ThenShaped DEF Walking
  <2>2. <<>> \o Tail(todo(t)) = Tail(todo(t))
    <3>1. Tail(todo(t)) \in Seq(Step)
      BY <1>1, AtHead DEF Walking, Puts
    <3> QED BY <3>1
  <2> QED BY <1>9, <2>1, <2>2 DEF Shaped
<1>12. loc'[t] \in {l, Idle} /\ (loc'[t].todo # <<>> => loc'[t] = l)
  BY <1>10, BecomesOne
<1>13. Reqs(l.ops) \subseteq Seen(t)
  BY <1>11, EntryOf, ReqsOfPart DEF Seen
<1>14. Turns(t)
  BY <1>4, <1>5, <1>6, <1>7, <1>8, <1>11, <1>12, <1>13, IdleCarries DEF Turns, Puts
<1>15. Persists(t) /\ History(t)
  BY <1>4 DEF Persists, History, Puts
<1> QED BY <1>8, <1>14, <1>15

\* Nothing happens to the instances.
LEMMA StillInstances ==
  ASSUME NEW t \in Tasks, IsRows(inst), UNCHANGED inst, cache' \in {cache, 0}, todo(t)[1] # "cached"
  PROVE  Instances(t)
<1>1. \A i \in 1..Len(inst) : Reqs(inst[i]) \subseteq Seen(t)
  BY EntryOf, ReqsOfPart DEF Seen, IsRows
<1> QED BY <1>1 DEF Instances, IsRows

\* What is persisted: all that was changed, and every deletion.
LEMMA PersistTurns ==
  ASSUME NEW t \in Tasks, Walking, IsRows(inst), Persist(t), loc[t].ws \in 1..Len(inst)
  PROVE  Turns(t) /\ Instances(t) /\ Persists(t) /\ History(t)
<1>1. At(t, "persist") /\ todo(t) # <<>> /\ todo(t)[1] = "persist" /\ todo(t) \in Seq(Step)
  BY AtHead DEF Persist, Walking
<1>2. PICK update : update = Diff(inst[loc[t].ws], loc[t].data)
  OBVIOUS
<1>3. PICK steps : steps = IF update = {} THEN <<>> ELSE update_doc
  OBVIOUS
<1>4. PICK l : l = [Then(t, steps) EXCEPT !.ops = update, !.data = {}, !.ws = 0]
  OBVIOUS
<1>5. Becomes(t, l)
  BY <1>2, <1>3, <1>4 DEF Persist
<1>6. /\ l.req = loc[t].req /\ l.wrote = loc[t].wrote /\ l.ops = update /\ l.data = {}
      /\ l.todo = steps \o Tail(todo(t))
  <2>1. /\ Shaped(Then(t, steps)) /\ Then(t, steps).todo = steps \o Tail(todo(t))
        /\ Then(t, steps).req = loc[t].req /\ Then(t, steps).wrote = loc[t].wrote
    BY ThenShaped DEF Walking
  <2> QED BY <1>4, <2>1 DEF Shaped
<1>7. UNCHANGED <<inst, cache, count, acked, wiped>> /\ ~Wipes(t)
  BY <1>1, NoWipe DEF Persist, keckVars
<1>8. loc'[t] \in {l, Idle} /\ (loc'[t].todo # <<>> => loc'[t] = l)
  BY <1>5, BecomesOne
<1>9. update \subseteq Entries
  <2>1. update \subseteq inst[loc[t].ws]
    BY <1>2 DEF Diff, Deletes, OfKind
  <2> QED BY <2>1, EntryOf DEF IsRows
<1>10. Reqs(l.ops) \subseteq Seen(t) /\ Reqs(l.data) \subseteq Seen(t)
  BY <1>6, <1>9, ReqsOfPart, ReqsIs DEF Seen
<1>11. Turns(t)
  BY <1>1, <1>6, <1>8, <1>10, IdleCarries DEF Turns, Puts
<1>12. Persists(t)
  <2> SUFFICES ASSUME NEW e \in inst[loc[t].ws], Kind(e) = "del" \/ e \notin loc[t].data
               PROVE  e \in loc'[t].ops /\ \E i \in 1..Len(loc'[t].todo) : loc'[t].todo[i] = "insert"
    BY DEF Persists
  <2>1. e \in update
    BY <1>2 DEF Diff, Deletes, OfKind
  <2>2. l.todo = <<"lock", "count", "insert">> \o Tail(todo(t)) /\ Tail(todo(t)) \in Seq(Step)
    BY <1>1, <1>3, <1>6, <2>1 DEF update_doc
  <2>3. Len(l.todo) >= 3 /\ l.todo[3] = "insert" /\ l.todo # <<>> /\ Len(l.todo) \in Nat
    BY <2>2
  <2>4. l.todo # Idle.todo
    BY <2>3 DEF Idle
  <2>5. loc'[t] = l
    <3>1. loc' = [loc EXCEPT ![t] = l]
      BY <1>5, <2>3 DEF Becomes
    <3> QED BY <3>1 DEF Walking, Shape
  <2> QED BY <1>6, <2>1, <2>3, <2>5
<1>13. Instances(t)
  BY <1>1, <1>7, StillInstances
<1>14. History(t)
  BY <1>1, <1>7 DEF History
<1> QED BY <1>11, <1>12, <1>13, <1>14

\* Normalising and rebuilding write nothing for a request that wrote nothing.
LEMMA NormalizedReqs ==
  ASSUME NEW S, NEW ws
  PROVE  S \subseteq Normalized(S, ws) /\ Reqs(Normalized(S, ws)) \subseteq Reqs(S)
<1>1. S \subseteq Normalized(S, ws)
  BY DEF Normalized
<1>2. \A n \in Nested(S, "map", "obj") : n \in Reqs(S)
  <2> SUFFICES ASSUME NEW n \in Nested(S, "map", "obj") PROVE n \in Reqs(S)
    OBVIOUS
  <2>1. PICK e \in OfKind(Visible(S), {"map"}) : n = Req(e)
    BY DEF Nested
  <2>2. e \in S /\ Kind(e) = "map"
    BY <2>1 DEF OfKind, Visible, Ready
  <2> QED BY <2>1, <2>2, ReqsIs DEF Values
<1>3. ASSUME NEW q \in Reqs(Normalized(S, ws)) PROVE q \in Reqs(S)
  <2>1. PICK e \in Normalized(S, ws) : Kind(e) \in Values /\ Req(e) = q
    BY ReqsIs
  <2>2. CASE e \in S
    BY <2>1, <2>2, ReqsIs
  <2>3. CASE \E n \in Nested(S, "map", "obj") : e = <<"obj", n, ws>>
    BY <1>2, <2>1, <2>3 DEF Req
  <2>4. CASE \E n \in Nested(S, "pages", "flat") : e = <<"flat", n, ws>>
    BY <2>1, <2>4 DEF Kind, Values
  <2> QED BY <2>1, <2>2, <2>3, <2>4 DEF Normalized
<1> QED BY <1>1, <1>3

LEMMA RebuiltReqs == ASSUME NEW S PROVE Reqs(Rebuilt(S)) \subseteq Reqs(S)
<1> SUFFICES ASSUME NEW q \in Reqs(Rebuilt(S)) PROVE q \in Reqs(S)
  OBVIOUS
<1>1. PICK e \in Rebuilt(S) : Kind(e) \in Values /\ Req(e) = q
  BY ReqsIs
<1>2. PICK d \in OfKind(Visible(S), {"obj", "str", "flat"}) : e = <<Kind(d), Req(d), 0>>
  BY DEF Rebuilt
<1>3. Kind(d) = Kind(e) /\ Req(d) = Req(e)
  BY <1>2 DEF Kind, Req
<1>4. d \in S
  BY DEF OfKind, Visible, Ready
<1> QED BY <1>1, <1>3, <1>4, ReqsIs

LEMMA NormalizeTurns ==
  ASSUME NEW t \in Tasks, Walking, IsRows(inst), loc[t].ws \in 1..Len(inst),
         NEW step \in {"normalize", "import"}, NEW rebuild, Normalize(t, step, rebuild)
  PROVE  Turns(t) /\ Instances(t) /\ Persists(t) /\ History(t)
<1>1. At(t, step) /\ todo(t)[1] = step
  BY AtHead DEF Normalize, Walking
<1>2. PICK ws : ws = loc[t].ws
  OBVIOUS
<1>3. PICK S : S = Normalized(inst[ws], ws)
  OBVIOUS
<1>4. PICK first : first = CASE Rebuildable(S) -> rebuild
                             [] S # inst[ws]   -> full_migrate
                             [] OTHER          -> <<>>
  OBVIOUS
<1>5. PICK ops : ops = IF Rebuildable(S) THEN Rebuilt(S) ELSE S
  OBVIOUS
<1>6. PICK l : l = [Then(t, first) EXCEPT !.ops = ops, !.ws = 0]
  OBVIOUS
<1>7. /\ Becomes(t, l) /\ inst' = [inst EXCEPT ![ws] = S]
      /\ UNCHANGED <<cache, count, acked, wiped>>
  BY <1>2, <1>3, <1>4, <1>5, <1>6 DEF Normalize, keckVars
<1>8. ~Wipes(t)
  BY <1>1, NoWipe
<1>9. /\ l.req = loc[t].req /\ l.wrote = loc[t].wrote /\ l.ops = ops /\ l.data = loc[t].data
  BY <1>6, ThenShaped DEF Shaped, Walking
<1>10. loc'[t] \in {l, Idle} /\ (loc'[t].todo # <<>> => loc'[t] = l)
  BY <1>7, BecomesOne
<1>11. inst[ws] \subseteq S /\ Reqs(S) \subseteq Seen(t) /\ Reqs(ops) \subseteq Seen(t)
  <2>1. inst[ws] \subseteq S /\ Reqs(S) \subseteq Reqs(inst[ws])
    BY <1>3, NormalizedReqs
  <2>2. Reqs(inst[ws]) \subseteq Seen(t)
    BY <1>2, EntryOf, ReqsOfPart DEF Seen, IsRows
  <2>3. ops = S \/ ops = Rebuilt(S)
    BY <1>5
  <2> QED BY <2>1, <2>2, <2>3, RebuiltReqs
<1>12. Instances(t)
  BY <1>1, <1>2, <1>7, <1>11, GrowsInstance
<1>13. Reqs(l.data) \subseteq Seen(t)
  BY <1>9, EntryOf, ReqsOfPart DEF Seen
<1>14. Turns(t)
  BY <1>1, <1>9, <1>10, <1>11, <1>13, IdleCarries DEF Turns, Puts
<1>15. Persists(t) /\ History(t)
  BY <1>1, <1>7, <1>8 DEF Persists, History
<1> QED BY <1>12, <1>14, <1>15

\* Every step of a task but its last answer, if it has an instance to use.
LEMMA StepTurns ==
  ASSUME NEW t \in Tasks, Walking, IsRows(inst), ServerStep(t), ~Answer(t),
         todo(t)[1] \in Uses => loc[t].ws \in 1..Len(inst)
  PROVE  Turns(t) /\ Instances(t) /\ Persists(t) /\ History(t)
<1>1. CASE \/ Pass(t) \/ Forced(t) \/ Ack(t) \/ Forget(t) \/ Mark(t) \/ Rebuild(t) \/ RebuildDone(t)
           \/ Reopen(t, "look", <<>>) \/ Reopen(t, "open", <<"import">>)
  BY <1>1, HandlerTurns
<1>2. CASE Put(t)
  <2>1. \E kind \in Puts : At(t, kind)
    BY <1>2 DEF Put, Puts
  <2>2. todo(t)[1] \in Uses
    BY <2>1, AtHead DEF Uses, Walking
  <2> QED BY <1>2, <2>2, PutTurns
<1>3. CASE Persist(t)
  <2>1. todo(t)[1] \in Uses
    BY <1>3, AtHead DEF Persist, Uses, Walking
  <2> QED BY <1>3, <2>1, PersistTurns
<1>4. CASE \/ Normalize(t, "normalize", <<"rebuild">>)
           \/ Normalize(t, "import", full_migrate \o <<"mark">>)
  <2>1. \E step \in {"normalize", "import"} :
          \E rebuild \in {<<"rebuild">>, full_migrate \o <<"mark">>} : Normalize(t, step, rebuild)
    BY <1>4
  <2>2. todo(t)[1] \in Uses
    BY <2>1, AtHead DEF Normalize, Uses, Walking
  <2> QED BY <2>1, <2>2, NormalizeTurns
<1>5. CASE /\ StorageStep(t)
           /\ wiped' = IF Wipes(t) THEN count ELSE wiped
           /\ UNCHANGED <<rebuilt, rebuilder, count, acked, rebuilds>>
  <2>1. CASE Cached(t)
    BY <1>5, <2>1, CachedTurns
  <2>2. CASE ~Cached(t)
    BY <1>5, <2>2, StorageTurns
  <2> QED BY <2>1, <2>2
<1> QED BY <1>1, <1>2, <1>3, <1>4, <1>5 DEF ServerStep

\* What is put into the document is persisted next, and answered after that; nothing
\* is put into it after an import or a normalisation.
Saves(s) ==
  \A i \in 1..Len(s) :
    /\ s[i] # "ack" \/ i = Len(s)
    /\ s[i] \in Puts /\ i < Len(s) => s[i + 1] = "persist"
    /\ \A j \in i + 1..Len(s) :
         /\ s[i] \in Puts => s[j] \in {"persist", "ack"}
         /\ s[i] = "persist" => s[j] = "ack"
         /\ s[i] \in {"open", "import", "normalize"} => s[j] \in {"look", "export", "ack"}

\* The task has got its instance when it comes to the step.
Fetched(s, i) == \E j \in 1..i - 1 : s[j] \in {"cache", "cached"}

LEMMA SavesFollows ==
  ASSUME NEW s \in Seq(Step), s # <<>>, Saves(s), NEW n, NEW m, Follows(n, s, m)
  PROVE  Saves(n)
<1> DEFINE q(i) == i - m + 1
<1>1. /\ Len(s) \in Nat \ {0} /\ m \in Nat /\ Len(n) = m + Len(s) - 1
      /\ \A j \in m + 1..Len(n) : q(j) \in 2..Len(s) /\ n[j] = s[q(j)]
  BY Shifted DEF Follows
<1>2. \A i \in 1..m : n[i] \in Handled => n[i] = "import" /\ s[1] = "open" /\ i = m
  BY DEF Follows, FitsLinks
<1> SUFFICES ASSUME NEW i \in 1..Len(n)
             PROVE  /\ n[i] # "ack" \/ i = Len(n)
                    /\ n[i] \in Puts /\ i < Len(n) => n[i + 1] = "persist"
                    /\ \A j \in i + 1..Len(n) :
                         /\ n[i] \in Puts => n[j] \in {"persist", "ack"}
                         /\ n[i] = "persist" => n[j] = "ack"
                         /\ n[i] \in {"open", "import", "normalize"} =>
                              n[j] \in {"look", "export", "ack"}
  BY DEF Saves
<1>3. Puts \subseteq Handled /\ {"ack", "persist", "open", "import", "normalize"} \subseteq Handled
  BY DEF Handled, Uses
<1>4. CASE i \in 1..m
  <2>1. CASE n[i] \notin Handled
    BY <1>3, <2>1
  <2>2. CASE n[i] \in Handled
    <3>1. n[i] = "import" /\ s[1] = "open" /\ i = m
      BY <1>2, <1>4, <2>2
    <3>2. ASSUME NEW j \in i + 1..Len(n) PROVE n[j] \in {"look", "export", "ack"}
      <4>1. q(j) \in 1 + 1..Len(s) /\ n[j] = s[q(j)] /\ 1 \in 1..Len(s)
        BY <1>1, <3>1
      <4> QED BY <3>1, <4>1 DEF Saves
    <3> QED BY <3>1, <3>2 DEF Puts
  <2> QED BY <2>1, <2>2
<1>5. CASE i \in m + 1..Len(n)
  <2>1. q(i) \in 1..Len(s) /\ n[i] = s[q(i)] /\ (q(i) = Len(s) => i = Len(n))
        /\ (i < Len(n) => q(i) < Len(s))
    BY <1>1, <1>5
  <2>2. i < Len(n) => n[i + 1] = s[q(i) + 1]
    <3> SUFFICES ASSUME i < Len(n) PROVE n[i + 1] = s[q(i) + 1]
      OBVIOUS
    <3>1. i + 1 \in m + 1..Len(n) /\ q(i + 1) = q(i) + 1
      BY <1>1, <1>5
    <3> QED BY <1>1, <3>1
  <2>3. \A j \in i + 1..Len(n) : q(j) \in q(i) + 1..Len(s) /\ n[j] = s[q(j)]
    BY <1>1, <1>5
  <2> HIDE DEF q
  <2> QED BY <2>1, <2>2, <2>3 DEF Saves
<1> QED BY <1>1, <1>4, <1>5

\* How a request may start with respect to what it puts into the document.
Starting(s) ==
  /\ Saves(s) /\ \A i \in 1..Len(s) : s[i] \in Uses => Fetched(s, i)

LEMMA NoneHandled ==
  ASSUME NEW s, \A i \in 1..Len(s) : s[i] \notin Handled PROVE Starting(s)
<1>1. Puts \subseteq Handled /\ {"ack", "persist", "open", "import", "normalize"} \subseteq Handled
      /\ Uses \subseteq Handled
  BY DEF Handled, Uses
<1> QED BY <1>1 DEF Starting, Saves

\* A change, persisted and answered or not.
LEMMA OnePut ==
  ASSUME NEW s, s[1] = "find", s[2] = "cache", s[3] \in Puts,
         Len(s) = 3 \/ (Len(s) = 5 /\ s[4] = "persist" /\ s[5] = "ack")
  PROVE  Starting(s)
<1>1. /\ s[3] \notin {"find", "cache", "ack", "persist", "open", "import", "normalize"}
      /\ \A x \in {"find", "cache", "ack", "persist"} : x \notin Puts
  BY DEF Puts
<1>2. Saves(s)
  <2>1. CASE Len(s) = 3
    <3>1. \A i \in 1..Len(s) : i = 1 \/ i = 2 \/ i = 3
      BY <2>1
    <3> QED BY <1>1, <2>1, <3>1 DEF Saves
  <2>2. CASE Len(s) = 5 /\ s[4] = "persist" /\ s[5] = "ack"
    <3>1. \A i \in 1..Len(s) : i = 1 \/ i = 2 \/ i = 3 \/ i = 4 \/ i = 5
      BY <2>2
    <3>2. \A i \in 1..Len(s) :
            /\ s[i] # "ack" \/ i = Len(s)
            /\ s[i] \in Puts => i = 3
            /\ s[i] = "persist" => i = 4
            /\ s[i] \notin {"open", "import", "normalize"}
      BY <1>1, <2>2, <3>1
    <3>3. \A i \in 1..Len(s) : \A j \in i + 1..Len(s) :
            /\ i = 3 => s[j] \in {"persist", "ack"}
            /\ i = 4 => s[j] = "ack"
      BY <2>2, <3>1
    <3>4. ASSUME NEW i \in 1..Len(s)
          PROVE  /\ s[i] # "ack" \/ i = Len(s)
                 /\ s[i] \in Puts /\ i < Len(s) => s[i + 1] = "persist"
                 /\ \A j \in i + 1..Len(s) :
                      /\ s[i] \in Puts => s[j] \in {"persist", "ack"}
                      /\ s[i] = "persist" => s[j] = "ack"
                      /\ s[i] \in {"open", "import", "normalize"} => s[j] \in {"look", "export", "ack"}
      <4>1. s[i] \in Puts => s[i + 1] = "persist"
        BY <2>2, <3>2
      <4> QED BY <3>2, <3>3, <4>1
    <3> QED BY <3>4 DEF Saves
  <2> QED BY <2>1, <2>2
<1>3. ASSUME NEW i \in 1..Len(s), s[i] \in Uses PROVE Fetched(s, i)
  <2>1. i \in 3..Len(s)
    BY <1>3 DEF Uses, Puts
  <2>2. 2 \in 1..i - 1
    BY <2>1
  <2> QED BY <2>2 DEF Fetched
<1> QED BY <1>2, <1>3 DEF Starting

LEMMA ReadsStart == \A s \in Reads : Starting(s)
<1> SUFFICES ASSUME NEW s \in Reads PROVE Starting(s)
  OBVIOUS
<1>1. s \in {get_workspace, get_or_create_workspace, export_workspace, get_block}
  BY DEF Reads, get_map, get_map_key, get_array, get_array_element,
         get_doc_keys, subscribe_sse, get_block, get_block_by_flavour, get_block_children,
         get_workspace_block, workspace_client, workspace_clients, history_workspace,
         set_workspace
<1>2. CASE s = get_block
  <2>1. s[1] = "find" /\ s[2] = "cache" /\ s[3] = "blocks" /\ Len(s) = 3
    BY <1>2 DEF get_block, get_workspace, get_or_create_workspace
  <2> QED BY <2>1, OnePut DEF Puts
<1>3. CASE s \in {get_workspace, get_or_create_workspace, export_workspace}
  <2>1. \A i \in 1..Len(s) : s[i] \in {"find", "cache", "export"}
    BY <1>3 DEF get_workspace, get_or_create_workspace, export_workspace
  <2>2. \A i \in 1..Len(s) : s[i] \notin Handled
    BY <2>1 DEF Handled, Uses, Puts
  <2> QED BY <2>2, NoneHandled
<1> QED BY <1>1, <1>2, <1>3

LEMMA WritesStart == \A s \in Writes : Starting(s)
<1> SUFFICES ASSUME NEW s \in Writes PROVE Starting(s)
  OBVIOUS
<1>1. \E kind \in Puts : \/ s = get_workspace \o <<kind>> \o persist_and_broadcast
                         \/ s = get_workspace \o <<kind>>
  BY DEF Writes, Puts, set_map, modify_array, set_block, delete_map_key,
         delete_array_element, delete_block, insert_block_children, remove_block_children
<1>2. PICK kind \in Puts : \/ s = get_workspace \o <<kind>> \o persist_and_broadcast
                           \/ s = get_workspace \o <<kind>>
  BY <1>1
<1>3. CASE s = get_workspace \o <<kind>> \o persist_and_broadcast
  <2>1. /\ s[1] = "find" /\ s[2] = "cache" /\ s[3] = kind /\ s[4] = "persist" /\ s[5] = "ack"
        /\ Len(s) = 5
    BY <1>3 DEF get_workspace, get_or_create_workspace, persist_and_broadcast
  <2> QED BY <2>1, OnePut
<1>4. CASE s = get_workspace \o <<kind>>
  <2>1. s[1] = "find" /\ s[2] = "cache" /\ s[3] = kind /\ Len(s) = 3
    BY <1>4 DEF get_workspace, get_or_create_workspace
  <2> QED BY <2>1, OnePut
<1> QED BY <1>2, <1>3, <1>4

LEMMA DeleteStarts == Starting(delete_handler)
<1> DEFINE s == delete_handler
<1>1. Len(s) = 4 /\ s[1] = "forget" /\ s[2] = "uncache" /\ s[3] = "lock" /\ s[4] = "drop"
  BY DEF delete_handler, delete_workspace
<1> HIDE DEF s
<1>2. \A i \in 1..Len(s) : s[i] \notin Handled
  BY <1>1 DEF Handled, Uses, Puts
<1>3. Starting(s)
  BY <1>2, NoneHandled
<1> QED BY <1>3 DEF s

LEMMA UpgradeStarts == Starting(upgrade_handler)
<1> DEFINE s == upgrade_handler
<1>1. Len(s) = 4 /\ s[1] = "cache" /\ s[2] = "find" /\ s[3] = "cache" /\ s[4] = "normalize"
  BY DEF upgrade_handler, get_or_create_workspace, get_workspace
<1> HIDE DEF s
<1>2. Saves(s)
  BY <1>1 DEF Saves, Puts
<1>3. ASSUME NEW i \in 1..Len(s), s[i] \in Uses PROVE Fetched(s, i)
  <2>1. i = 4
    BY <1>1, <1>3 DEF Uses, Puts
  <2>2. 3 \in 1..i - 1
    BY <2>1
  <2> QED BY <1>1, <2>2 DEF Fetched
<1>4. Starting(s)
  BY <1>2, <1>3 DEF Starting
<1> QED BY <1>4 DEF s

LEMMA InitStarts ==
  ASSUME NEW force \in {"vacant", "force"}
  PROVE  /\ Starting(init_workspace(force))
         /\ \E i, j \in 1..Len(init_workspace(force)) :
              i < j /\ init_workspace(force)[i] = "clear" /\ init_workspace(force)[j] = "full"
         /\ \A i \in 1..Len(init_workspace(force)) : init_workspace(force)[i] \notin Puts
<1> DEFINE s == init_workspace(force)
<1>1. /\ Len(s) = 10
      /\ s[1] = force /\ s[2] = "load" /\ s[3] = "is_workspace" /\ s[4] = "clear"
      /\ s[5] = "full" /\ s[6] = "look" /\ s[7] = "open" /\ s[8] = "look"
      /\ s[9] = "export" /\ s[10] = "ack"
  BY DEF init_workspace, flush_workspace
<1> HIDE DEF s
<1>2. Saves(s)
  BY <1>1 DEF Saves, Puts
<1>3. \A i \in 1..Len(s) : s[i] \notin Uses
  BY <1>1 DEF Uses, Puts
<1>4. Starting(s)
  BY <1>2, <1>3 DEF Starting
<1>5. \E i, j \in 1..Len(s) : i < j /\ s[i] = "clear" /\ s[j] = "full"
  <2>1. 4 \in 1..Len(s) /\ 5 \in 1..Len(s) /\ 4 < 5
    BY <1>1
  <2> QED BY <1>1, <2>1
<1>6. \A i \in 1..Len(s) : s[i] \notin Puts
  BY <1>3 DEF Uses
<1> QED BY <1>4, <1>5, <1>6 DEF s

\* What is on record stays there while nothing is wiped.
LEMMA RecordKept ==
  ASSUME CalmInv, MergeHolds, NEW t \in Tasks, NEW m, Effect(t, m), ~Wipes(t),
         overlap' = (overlap \/ Cardinality(Replacing') > 1), overlap' # TRUE
  PROVE  OnRecord \subseteq OnRecord'
<1> DEFINE h == todo(t)[1]  n == loc'[t].todo
<1>1. Moves(t, m) /\ RowStep(t) /\ DataStep(t)
  BY DEF Effect
<1>2. /\ \A step : \A v \in Tasks \ {t} : At(v, step)' <=> At(v, step)
      /\ \A step : At(t, step)' <=> n # <<>> /\ n[1] = step
      /\ \A step : At(t, step) <=> h = step
      /\ todo(t) # <<>> /\ Path(todo(t)) /\ Follows(n, todo(t), m)
  BY <1>1, MovedAt DEF CalmInv
<1>3. /\ todo(t) \in Seq(Step) /\ n \in Seq(Step)
      /\ \A v \in Tasks \ {t} : loc'[v] = loc[v]
  BY <1>1, <1>2, ThenPath DEF Path, Moves
<1>4. overlap # TRUE
  OBVIOUS
<1>5. h # "drop" /\ ~(h = "clear" /\ Ahead(t, "full"))
  BY <1>2 DEF Wipes
<1>6. n # <<>> => (n[1] = "merged" => h = "clear")
  BY <1>2, NextHead
<1>7. IsRows(rows)
  BY DEF CalmInv, Rows
<1> HIDE DEF n, h
<1>8. ASSUME NEW e \in Held, NEW v \in Tasks \ {t}, At(v, "merged"), e \in loc[v].data
      PROVE  e \in Held'
  <2>1. At(v, "merged")' /\ e \in loc'[v].data
    BY <1>2, <1>3, <1>8
  <2> QED BY <2>1 DEF Held
<1>9. ASSUME NEW e \in Held, h # "merged" PROVE e \in Held'
  <2>1. PICK v \in Tasks : At(v, "merged") /\ e \in loc[v].data
    BY HeldIs
  <2>2. v # t
    BY <1>2, <1>9, <2>1
  <2> QED BY <1>8, <2>1, <2>2
<1>10. CASE h = "clear"
  <2>1. n # <<>>
    BY <1>2, <1>10, ClearGoesOn DEF h
  <2>2. n[1] \in {"merged", "full"}
    BY <1>2, <1>10, <2>1, NextHead DEF h
  <2>3. ~Ahead(t, "full")
    BY <1>5, <1>10
  <2>4. n[1] = "merged"
    <3>1. ~\E i \in 1..Len(todo(t)) : todo(t)[i] = "full"
      BY <1>3, <2>3, AheadIs
    <3>2. m = 0
      BY <1>2, <1>10 DEF Follows, FitsLinks, h
    <3>3. /\ Len(todo(t)) \in Nat \ {0} /\ Len(n) = 0 + Len(todo(t)) - 1
          /\ \A j \in 0 + 1..Len(n) : j - 0 + 1 \in 2..Len(todo(t)) /\ n[j] = todo(t)[j - 0 + 1]
      BY <1>2, <1>3, <3>2, Shifted DEF Follows
    <3>4. 1 \in 0 + 1..Len(n)
      BY <1>3, <2>1, <3>3
    <3>5. n[1] = todo(t)[2] /\ 2 \in 1..Len(todo(t))
      BY <3>3, <3>4
    <3> QED BY <2>2, <3>1, <3>5
  <2>5. loc'[t].data = loc[t].data
    BY <1>1, <1>10, <2>1 DEF DataStep, n, h
  <2>6. Contents(rows) \subseteq loc'[t].data
    BY <1>2, <1>4, <1>10, <2>3, <2>5 DEF MergeHolds
  <2>7. At(t, "merged")'
    BY <1>2, <2>1, <2>4
  <2>8. Contents(rows) \subseteq Held'
    BY <2>6, <2>7 DEF Held
  <2> QED BY <1>9, <1>10, <2>8 DEF OnRecord
<1>11. CASE h = "merged"
  <2>1. Contents(rows') = Contents(rows) \cup loc[t].data
    <3>1. rows' = Append(rows, Row(loc[t].data, loc[t].main))
      BY <1>1, <1>11 DEF RowStep, h
    <3> QED BY <1>7, <3>1, RowAdded
  <2>2. ASSUME NEW e \in Held PROVE e \in loc[t].data \/ e \in Held'
    <3>1. PICK v \in Tasks : At(v, "merged") /\ e \in loc[v].data
      BY HeldIs
    <3>2. CASE v = t
      BY <3>1, <3>2
    <3>3. CASE v # t
      BY <1>8, <3>1, <3>3
    <3> QED BY <3>2, <3>3
  <2>3. Contents(rows)' = Contents(rows')
    BY DEF Contents
  <2> QED BY <2>1, <2>2, <2>3 DEF OnRecord
<1>12. CASE h \notin {"clear", "merged"}
  <2>1. Contents(rows) \subseteq Contents(rows')
    <3>1. CASE h \in {"insert", "insert_empty", "full"}
      <4>1. \E ops : Contents(rows') = Contents(rows) \cup ops
        BY <1>1, <1>7, <3>1, RowAdded DEF RowStep, h
      <4> QED BY <4>1
    <3>2. CASE h \notin {"insert", "insert_empty", "full"}
      BY <1>1, <1>5, <1>12, <3>2 DEF RowStep, h
    <3> QED BY <3>1, <3>2
  <2>2. Contents(rows)' = Contents(rows')
    BY DEF Contents
  <2> QED BY <1>9, <1>12, <2>1, <2>2 DEF OnRecord
<1> QED BY <1>10, <1>11, <1>12

LEMMA RestartKept ==
  ASSUME CalmInv, NEW t \in Tasks, Restarts(t) PROVE OnRecord \subseteq OnRecord'
<1>1. /\ \A step : \A v \in Tasks \ {t} : At(v, step)' <=> At(v, step)
      /\ ~At(t, "merged") /\ \A v \in Tasks \ {t} : loc'[v] = loc[v]
  BY RestartAt, RestartWalks DEF Mid, CalmInv
<1>2. ASSUME NEW e \in Held PROVE e \in Held'
  <2>1. PICK v \in Tasks : At(v, "merged") /\ e \in loc[v].data
    BY HeldIs
  <2>2. At(v, "merged")' /\ e \in loc'[v].data
    BY <1>1, <2>1
  <2> QED BY <2>2 DEF Held
<1>3. Contents(rows)' = Contents(rows)
  BY DEF Restarts, Contents
<1> QED BY <1>2, <1>3 DEF OnRecord

LEMMA CrashKept ==
  ASSUME Crash, \A t \in Tasks : ~At(t, "merged") PROVE OnRecord \subseteq OnRecord'
<1>1. Held = {}
  BY DEF Held
<1>2. Contents(rows)' = Contents(rows)
  BY DEF Crash, Contents
<1> QED BY <1>1, <1>2 DEF OnRecord

\* A task that has no instance gets one first.
LEMMA FetchedFollows ==
  ASSUME NEW s \in Seq(Step), s # <<>>, Saves(s), NEW n, NEW m, Follows(n, s, m),
         s[1] \notin {"cache", "cached"}, NEW i \in 1..Len(n), n[i] \in Uses
  PROVE  /\ s[1] \notin {"persist", "normalize", "import"} \/ Fetched(n, i)
         /\ \/ Fetched(n, i)
            \/ \E k \in 1..Len(s) : s[k] \in Uses /\ ~Fetched(s, k)
<1>1. /\ Len(s) \in Nat \ {0} /\ m \in Nat /\ Len(n) = m + Len(s) - 1
      /\ \A j \in m + 1..Len(n) : j - m + 1 \in 2..Len(s) /\ n[j] = s[j - m + 1]
  BY Shifted DEF Follows
<1>2. n[i] \in Handled
  BY DEF Handled
<1>3. CASE i \in 1..m
  <2>1. i = 2 /\ n[1] = "cache"
    BY <1>2, <1>3 DEF Follows, FitsLinks
  <2>2. 1 \in 1..i - 1
    BY <2>1
  <2> QED BY <2>1, <2>2 DEF Fetched
<1>4. CASE i \in m + 1..Len(n)
  <2>1. PICK k \in 2..Len(s) : k = i - m + 1 /\ s[k] = n[i]
    BY <1>1, <1>4
  <2>2. s[1] \notin {"persist", "normalize", "import"}
    <3>1. 1 \in 1..Len(s) /\ k \in 1 + 1..Len(s)
      BY <1>1, <2>1
    <3>2. \A x \in {"ack", "look", "export"} : x \notin Uses
      BY DEF Uses, Puts
    <3> QED BY <2>1, <3>1, <3>2 DEF Saves
  <2>3. ASSUME Fetched(s, k) PROVE Fetched(n, i)
    <3>1. PICK j \in 1..k - 1 : s[j] \in {"cache", "cached"}
      BY <2>3 DEF Fetched
    <3>2. j # 1
      BY <3>1
    <3>3. j + m - 1 \in m + 1..Len(n) /\ j + m - 1 \in 1..i - 1 /\ (j + m - 1) - m + 1 = j
      BY <1>1, <2>1, <3>1, <3>2
    <3>4. n[j + m - 1] = s[j]
      BY <1>1, <3>3
    <3> QED BY <3>1, <3>3, <3>4 DEF Fetched
  <2> QED BY <2>1, <2>2, <2>3
<1> QED BY <1>1, <1>3, <1>4

\* Where all entries are after a step.
LEMMA EntryIs ==
  ASSUME NEW e
  PROVE  e \in Entries <=> \/ e \in Contents(rows)
                           \/ \E i \in DOMAIN inst : e \in inst[i]
                           \/ \E u \in Tasks : e \in loc[u].ops \cup loc[u].data
BY DEF Entries, Carried

LEMMA EntryIsNext ==
  ASSUME NEW e, e \in Entries'
  PROVE  \/ e \in Contents(rows')
         \/ \E i \in DOMAIN inst' : e \in inst'[i]
         \/ \E u \in Tasks : e \in loc'[u].ops \cup loc'[u].data
BY DEF Entries, Carried, Contents

\* No row is written but from what a task carries.
LEMMA RowsCarried ==
  ASSUME Rows, NEW t \in Tasks, RowStep(t) PROVE Contents(rows') \subseteq Entries
<1>1. IsRows(rows)
  BY DEF Rows
<1>2. /\ loc[t].ops \subseteq Entries /\ loc[t].data \subseteq Entries /\ Contents(rows) \subseteq Entries
  BY EntryOf
<1> DEFINE h == todo(t)[1]
<1>3. CASE h \in {"clear", "drop"}
  BY <1>3, NoRows DEF RowStep
<1>4. CASE h \in {"merged", "full", "insert", "insert_empty"}
  <2>1. \E ops \in {loc[t].ops, loc[t].data, {}} : Contents(rows') = Contents(rows) \cup ops
    <3>1. CASE h = "merged"
      <4>1. rows' = Append(rows, Row(loc[t].data, loc[t].main))
        BY <3>1 DEF RowStep
      <4>2. Contents(rows') = Contents(rows) \cup loc[t].data
        BY <1>1, <4>1, RowAdded
      <4> QED BY <4>2
    <3>2. CASE h = "full"
      <4>1. rows' = Append(rows, Row(loc[t].ops, loc[t].main))
        BY <3>2 DEF RowStep
      <4>2. Contents(rows') = Contents(rows) \cup loc[t].ops
        BY <1>1, <4>1, RowAdded
      <4> QED BY <4>2
    <3>3. CASE h = "insert"
      <4>1. rows' = Append(rows, Row(loc[t].ops, TRUE))
        BY <3>3 DEF RowStep
      <4>2. Contents(rows') = Contents(rows) \cup loc[t].ops
        BY <1>1, <4>1, RowAdded
      <4> QED BY <4>2
    <3>4. CASE h = "insert_empty"
      <4>1. rows' = Append(rows, Row({}, TRUE))
        BY <3>4 DEF RowStep
      <4>2. Contents(rows') = Contents(rows) \cup {}
        BY <1>1, <4>1, RowAdded
      <4> QED BY <4>2
    <3> QED BY <1>4, <3>1, <3>2, <3>3, <3>4
  <2> QED BY <1>2, <2>1
<1>5. CASE h \notin {"clear", "drop", "merged", "full", "insert", "insert_empty"}
  BY <1>2, <1>5 DEF RowStep
<1> QED BY <1>3, <1>4, <1>5

\* A step lets no request but its own appear.
LEMMA SeenNext ==
  ASSUME Rows, NEW t \in Tasks, NEW m, Moves(t, m), RowStep(t), Turns(t), Instances(t)
  PROVE  Reqs(Entries') \subseteq Seen(t)
<1> SUFFICES ASSUME NEW q \in Reqs(Entries') PROVE q \in Seen(t)
  OBVIOUS
<1>1. PICK e \in Entries' : Kind(e) \in Values /\ Req(e) = q
  BY ReqsIs
<1>2. Reqs(Entries) \subseteq Seen(t)
  BY DEF Seen
<1>3. CASE e \in Contents(rows')
  BY <1>1, <1>2, <1>3, RowsCarried, ReqsIs
<1>4. CASE \E i \in DOMAIN inst' : e \in inst'[i]
  <2>1. PICK i \in DOMAIN inst' : e \in inst'[i]
    BY <1>4
  <2>2. i \in 1..Len(inst')
    BY DEF Instances, IsRows
  <2> QED BY <1>1, <2>1, <2>2, ReqsIs DEF Instances
<1>5. CASE \E u \in Tasks : e \in loc'[u].ops \cup loc'[u].data
  <2>1. PICK u \in Tasks : e \in loc'[u].ops \cup loc'[u].data
    BY <1>5
  <2>2. CASE u = t
    BY <1>1, <2>1, <2>2, ReqsIs DEF Turns
  <2>3. CASE u # t
    <3>1. e \in Entries
      BY <2>1, <2>3, EntryOf DEF Moves
    <3> QED BY <1>1, <1>2, <3>1, ReqsIs
  <2> QED BY <2>2, <2>3
<1> QED BY <1>3, <1>4, <1>5, EntryIsNext

\* Where a change is until it is on record: in the instance and about to be persisted,
\* about to be inserted, or part of a workspace about to be replaced.
Safe(t, e) ==
  \/ overlap = TRUE
  \/ /\ todo(t)[1] = "persist" /\ e \in inst[loc[t].ws]
     /\ Kind(e) = "del" \/ e \notin loc[t].data
  \/ (\E i \in 1..Len(todo(t)) : todo(t)[i] = "insert") /\ e \in loc[t].ops
  \/ \E i, j \in 1..Len(todo(t)) : i < j /\ todo(t)[i] = "clear" /\ todo(t)[j] = "full"
  \/ e \in OnRecord

\* What the task has to do, and what it has written, with its request.
Account(t) ==
  todo(t) # <<>> =>
  /\ Saves(todo(t))
  /\ loc[t].req \in Nat /\ loc[t].req <= count
  /\ (\E i \in 1..Len(todo(t)) : todo(t)[i] \in Puts) => loc[t].wrote = {}
  /\ (\E i \in 1..Len(todo(t)) : todo(t)[i] \in Values) => loc[t].req \notin Reqs(Entries)
  /\ \A i \in 1..Len(todo(t)) : todo(t)[i] \in Uses =>
       loc[t].ws \in 1..Len(inst) \/ Fetched(todo(t), i)
  /\ \A e \in loc[t].wrote : /\ Kind(e) \in Values \cup {"del"}
                             /\ loc[t].req > wiped => Safe(t, e)

Counted ==
  /\ count \in Nat /\ wiped \in Nat /\ wiped <= count
  /\ IsRows(inst) /\ Len(inst) \in Nat /\ cache \in 0..Len(inst)
  /\ Reqs(Entries) \subseteq 0..count

Apart ==
  \A t, u \in Tasks : t # u /\ todo(t) # <<>> /\ todo(u) # <<>> => loc[t].req # loc[u].req

Answered ==
  \A a \in acked : /\ a[1] \in Nat /\ a[1] <= count /\ Kind(a[2]) \in Values \cup {"del"}
                   /\ a[1] > wiped => overlap = TRUE \/ a[2] \in OnRecord

Ledger == Counted /\ (\A t \in Tasks : Account(t)) /\ Apart /\ Answered

\* All that happened may have been taken away, or nothing was.
Keeps ==
  \/ wiped' = count'
  \/ wiped' = wiped /\ (overlap' = TRUE \/ OnRecord \subseteq OnRecord')

LEMMA AnsweredKept ==
  ASSUME Counted, Answered, Keeps, count' \in Nat, count <= count', acked' = acked,
         overlap = TRUE => overlap' = TRUE
  PROVE  Answered'
<1> SUFFICES ASSUME NEW a \in acked
             PROVE  /\ a[1] \in Nat /\ a[1] <= count' /\ Kind(a[2]) \in Values \cup {"del"}
                    /\ a[1] > wiped' => overlap' = TRUE \/ a[2] \in OnRecord'
  BY DEF Answered
<1>1. /\ a[1] \in Nat /\ a[1] <= count /\ Kind(a[2]) \in Values \cup {"del"}
      /\ a[1] > wiped => overlap = TRUE \/ a[2] \in OnRecord
  BY DEF Answered
<1>2. a[1] <= count'
  BY <1>1 DEF Counted
<1>3. CASE wiped' = count'
  BY <1>1, <1>2, <1>3
<1>4. CASE wiped' = wiped /\ (overlap' = TRUE \/ OnRecord \subseteq OnRecord')
  BY <1>1, <1>2, <1>4
<1> QED BY <1>3, <1>4 DEF Keeps

\* A task that does not move keeps its account.
LEMMA OthersAccount ==
  ASSUME NEW u \in Tasks, Account(u), Counted, loc'[u] = loc[u], todo(u) \in Seq(Step), Keeps,
         count' \in Nat, count <= count', overlap = TRUE => overlap' = TRUE,
         Len(inst') \in Nat, Len(inst) <= Len(inst'),
         \A i \in 1..Len(inst) : inst[i] \subseteq inst'[i],
         todo(u) # <<>> /\ loc[u].req \in Reqs(Entries') => loc[u].req \in Reqs(Entries)
  PROVE  Account(u)'
<1>1. todo(u)' = todo(u)
  BY DEF todo
<1> SUFFICES ASSUME todo(u) # <<>>
             PROVE  /\ Saves(todo(u))
                    /\ loc[u].req \in Nat /\ loc[u].req <= count'
                    /\ (\E i \in 1..Len(todo(u)) : todo(u)[i] \in Puts) => loc[u].wrote = {}
                    /\ (\E i \in 1..Len(todo(u)) : todo(u)[i] \in Values) =>
                         loc[u].req \notin Reqs(Entries')
                    /\ \A i \in 1..Len(todo(u)) : todo(u)[i] \in Uses =>
                         loc[u].ws \in 1..Len(inst') \/ Fetched(todo(u), i)
                    /\ \A e \in loc[u].wrote : /\ Kind(e) \in Values \cup {"del"}
                                               /\ loc[u].req > wiped' => Safe(u, e)'
  <2>1. Reqs(Entries)' = Reqs(Entries')
    BY DEF Reqs, OfKind, Kind, Req
  <2> QED BY <1>1, <2>1 DEF Account
<1>2. /\ Saves(todo(u))
      /\ loc[u].req \in Nat /\ loc[u].req <= count
      /\ (\E i \in 1..Len(todo(u)) : todo(u)[i] \in Puts) => loc[u].wrote = {}
      /\ (\E i \in 1..Len(todo(u)) : todo(u)[i] \in Values) => loc[u].req \notin Reqs(Entries)
      /\ \A i \in 1..Len(todo(u)) : todo(u)[i] \in Uses =>
           loc[u].ws \in 1..Len(inst) \/ Fetched(todo(u), i)
      /\ \A e \in loc[u].wrote : /\ Kind(e) \in Values \cup {"del"}
                                 /\ loc[u].req > wiped => Safe(u, e)
  BY DEF Account
<1>3. loc[u].req <= count' /\ 1..Len(inst) \subseteq 1..Len(inst')
  BY <1>2 DEF Counted
<1>4. ASSUME NEW e \in loc[u].wrote, loc[u].req > wiped' PROVE Safe(u, e)'
  <2>1. wiped' # count'
    BY <1>2, <1>3, <1>4
  <2>2. wiped' = wiped /\ (overlap' = TRUE \/ OnRecord \subseteq OnRecord')
    BY <2>1 DEF Keeps
  <2>3. Safe(u, e)
    BY <1>2, <1>4, <2>2
  <2>4. CASE overlap = TRUE \/ overlap' = TRUE
    BY <2>4 DEF Safe
  <2>5. CASE /\ todo(u)[1] = "persist" /\ e \in inst[loc[u].ws]
             /\ Kind(e) = "del" \/ e \notin loc[u].data
    <3>1. 1 \in 1..Len(todo(u)) /\ "persist" \in Uses /\ ~Fetched(todo(u), 1)
      BY DEF Uses, Fetched
    <3>2. loc[u].ws \in 1..Len(inst)
      BY <1>2, <2>5, <3>1
    <3>3. e \in inst'[loc'[u].ws]
      BY <2>5, <3>2
    <3> QED BY <1>1, <2>5, <3>3 DEF Safe
  <2>6. CASE (\E i \in 1..Len(todo(u)) : todo(u)[i] = "insert") /\ e \in loc[u].ops
    BY <1>1, <2>6 DEF Safe
  <2>7. CASE \E i, j \in 1..Len(todo(u)) : i < j /\ todo(u)[i] = "clear" /\ todo(u)[j] = "full"
    BY <1>1, <2>7 DEF Safe
  <2>8. CASE e \in OnRecord /\ OnRecord \subseteq OnRecord'
    BY <2>8 DEF Safe
  <2> QED BY <2>2, <2>3, <2>4, <2>5, <2>6, <2>7, <2>8 DEF Safe
<1> QED BY <1>2, <1>3, <1>4

\* A change that is ahead was ahead before, and no change was made.
LEMMA PutsAhead ==
  ASSUME NEW s \in Seq(Step), s # <<>>, Saves(s), NEW n, NEW m, Follows(n, s, m),
         NEW i \in 1..Len(n), n[i] \in Puts
  PROVE  s[1] \notin Puts /\ \E k \in 1..Len(s) : s[k] = n[i]
<1>1. /\ Len(s) \in Nat \ {0} /\ m \in Nat /\ Len(n) = m + Len(s) - 1
      /\ \A j \in m + 1..Len(n) : j - m + 1 \in 2..Len(s) /\ n[j] = s[j - m + 1]
  BY Shifted DEF Follows
<1>2. n[i] \in Handled /\ n[i] # "import"
  BY DEF Handled, Uses, Puts
<1>3. i \in m + 1..Len(n)
  BY <1>1, <1>2 DEF Follows, FitsLinks
<1>4. PICK k \in 2..Len(s) : s[k] = n[i]
  BY <1>1, <1>3
<1>5. s[1] \notin Puts
  <2>1. 1 \in 1..Len(s) /\ k \in 1 + 1..Len(s) /\ s[k] \notin {"persist", "ack"}
    BY <1>1, <1>4 DEF Puts
  <2> QED BY <2>1 DEF Saves
<1> QED BY <1>4, <1>5

\* What is to be replaced as a whole stays ahead until it is wiped.
LEMMA ClearFollows ==
  ASSUME NEW s \in Seq(Step), s # <<>>, NEW n, NEW m, Follows(n, s, m), s[1] # "clear",
         \E i, j \in 1..Len(s) : i < j /\ s[i] = "clear" /\ s[j] = "full"
  PROVE  \E i, j \in 1..Len(n) : i < j /\ n[i] = "clear" /\ n[j] = "full"
<1>1. /\ Len(s) \in Nat \ {0} /\ m \in Nat /\ Len(n) = m + Len(s) - 1
      /\ \A j \in m + 1..Len(n) : j - m + 1 \in 2..Len(s) /\ n[j] = s[j - m + 1]
  BY Shifted DEF Follows
<1>2. PICK i \in 1..Len(s), j \in 1..Len(s) : i < j /\ s[i] = "clear" /\ s[j] = "full"
  OBVIOUS
<1>3. \A k \in 2..Len(s) : k + m - 1 \in 1..Len(n) /\ n[k + m - 1] = s[k]
  <2> SUFFICES ASSUME NEW k \in 2..Len(s) PROVE k + m - 1 \in 1..Len(n) /\ n[k + m - 1] = s[k]
    OBVIOUS
  <2>1. k + m - 1 \in m + 1..Len(n) /\ k + m - 1 \in 1..Len(n) /\ (k + m - 1) - m + 1 = k
    BY <1>1
  <2> QED BY <1>1, <2>1
<1>4. i \in 2..Len(s) /\ j \in 2..Len(s)
  BY <1>2
<1>5. i + m - 1 < j + m - 1
  BY <1>1, <1>2
<1> QED BY <1>2, <1>3, <1>4, <1>5

\* A step that is no answer, of a task with its account in order.
Stepped(t, m) ==
  /\ Effect(t, m) /\ Turns(t) /\ Instances(t) /\ Persists(t) /\ History(t)
  /\ overlap' = (overlap \/ Cardinality(Replacing') > 1)

LEMMA StepKeeps ==
  ASSUME CalmInv, MergeHolds, NEW t \in Tasks, NEW m, Stepped(t, m)
  PROVE  Keeps
<1>1. CASE Wipes(t)
  BY <1>1 DEF Stepped, History, Keeps
<1>2. CASE ~Wipes(t) /\ overlap' # TRUE
  BY <1>2, RecordKept DEF Stepped, History, Keeps
<1>3. CASE ~Wipes(t) /\ overlap' = TRUE
  BY <1>3 DEF Stepped, History, Keeps
<1> QED BY <1>1, <1>2, <1>3

\* The first step of a task that is at it.
LEMMA StepFacts ==
  ASSUME CalmInv, NEW t \in Tasks, NEW m, Stepped(t, m)
  PROVE  /\ todo(t) # <<>> /\ Path(todo(t)) /\ todo(t) \in Seq(Step)
         /\ Follows(loc'[t].todo, todo(t), m) /\ loc'[t].todo \in Seq(Step)
         /\ \A step : At(t, step) <=> todo(t)[1] = step
<1>1. Moves(t, m)
  BY DEF Stepped, Effect
<1>2. /\ todo(t) # <<>> /\ Path(todo(t)) /\ Follows(loc'[t].todo, todo(t), m)
      /\ \A step : At(t, step) <=> todo(t)[1] = step
  BY <1>1, MovedAt DEF CalmInv
<1>3. Path(loc'[t].todo)
  BY <1>2, ThenPath
<1> QED BY <1>2, <1>3 DEF Path

\* Where what a task has written goes with its step.
LEMMA WroteKept ==
  ASSUME CalmInv, MergeHolds, Ledger, NEW t \in Tasks, NEW m, Stepped(t, m),
         loc'[t].todo # <<>>, todo(t)[1] \notin Puts, NEW e \in loc[t].wrote,
         loc[t].req > wiped', overlap' # TRUE
  PROVE  Safe(t, e)'
<1> DEFINE s == todo(t)  h == s[1]  n == loc'[t].todo  k == loc'[t]
<1>1. /\ s # <<>> /\ Path(s) /\ s \in Seq(Step) /\ Follows(n, s, m) /\ n \in Seq(Step)
      /\ \A step : At(t, step) <=> h = step
  BY StepFacts
<1>2. /\ Saves(s) /\ loc[t].req \in Nat /\ loc[t].req <= count
      /\ loc[t].req > wiped => Safe(t, e)
  BY <1>1 DEF Ledger, Account
<1>3. wiped' = wiped /\ count' = count /\ ~Wipes(t) /\ OnRecord \subseteq OnRecord'
  <2>1. ~Wipes(t)
    BY <1>2 DEF Stepped, History, Ledger, Counted
  <2> QED BY <2>1, RecordKept DEF Stepped, History
<1>4. todo(t)' = n
  BY DEF todo
<1>5. overlap # TRUE
  BY DEF Stepped
<1>6. Safe(t, e)
  BY <1>2, <1>3
<1> HIDE DEF s, h, n, k
<1>7. CASE s[1] = "persist" /\ e \in inst[loc[t].ws] /\ (Kind(e) = "del" \/ e \notin loc[t].data)
  <2>1. e \in k.ops /\ \E i \in 1..Len(n) : n[i] = "insert"
    BY <1>7 DEF Stepped, Persists, s, n, k
  <2> QED BY <1>4, <2>1 DEF Safe, k
<1>8. CASE (\E i \in 1..Len(s) : s[i] = "insert") /\ e \in loc[t].ops
  <2>1. CASE h = "insert"
    <3>1. rows' = Append(rows, Row(loc[t].ops, TRUE))
      BY <2>1 DEF Stepped, Effect, RowStep, h, s
    <3>2. Contents(rows') = Contents(rows) \cup loc[t].ops
      BY <3>1, RowAdded DEF CalmInv, Rows
    <3>3. e \in Contents(rows)'
      BY <1>8, <3>2 DEF Contents
    <3> QED BY <3>3 DEF Safe, OnRecord
  <2>2. CASE h # "insert"
    <3>1. \E i \in 1..Len(n) : n[i] = "insert"
      BY <1>1, <1>8, <2>2, AheadFollows DEF h
    <3>2. PICK i \in 1..Len(s) : s[i] = "insert"
      BY <1>8
    <3>3. 1 \in 1..Len(s) /\ i # 1
      BY <1>1, <2>2, <3>2 DEF h
    <3>4. h \notin {"full", "normalize", "import"}
      <4>1. "insert" \in Writing /\ {"full", "normalize", "import"} \subseteq Rewriting
        BY DEF Writing, Rewriting
      <4>2. ~(s[i] \in Writing /\ s[1] \in Rewriting)
        BY <1>1, <3>3 DEF Path
      <4> QED BY <3>2, <4>1, <4>2 DEF h
    <3>5. h # "persist"
      <4>1. i \in 1 + 1..Len(s)
        BY <1>1, <3>3
      <4> QED BY <1>2, <3>2, <3>3, <4>1 DEF Saves, h
    <3>6. k.ops = loc[t].ops
      BY <2>2, <3>4, <3>5 DEF Stepped, Turns, h, s, k
    <3> QED BY <1>4, <1>8, <3>1, <3>6 DEF Safe, k
  <2> QED BY <2>1, <2>2
<1>9. CASE \E i, j \in 1..Len(s) : i < j /\ s[i] = "clear" /\ s[j] = "full"
  <2>1. h # "clear"
    <3>1. Ahead(t, "full")
      BY <1>1, <1>9, AheadIs DEF s
    <3> QED BY <1>1, <1>3, <3>1 DEF Wipes
  <2>2. \E i, j \in 1..Len(n) : i < j /\ n[i] = "clear" /\ n[j] = "full"
    BY <1>1, <1>9, <2>1, ClearFollows DEF h
  <2> QED BY <1>4, <2>2 DEF Safe
<1>10. CASE e \in OnRecord
  BY <1>3, <1>10 DEF Safe
<1> QED BY <1>5, <1>6, <1>7, <1>8, <1>9, <1>10 DEF Safe, s

\* What a change wrote is in the instance, and persisted next.
LEMMA PutSafe ==
  ASSUME CalmInv, Ledger, NEW t \in Tasks, NEW m, Stepped(t, m), loc'[t].todo # <<>>,
         todo(t)[1] \in Puts, NEW e \in loc'[t].wrote
  PROVE  Kind(e) \in Values \cup {"del"} /\ Safe(t, e)'
<1> DEFINE s == todo(t)  h == s[1]  n == loc'[t].todo  k == loc'[t]
<1>1. s # <<>> /\ s \in Seq(Step)
  BY StepFacts
<1>2. /\ Saves(s)
      /\ (\E i \in 1..Len(s) : s[i] \in Values) => loc[t].req \notin Reqs(Entries)
      /\ \A i \in 1..Len(s) : s[i] \in Uses => loc[t].ws \in 1..Len(inst) \/ Fetched(s, i)
  BY <1>1 DEF Ledger, Account
<1>3. 1 \in 1..Len(s) /\ h \in Uses /\ ~Fetched(s, 1)
  BY <1>1 DEF Uses, Fetched
<1>4. loc[t].ws \in 1..Len(inst)
  BY <1>2, <1>3
<1>5. /\ k.req = loc[t].req /\ n = Tail(s) /\ Reqs(k.data) \subseteq Reqs(inst[k.ws])
      /\ e \in inst'[k.ws]
      /\ Kind(e) = "del" \/ (Kind(e) = h /\ h \in Values /\ Req(e) = k.req)
  BY DEF Stepped, Turns
<1>6. k.ws = loc[t].ws
  BY DEF Stepped, Turns, Puts
<1>7. n[1] = "persist"
  <2>1. Len(s) > 1 /\ n[1] = s[2]
    BY <1>1, <1>5
  <2> QED BY <1>1, <1>2, <1>3, <2>1 DEF Saves
<1>8. Kind(e) = "del" \/ e \notin k.data
  <2> SUFFICES ASSUME Kind(e) # "del", e \in k.data PROVE FALSE
    OBVIOUS
  <2>1. Req(e) \in Reqs(k.data)
    BY <1>5, ReqsIs
  <2>2. loc[t].req \in Reqs(inst[loc[t].ws])
    BY <1>5, <1>6, <2>1
  <2>3. loc[t].req \in Reqs(Entries)
    <3>1. inst[loc[t].ws] \subseteq Entries
      BY <1>4, EntryOf DEF Ledger, Counted, IsRows
    <3>2. Reqs(inst[loc[t].ws]) \subseteq Reqs(Entries)
      BY <3>1, ReqsOfPart
    <3> QED BY <2>2, <3>2
  <2> QED BY <1>2, <1>3, <1>5, <2>3
<1>9. todo(t)' = n
  BY DEF todo
<1>10. Safe(t, e)'
  BY <1>5, <1>7, <1>8, <1>9 DEF Safe
<1> QED BY <1>5, <1>10

LEMMA OwnWs ==
  ASSUME CalmInv, Ledger, NEW t \in Tasks, NEW m, Stepped(t, m), loc'[t].todo # <<>>,
         NEW i \in 1..Len(loc'[t].todo), loc'[t].todo[i] \in Uses
  PROVE  loc'[t].ws \in 1..Len(inst') \/ Fetched(loc'[t].todo, i)
<1> DEFINE s == todo(t)  h == s[1]  n == loc'[t].todo  k == loc'[t]
<1>1. s # <<>> /\ s \in Seq(Step) /\ n \in Seq(Step) /\ Follows(n, s, m)
  BY StepFacts
<1>2. /\ Saves(s)
      /\ \A j \in 1..Len(s) : s[j] \in Uses => loc[t].ws \in 1..Len(inst) \/ Fetched(s, j)
  BY <1>1 DEF Ledger, Account
<1>3. Len(inst) \in Nat /\ Len(inst') \in Nat /\ Len(inst) <= Len(inst') /\ cache \in 0..Len(inst)
  BY DEF Stepped, Instances, Ledger, Counted
<1>4. CASE h = "cached"
  <2>1. k.ws = Len(inst') /\ Len(inst') = Len(inst) + 1
    BY <1>4 DEF Stepped, Turns, Instances
  <2> QED BY <1>3, <2>1
<1>5. CASE h = "cache"
  <2>1. (k.ws = cache /\ cache # 0) \/ Loads(n)
    BY <1>5 DEF Stepped, Turns
  <2>2. CASE k.ws = cache /\ cache # 0
    BY <1>3, <2>2
  <2>3. CASE Loads(n)
    <3>1. i \notin {1, 2, 3}
      BY <2>3 DEF Loads, Uses, Puts
    <3>2. 3 \in 1..i - 1 /\ n[3] = "cached"
      BY <1>1, <2>3, <3>1 DEF Loads
    <3> QED BY <3>2 DEF Fetched
  <2> QED BY <2>1, <2>2, <2>3
<1>6. CASE h \notin {"cache", "cached"}
  <2>1. /\ h \notin {"persist", "normalize", "import"} \/ Fetched(n, i)
        /\ \/ Fetched(n, i)
           \/ \E j \in 1..Len(s) : s[j] \in Uses /\ ~Fetched(s, j)
    BY <1>1, <1>2, <1>6, FetchedFollows
  <2>2. CASE ~Fetched(n, i)
    <3>1. k.ws = loc[t].ws
      BY <1>6, <2>1, <2>2 DEF Stepped, Turns
    <3>2. loc[t].ws \in 1..Len(inst)
      BY <1>2, <2>1, <2>2
    <3> QED BY <1>3, <3>1, <3>2
  <2> QED BY <2>2
<1> QED BY <1>4, <1>5, <1>6

LEMMA OwnAccount ==
  ASSUME CalmInv, MergeHolds, Ledger, NEW t \in Tasks, NEW m, Stepped(t, m)
  PROVE  Account(t)'
<1> DEFINE s == todo(t)  h == s[1]  n == loc'[t].todo  k == loc'[t]
<1>1. todo(t)' = n /\ Reqs(Entries)' = Reqs(Entries')
  BY DEF todo, Reqs, OfKind, Kind, Req
<1> SUFFICES ASSUME n # <<>>
             PROVE  /\ Saves(n)
                    /\ k.req \in Nat /\ k.req <= count'
                    /\ (\E i \in 1..Len(n) : n[i] \in Puts) => k.wrote = {}
                    /\ (\E i \in 1..Len(n) : n[i] \in Values) => k.req \notin Reqs(Entries')
                    /\ \A i \in 1..Len(n) : n[i] \in Uses =>
                         k.ws \in 1..Len(inst') \/ Fetched(n, i)
                    /\ \A e \in k.wrote : /\ Kind(e) \in Values \cup {"del"}
                                          /\ k.req > wiped' => Safe(t, e)'
  BY <1>1 DEF Account
<1>2. s # <<>> /\ s \in Seq(Step) /\ n \in Seq(Step) /\ Follows(n, s, m)
  BY StepFacts
<1>3. /\ Saves(s) /\ loc[t].req \in Nat /\ loc[t].req <= count
      /\ (\E i \in 1..Len(s) : s[i] \in Puts) => loc[t].wrote = {}
      /\ (\E i \in 1..Len(s) : s[i] \in Values) => loc[t].req \notin Reqs(Entries)
      /\ \A e \in loc[t].wrote : Kind(e) \in Values \cup {"del"}
  BY <1>2 DEF Ledger, Account
<1>4. Saves(n)
  BY <1>2, <1>3, SavesFollows
<1>5. k.req = loc[t].req /\ (h \notin Puts => k.wrote = loc[t].wrote) /\ count' = count
  BY DEF Stepped, Turns, History
<1> HIDE DEF s, h, n, k
<1>6. ASSUME NEW i \in 1..Len(n), n[i] \in Puts
      PROVE  h \notin Puts /\ \E j \in 1..Len(s) : s[j] = n[i]
  BY <1>2, <1>3, <1>6, PutsAhead DEF h
<1>7. (\E i \in 1..Len(n) : n[i] \in Puts) => k.wrote = {}
  BY <1>3, <1>5, <1>6
<1>8. ASSUME NEW i \in 1..Len(n), n[i] \in Values PROVE k.req \notin Reqs(Entries')
  <2>1. Values \subseteq Puts
    BY DEF Values, Puts
  <2>2. h \notin Values /\ loc[t].req \notin Reqs(Entries)
    BY <1>3, <1>6, <1>8, <2>1
  <2>3. Seen(t) = Reqs(Entries)
    BY <2>2 DEF Seen, h, s
  <2>4. Reqs(Entries') \subseteq Seen(t)
    BY SeenNext DEF Stepped, Effect, CalmInv
  <2> QED BY <1>5, <2>2, <2>3, <2>4
<1>9. ASSUME NEW i \in 1..Len(n), n[i] \in Uses PROVE k.ws \in 1..Len(inst') \/ Fetched(n, i)
  BY <1>9, OwnWs DEF n, k
<1>10. ASSUME NEW e \in k.wrote
       PROVE  Kind(e) \in Values \cup {"del"} /\ (k.req > wiped' => Safe(t, e)')
  <2>1. CASE h \in Puts
    BY <1>10, <2>1, PutSafe DEF n, k, h, s
  <2>2. CASE h \notin Puts
    <3>1. e \in loc[t].wrote /\ Kind(e) \in Values \cup {"del"}
      BY <1>3, <1>5, <1>10, <2>2
    <3>2. CASE overlap' = TRUE
      BY <3>1, <3>2 DEF Safe
    <3>3. ASSUME overlap' # TRUE, k.req > wiped' PROVE Safe(t, e)'
      BY <1>5, <2>2, <3>1, <3>3, WroteKept DEF n, h, s
    <3> QED BY <3>1, <3>2, <3>3
  <2> QED BY <2>1, <2>2
<1> QED BY <1>3, <1>4, <1>5, <1>7, <1>8, <1>9, <1>10

\* The ledger is kept by every step that is no answer.
LEMMA SteppedLedger ==
  ASSUME CalmInv, MergeHolds, Ledger, NEW t \in Tasks, NEW m, Stepped(t, m)
  PROVE  Ledger'
<1>1. /\ todo(t) # <<>> /\ todo(t) \in Seq(Step)
      /\ \A u \in Tasks \ {t} : loc'[u] = loc[u] /\ todo(u)' = todo(u)
      /\ \A u \in Tasks : todo(u) \in Seq(Step)
  BY StepFacts DEF Stepped, Effect, Moves, todo, CalmInv, Walking, Paths, Path
<1>2. Keeps /\ (overlap = TRUE => overlap' = TRUE) /\ count' = count
  BY StepKeeps DEF Stepped, History
<1>3. Reqs(Entries') \subseteq Seen(t)
  BY SeenNext DEF Stepped, Effect, CalmInv
<1>4. loc[t].req \in Nat /\ loc[t].req <= count /\ count \in Nat
  BY <1>1 DEF Ledger, Account, Counted
<1>5. Counted'
  <2>1. Reqs(Entries') \subseteq 0..count
    BY <1>3, <1>4 DEF Seen, Ledger, Counted
  <2>2. wiped' \in Nat /\ wiped' <= count
    BY DEF Stepped, History, Ledger, Counted
  <2>3. /\ IsRows(inst') /\ Len(inst') \in Nat /\ cache' \in 0..Len(inst')
    BY DEF Stepped, Instances, Ledger, Counted
  <2>4. Reqs(Entries)' = Reqs(Entries')
    BY DEF Reqs, OfKind, Kind, Req
  <2> QED BY <1>2, <1>4, <2>1, <2>2, <2>3, <2>4 DEF Counted, IsRows
<1>6. ASSUME NEW u \in Tasks PROVE Account(u)'
  <2>1. CASE u = t
    BY <2>1, OwnAccount
  <2>2. CASE u # t
    <3>1. todo(u) # <<>> /\ loc[u].req \in Reqs(Entries') => loc[u].req \in Reqs(Entries)
      BY <1>1, <1>3, <2>2 DEF Seen, Ledger, Apart
    <3>2. /\ Len(inst') \in Nat /\ Len(inst) <= Len(inst')
          /\ \A i \in 1..Len(inst) : inst[i] \subseteq inst'[i]
      BY DEF Stepped, Instances
    <3>3. Account(u) /\ Counted /\ count' \in Nat /\ count <= count'
      BY <1>2, <1>4 DEF Ledger
    <3> QED BY <1>1, <1>2, <2>2, <3>1, <3>2, <3>3, OthersAccount
  <2> QED BY <2>1, <2>2
<1>7. Apart'
  <2>1. loc'[t].todo # <<>> => loc'[t].req = loc[t].req
    BY DEF Stepped, Turns
  <2>2. \A u \in Tasks : todo(u)' # <<>> => todo(u) # <<>> /\ loc'[u].req = loc[u].req
    BY <1>1, <2>1 DEF todo
  <2> QED BY <2>2 DEF Ledger, Apart
<1>8. Answered'
  <2>1. CASE todo(t)[1] # "ack"
    <3>1. acked' = acked
      BY <2>1 DEF Stepped, History
    <3>2. Counted /\ Answered /\ count' \in Nat /\ count <= count'
      BY <1>2, <1>4 DEF Ledger
    <3> QED BY <1>2, <3>1, <3>2, AnsweredKept
  <2>2. CASE todo(t)[1] = "ack"
    <3>1. /\ acked' = acked \cup {<<loc[t].req, e>> : e \in loc[t].wrote}
          /\ ~Wipes(t) /\ wiped' = wiped
      <4>1. ~Wipes(t)
        BY <2>2, StepFacts DEF Wipes
      <4> QED BY <2>2, <4>1 DEF Stepped, History
    <3>2. overlap' = TRUE \/ OnRecord \subseteq OnRecord'
      BY <3>1, RecordKept DEF Stepped
    <3>3. ASSUME NEW e \in loc[t].wrote
          PROVE  /\ Kind(e) \in Values \cup {"del"}
                 /\ loc[t].req > wiped => overlap = TRUE \/ e \in OnRecord
      <4>1. /\ Kind(e) \in Values \cup {"del"}
            /\ loc[t].req > wiped => Safe(t, e)
            /\ Saves(todo(t))
        BY <1>1 DEF Ledger, Account
      <4>2. \A i \in 1..Len(todo(t)) : todo(t)[i] = "ack"
        BY <1>1, <2>2, <4>1 DEF Saves
      <4> QED BY <2>2, <4>1, <4>2 DEF Safe
    <3>4. ASSUME NEW a \in acked'
          PROVE  /\ a[1] \in Nat /\ a[1] <= count' /\ Kind(a[2]) \in Values \cup {"del"}
                 /\ a[1] > wiped' => overlap' = TRUE \/ a[2] \in OnRecord'
      <4>1. CASE a \in acked
        BY <1>2, <3>1, <3>2, <4>1 DEF Ledger, Answered
      <4>2. CASE \E e \in loc[t].wrote : a = <<loc[t].req, e>>
        <5>1. PICK e \in loc[t].wrote : a = <<loc[t].req, e>>
          BY <4>2
        <5>2. a[1] = loc[t].req /\ a[2] = e
          BY <5>1
        <5> QED BY <1>2, <1>4, <3>1, <3>2, <3>3, <5>2
      <4> QED BY <3>1, <4>1, <4>2
    <3> QED BY <3>4 DEF Answered
  <2> QED BY <2>1, <2>2
<1> QED BY <1>5, <1>6, <1>7, <1>8 DEF Ledger

\* A request that begins, or an answer that ends one.
LEMMA RestartLedger ==
  ASSUME CalmInv, Ledger, NEW t \in Tasks, Restarts(t),
         overlap' = (overlap \/ Cardinality(Replacing') > 1),
         UNCHANGED <<inst, cache, acked, wiped>>, Account(t)',
         \/ count' = count /\ loc'[t].todo = <<>> /\ Reqs(loc'[t].ops \cup loc'[t].data) = {}
         \/ /\ count' = count + 1 /\ loc'[t].req = count'
            /\ Reqs(loc'[t].ops \cup loc'[t].data) \subseteq {count'}
  PROVE  Ledger'
<1>1. /\ \A u \in Tasks \ {t} : loc'[u] = loc[u] /\ todo(u)' = todo(u)
      /\ \A u \in Tasks : todo(u) \in Seq(Step)
  BY RestartWalks DEF CalmInv, Walking, Paths, Path, todo
<1>2. /\ count \in Nat /\ count' \in Nat /\ count <= count'
      /\ Len(inst) \in Nat /\ cache \in 0..Len(inst) /\ wiped \in Nat /\ wiped <= count
      /\ Reqs(Entries) \subseteq 0..count
  BY DEF Ledger, Counted
<1>3. Keeps
  BY RestartKept DEF Keeps
<1>4. overlap = TRUE => overlap' = TRUE
  OBVIOUS
<1>5. ASSUME NEW q \in Reqs(Entries') PROVE q \in Reqs(Entries) \/ (q = count' /\ count' = count + 1)
  <2>1. PICK e \in Entries' : Kind(e) \in Values /\ Req(e) = q
    BY ReqsIs
  <2>2. CASE e \in Contents(rows') \/ \E i \in DOMAIN inst' : e \in inst'[i]
    <3>1. e \in Entries
      BY <2>2, EntryOf DEF Restarts
    <3> QED BY <2>1, <3>1, ReqsIs
  <2>3. CASE \E u \in Tasks : e \in loc'[u].ops \cup loc'[u].data
    <3>1. PICK u \in Tasks : e \in loc'[u].ops \cup loc'[u].data
      BY <2>3
    <3>2. CASE u = t
      <4>1. q \in Reqs(loc'[t].ops \cup loc'[t].data)
        BY <2>1, <3>1, <3>2, ReqsIs
      <4> QED BY <4>1
    <3>3. CASE u # t
      <4>1. e \in Entries
        BY <1>1, <3>1, <3>3, EntryOf
      <4> QED BY <2>1, <4>1, ReqsIs
    <3> QED BY <3>2, <3>3
  <2> QED BY <2>1, <2>2, <2>3, EntryIsNext
<1>6. Reqs(Entries)' = Reqs(Entries')
  BY DEF Reqs, OfKind, Kind, Req
<1>7. Counted'
  <2>1. \A q \in Reqs(Entries') : q \in 0..count'
    BY <1>2, <1>5
  <2> QED BY <1>2, <1>6, <2>1 DEF Ledger, Counted, IsRows
<1>8. ASSUME NEW u \in Tasks PROVE Account(u)'
  <2>1. CASE u # t
    <3>1. ASSUME todo(u) # <<>>, loc[u].req \in Reqs(Entries') PROVE loc[u].req \in Reqs(Entries)
      <4>1. loc[u].req \in Nat /\ loc[u].req <= count
        BY <3>1 DEF Ledger, Account
      <4> QED BY <1>2, <1>5, <3>1, <4>1
    <3>2. Account(u) /\ Counted
      BY DEF Ledger
    <3>3. /\ Len(inst') \in Nat /\ Len(inst) <= Len(inst')
          /\ \A i \in 1..Len(inst) : inst[i] \subseteq inst'[i]
      BY <1>2
    <3> QED BY <1>1, <1>2, <1>3, <1>4, <2>1, <3>1, <3>2, <3>3, OthersAccount
  <2> QED BY <2>1
<1>9. Apart'
  <2>1. ASSUME NEW u \in Tasks \ {t}, todo(u)' # <<>>, todo(t)' # <<>>
        PROVE  loc'[u].req # loc'[t].req
    <3>1. loc[u].req \in Nat /\ loc[u].req <= count /\ loc'[u].req = loc[u].req
      BY <1>1, <2>1 DEF Ledger, Account
    <3>2. loc'[t].req = count + 1
      BY <2>1 DEF todo
    <3> QED BY <1>2, <3>1, <3>2
  <2>2. ASSUME NEW u \in Tasks \ {t}, NEW v \in Tasks \ {t}, u # v, todo(u)' # <<>>, todo(v)' # <<>>
        PROVE  loc'[u].req # loc'[v].req
    BY <1>1, <2>2 DEF Ledger, Apart
  <2>3. ASSUME NEW u \in Tasks, NEW v \in Tasks, u # v, todo(u)' # <<>>, todo(v)' # <<>>
        PROVE  loc'[u].req # loc'[v].req
    <3>1. CASE u = t
      BY <2>1, <2>3, <3>1
    <3>2. CASE v = t
      BY <2>1, <2>3, <3>2
    <3> QED BY <2>2, <2>3, <3>1, <3>2
  <2> QED BY <2>3 DEF Apart
<1>10. Answered'
  BY <1>2, <1>3, <1>4, AnsweredKept DEF Ledger
<1> QED BY <1>7, <1>8, <1>9, <1>10 DEF Ledger

LEMMA AnswerLedger ==
  ASSUME CalmInv, Ledger, NEW t \in Tasks, Answer(t),
         overlap' = (overlap \/ Cardinality(Replacing') > 1)
  PROVE  Ledger'
<1>1. Restarts(t) /\ loc'[t] = Idle
  BY AnswerRestarts DEF CalmInv
<1>2. UNCHANGED <<inst, cache, acked, wiped, count>>
  BY DEF Answer, keckVars
<1>3. loc'[t].todo = <<>> /\ Reqs(loc'[t].ops \cup loc'[t].data) = {}
  BY <1>1, ReqsIs DEF Idle
<1>4. Account(t)'
  BY <1>3 DEF Account, todo
<1> QED BY <1>1, <1>2, <1>3, <1>4, RestartLedger

LEMMA RequestLedger ==
  ASSUME CalmInv, Ledger, NEW t \in Tasks, Request(t),
         overlap' = (overlap \/ Cardinality(Replacing') > 1)
  PROVE  Ledger'
<1>1. Restarts(t)
  BY RequestRestarts DEF CalmInv
<1>2. PICK path, data :
        /\ Begin(t, path, data) /\ Starting(path)
        /\ \/ data = {}
           \/ /\ \E kind \in {"map", "str"} : data = {<<kind, count + 1, 0>>}
              /\ \E i, j \in 1..Len(path) : i < j /\ path[i] = "clear" /\ path[j] = "full"
              /\ \A i \in 1..Len(path) : path[i] \notin Puts
  <2>1. CASE \E path \in Reads \cup Writes \cup {delete_handler, upgrade_handler} :
               Begin(t, path, {})
    BY <2>1, ReadsStart, WritesStart, DeleteStarts, UpgradeStarts
  <2>2. CASE \E force \in {"vacant", "force"}, kind \in {"map", "str"} :
               Begin(t, init_workspace(force), {<<kind, count + 1, 0>>})
    <3>1. PICK force \in {"vacant", "force"}, kind \in {"map", "str"} :
               Begin(t, init_workspace(force), {<<kind, count + 1, 0>>})
      BY <2>2
    <3> QED BY <3>1, InitStarts
  <2> QED BY <2>1, <2>2 DEF Request
<1>3. PICK l : l = [Idle EXCEPT !.req = count', !.todo = path, !.ops = data, !.wrote = data]
  OBVIOUS
<1>4. l.req = count' /\ l.todo = path /\ l.ops = data /\ l.wrote = data /\ l.data = {}
  BY <1>3 DEF Idle
<1>5. loc'[t] = l /\ count' = count + 1 /\ UNCHANGED <<inst, cache, acked, wiped>>
  BY <1>2, <1>3 DEF Begin, CalmInv, Walking, Shape
<1>6. count \in Nat /\ Reqs(Entries) \subseteq 0..count
  BY DEF Ledger, Counted
<1>7. \A e \in data : Kind(e) \in {"map", "str"} /\ Req(e) = count + 1
  BY <1>2 DEF Kind, Req
<1>8. Reqs(loc'[t].ops \cup loc'[t].data) \subseteq {count'}
  BY <1>4, <1>5, <1>7, ReqsIs
<1>9. todo(t)' = path
  BY <1>4, <1>5 DEF todo
<1>10. ASSUME data = {}, NEW q \in Reqs(Entries') PROVE q \in Reqs(Entries)
  <2>1. PICK e \in Entries' : Kind(e) \in Values /\ Req(e) = q
    BY <1>10, ReqsIs
  <2>2. e \in Entries
    <3>1. \A u \in Tasks : \/ loc'[u].ops \cup loc'[u].data = {}
                           \/ loc'[u] = loc[u]
      BY <1>1, <1>4, <1>5, <1>10, RestartWalks DEF CalmInv
    <3> QED BY <1>1, <1>5, <2>1, <3>1, EntryIsNext, EntryIs DEF Restarts
  <2> QED BY <2>1, <2>2, ReqsIs
<1>11. (\E i \in 1..Len(path) : path[i] \in Values) => count' \notin Reqs(Entries')
  <2>1. Values \subseteq Puts
    BY DEF Values, Puts
  <2> QED BY <1>2, <1>5, <1>6, <1>10, <2>1
<1>12. ASSUME NEW e \in data PROVE Safe(t, e)'
  BY <1>2, <1>9, <1>12 DEF Safe
<1>13. Account(t)'
  <2>1. /\ Saves(path) /\ \A i \in 1..Len(path) : path[i] \in Uses => Fetched(path, i)
    BY <1>2 DEF Starting
  <2>2. (\E i \in 1..Len(path) : path[i] \in Puts) => data = {}
    BY <1>2
  <2>3. Reqs(Entries)' = Reqs(Entries')
    BY DEF Reqs, OfKind, Kind, Req
  <2>4. \A e \in data : Kind(e) \in Values \cup {"del"}
    BY <1>7 DEF Values
  <2>5. count' \in Nat /\ count' <= count'
    BY <1>5, <1>6
  <2> QED BY <1>4, <1>5, <1>9, <1>11, <1>12, <2>1, <2>2, <2>3, <2>4, <2>5 DEF Account
<1> QED BY <1>1, <1>4, <1>5, <1>8, <1>13, RestartLedger

LEMMA CrashLedger ==
  ASSUME CalmInv, Ledger, Crash, overlap' = overlap PROVE Ledger'
<1>1. /\ \A t \in Tasks : loc'[t] = Idle /\ todo(t)' = <<>>
      /\ cache' = 0 /\ UNCHANGED <<rows, inst, acked, count>>
      /\ wiped' = IF \E t \in Tasks : At(t, "merged") \/ At(t, "full") THEN count ELSE wiped
  BY CrashIsIdle DEF Crash, CalmInv
<1>2. Keeps
  <2>1. CASE \E t \in Tasks : At(t, "merged") \/ At(t, "full")
    BY <1>1, <2>1 DEF Keeps
  <2>2. CASE ~\E t \in Tasks : At(t, "merged") \/ At(t, "full")
    BY <1>1, <2>2, CrashKept DEF Keeps
  <2> QED BY <2>1, <2>2
<1>3. Counted'
  <2>1. ASSUME NEW e \in Entries' PROVE e \in Entries
    <3>1. \A u \in Tasks : loc'[u].ops \cup loc'[u].data = {}
      BY <1>1 DEF Idle
    <3> QED BY <1>1, <3>1, EntryIsNext, EntryIs
  <2>2. Reqs(Entries') \subseteq Reqs(Entries)
    BY <2>1, ReqsOfPart
  <2>3. Reqs(Entries)' = Reqs(Entries')
    BY DEF Reqs, OfKind, Kind, Req
  <2>4. wiped' \in Nat /\ wiped' <= count
    BY <1>1 DEF Ledger, Counted
  <2>5. cache' \in 0..Len(inst')
    BY <1>1 DEF Ledger, Counted
  <2> QED BY <1>1, <2>2, <2>3, <2>4, <2>5 DEF Ledger, Counted, IsRows
<1>4. \A t \in Tasks : Account(t)'
  BY <1>1 DEF Account
<1>5. Apart'
  BY <1>1 DEF Apart
<1>6. Answered'
  <2>1. Counted /\ Answered /\ count' \in Nat /\ count <= count'
    BY <1>1 DEF Ledger, Counted
  <2> QED BY <1>1, <1>2, <2>1, AnsweredKept
<1> QED BY <1>3, <1>4, <1>5, <1>6 DEF Ledger

LEMMA StutterLedger ==
  ASSUME Ledger, UNCHANGED vars PROVE Ledger'
<1>1. UNCHANGED <<rows, inst, cache, loc, overlap, count, acked, wiped>>
  BY DEF vars, storageVars, keckVars
<1>2. OnRecord' = OnRecord /\ Reqs(Entries)' = Reqs(Entries)
  BY <1>1 DEF OnRecord, Held, Contents, At, Reqs, OfKind, Entries, Carried, Kind, Req
<1>3. Counted'
  BY <1>1, <1>2 DEF Ledger, Counted, IsRows
<1>4. ASSUME NEW t \in Tasks PROVE Account(t)'
  <2>1. todo(t)' = todo(t) /\ loc'[t] = loc[t]
    BY <1>1 DEF todo
  <2>2. \A e : Safe(t, e)' <=> Safe(t, e)
    BY <1>1, <1>2, <2>1 DEF Safe
  <2>3. Account(t)
    BY DEF Ledger
  <2> QED BY <1>1, <1>2, <2>1, <2>2, <2>3 DEF Account
<1>5. Apart'
  BY <1>1 DEF Ledger, Apart, todo
<1>6. Answered'
  BY <1>1, <1>2 DEF Ledger, Answered
<1> QED BY <1>3, <1>4, <1>5, <1>6 DEF Ledger

LEMMA NextLedger ==
  ASSUME CalmInv, MergeHolds, Ledger, [Next]_vars PROVE Ledger'
<1>1. CASE /\ \E t \in Tasks : Request(t) \/ ServerStep(t)
           /\ overlap' = (overlap \/ Cardinality(Replacing') > 1)
  <2>1. PICK t \in Tasks : Request(t) \/ ServerStep(t)
    BY <1>1
  <2>2. CASE Request(t)
    BY <1>1, <2>2, RequestLedger
  <2>3. CASE Answer(t)
    BY <1>1, <2>3, AnswerLedger
  <2>4. CASE ServerStep(t) /\ ~Answer(t)
    <3>1. PICK m : Effect(t, m)
      BY <2>4, StepEffect DEF CalmInv
    <3>2. todo(t)[1] \in Uses => loc[t].ws \in 1..Len(inst)
      <4>1. todo(t) # <<>> /\ todo(t) \in Seq(Step)
        BY <3>1, MovedAt DEF Effect, CalmInv, Path
      <4>2. 1 \in 1..Len(todo(t)) /\ ~Fetched(todo(t), 1)
        BY <4>1 DEF Fetched
      <4> QED BY <4>1, <4>2 DEF Ledger, Account
    <3>3. Turns(t) /\ Instances(t) /\ Persists(t) /\ History(t)
      BY <2>4, <3>2, StepTurns DEF Ledger, Counted, CalmInv
    <3>4. Stepped(t, m)
      BY <1>1, <3>1, <3>3 DEF Stepped
    <3> QED BY <3>4, SteppedLedger
  <2> QED BY <2>1, <2>2, <2>3, <2>4
<1>2. CASE Crash /\ UNCHANGED overlap
  BY <1>2, CrashLedger
<1>3. CASE UNCHANGED vars
  BY <1>3, StutterLedger
<1> QED BY <1>1, <1>2, <1>3 DEF Next

LEMMA InitLedger == ASSUME Init PROVE Ledger
<1>1. /\ inst = <<>> /\ cache = 0 /\ count = 0 /\ wiped = 0 /\ acked = {}
      /\ \A t \in Tasks : loc[t] = Idle /\ todo(t) = <<>>
  BY DEF Init, StorageInit, Idle, todo
<1>2. \A e \in Contents(rows) : Req(e) = 0
  <2>1. CASE rows = <<>>
    BY <2>1, NoRows
  <2>2. CASE rows = <<Row({<<"map", 0, 0>>, <<"pages", 0, 0>>}, TRUE)>>
    <3>1. PICK S : S = {<<"map", 0, 0>>, <<"pages", 0, 0>>}
      OBVIOUS
    <3>2. DOMAIN rows = {1} /\ rows[1].ops = S
      BY <2>2, <3>1 DEF Row
    <3>3. \A e \in Contents(rows) : e \in S
      BY <3>2 DEF Contents
    <3>4. \A e \in S : Req(e) = 0
      BY <3>1 DEF Req
    <3> QED BY <3>3, <3>4
  <2> QED BY <2>1, <2>2 DEF Init
<1>3. \A e \in Entries : Req(e) = 0
  <2>1. \A u \in Tasks : loc[u].ops \cup loc[u].data = {}
    BY <1>1 DEF Idle
  <2> QED BY <1>1, <1>2, <2>1, EntryIs
<1>4. Reqs(Entries) \subseteq 0..count
  BY <1>1, <1>3, ReqsIs
<1>5. IsRows(inst)
  BY <1>1, NoRows
<1>6. Counted
  BY <1>1, <1>4, <1>5 DEF Counted
<1> QED BY <1>1, <1>6 DEF Ledger, Account, Apart, Answered

(* With one permit of the bucket, and unless two replacements of the rows
   overlapped: what a handler has persisted and answered since the workspace was last
   wiped stays on record through
   the merges, loads and restarts that follow, for any number of requests, tasks
   and rows. *)
THEOREM WritesAreKept ==
  ASSUME Permits = 1 PROVE Spec => []AckedKept
<1>1. Init => CalmInv /\ MergeHolds /\ Ledger
  BY InitWalks, InitCalm, InitIsDurable, InitLedger DEF CalmInv
<1>2. CalmInv /\ MergeHolds /\ Ledger /\ [Next]_vars => (CalmInv /\ MergeHolds /\ Ledger)'
  BY NextWalks, NextBounded, NextRows, NextCalm, NextMergeHolds, NextLedger DEF CalmInv
<1>3. Ledger => AckedKept
  <2> SUFFICES ASSUME Ledger, overlap # TRUE, NEW a \in acked, a[1] > wiped
               PROVE  Kept(a[2], OnRecord)
    BY DEF AckedKept
  <2>1. a[2] \in OnRecord /\ Kind(a[2]) \in Values \cup {"del"}
    BY DEF Ledger, Answered
  <2>2. Kind(a[2]) # "del" => Req(a[2]) \in Reqs(OnRecord)
    BY <2>1, ReqsIs
  <2> QED BY <2>1, <2>2 DEF Kept
<1> QED BY <1>1, <1>2, <1>3, PTL DEF Spec
=============================================================================
