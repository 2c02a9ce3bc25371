---------------------------- MODULE BlocksProofs ----------------------------
(***************************************************************************)
(* Proofs about Blocks, for any blocks, tasks, lists and any number of     *)
(* operations, however their steps interleave: no half block is left       *)
(* behind, "space:updated" logs the blocks there are, and a block on which *)
(* operations did not meet is as they asked.                               *)
(***************************************************************************)
EXTENDS Blocks, WellFoundedInduction, TLAPS

Active(t) == task[t].pc # "idle"

\* Tasks and map objects are records.
Shaped(x) == x = [op |-> x.op, pc |-> x.pc, map |-> x.map, kids |-> x.kids, child |-> x.child,
                  name |-> x.name, at |-> x.at]
Object == [flavour : Flavour \cup {FirstFlavour, None}, parent : Block \cup {None},
           kids : Name \cup {None}, content : Nat]

Shape ==
  /\ blocks \in [Block -> Name \cup {None}]
  /\ updated \subseteq Block
  /\ object \in [Name -> Object]
  /\ task = [t \in Task |-> task[t]]
  /\ \A t \in Task : Shaped(task[t])
  /\ started \in 0..MaxOps

\* What an operation may be at.
Kinds ==
  \A t \in Task :
    /\ Active(t) => task[t].op \in Op
    /\ ~Active(t) => task[t] = Idle
    /\ task[t].pc \in {"make", "get", "flavour", "children", "handle", "newlog", "content"} =>
         task[t].op.kind = "set"
    /\ task[t].pc \in {"drop", "unlog"} => task[t].op.kind = "remove"
    /\ task[t].pc \in {"adopt", "find", "cut", "cutlog", "again", "place", "put"} =>
         task[t].op.kind \in {"insert", "take"}
    /\ task[t].pc = "log" => task[t].op.kind \in {"set", "insert", "take"}

\* The maps there are were loaded or made by operations started before, and the
\* name of one that is still to be made is nobody else's.
Old == Block \cup 1..started
Named ==
  /\ \A b \in Block : blocks[b] \in Old \cup {None}
  /\ \A t \in Task :
       /\ task[t].map \in Old \cup {None}
       /\ Active(t) => task[t].name \in 1..started
       /\ task[t].pc = "make" => /\ \A b \in Block : blocks[b] # task[t].name
                                 /\ \A u \in Task : task[u].map # task[t].name
  /\ \A t, u \in Task : Active(t) /\ Active(u) /\ t # u => task[t].name # task[u].name

\* A map is one block's, and the handle of an operation is on its own block.
Owned ==
  /\ \A b, c \in Block : blocks[b] = blocks[c] /\ b # c => blocks[b] = None
  /\ \A t \in Task, b \in Block :
       Active(t) /\ blocks[b] = task[t].map /\ b # task[t].op.block => blocks[b] = None

\* Operations that meet mix what they touch.
Meeting ==
  \A t, u \in Task :
    Active(t) /\ Active(u) /\ t # u /\ Touched(task[t].op) \cap Touched(task[u].op) # {} =>
      Touched(task[t].op) \subseteq mixed

\* The block and its log entry, nothing under way, and where an operation is
\* on them that meets no other.
Same(b) == b \in updated <=> IsBlock(b)
Midway(t, b) ==
  LET pc == task[t].pc IN
    /\ b # task[t].op.block \/ pc = "drop" \/ task[t].op.kind \in {"insert", "take"} => Same(b)
    /\ b = task[t].op.block =>
         /\ task[t].op.kind \in {"insert", "take"} => IsBlock(b)
         /\ pc = "unlog" => ~IsBlock(b)
         /\ pc \in {"handle", "newlog", "content", "log"} => IsBlock(b)
         /\ pc \in {"flavour", "children", "handle"} => blocks[b] = task[t].map
         /\ pc \in {"get", "flavour", "children"} => blocks[b] # None
Logged ==
  \A b \in Block \ mixed :
    /\ Untouched(b) => Same(b)
    /\ \A t \in Task : Active(t) /\ b \in Touched(task[t].op) => Midway(t, b)

BlocksInv == /\ Shape /\ Kinds /\ Named /\ Owned /\ Meeting /\ Logged /\ NoHalfBlock

-----------------------------------------------------------------------------
(* Operations, names and writes.                                           *)

LEMMA Ops ==
  ASSUME NEW o \in Op
  PROVE  /\ o.block \in Block /\ Touched(o) \subseteq Block /\ o.block \in Touched(o)
         /\ o.kind \in {"set", "remove", "insert", "take"}
         /\ o.kind = "set" => o.flavour \in Flavour
         /\ o.kind \in {"insert", "take"} => o.child \in Block /\ o.child # o.block
PROOF
<1>1. Holder \subseteq Block
  BY BlocksAssumption
<1>2. CASE o \in [kind : {"set"}, block : Block, flavour : Flavour]
  BY <1>2 DEF Touched
<1>3. CASE o \in [kind : {"remove"}, block : Block]
  BY <1>3 DEF Touched
<1>4. CASE o \in [kind : {"insert"}, block : Holder, child : Block, where : Where] /\ o.block # o.child
  BY <1>1, <1>4 DEF Touched
<1>5. CASE o \in [kind : {"take"}, block : Holder, child : Block] /\ o.block # o.child
  BY <1>1, <1>5 DEF Touched
<1>6. QED BY <1>2, <1>3, <1>4, <1>5 DEF Op

LEMMA Names ==
  /\ MaxOps \in Nat /\ None \notin Name /\ None \notin Block /\ None \notin 1..MaxOps
  /\ 1..MaxOps \subseteq Name /\ Block \subseteq Name
  /\ \A b \in Block : b \notin 1..MaxOps
PROOF BY BlocksAssumption DEF Name

\* A write of anything but the children array leaves that alone.
LEMMA Writing ==
  ASSUME object \in [Name -> Object], NEW m, NEW v,
         NEW key \in {"flavour", "parent", "content"},
         key = "flavour" => v \in Flavour, key = "parent" => v \in Block, key = "content" => v \in Nat
  PROVE  /\ Write(m, key, v) \in [Name -> Object]
         /\ \A n \in Name : Write(m, key, v)[n].kids = object[n].kids
PROOF
<1>1. CASE ~LiveMap(m)
  BY <1>1 DEF Write
<1>2. CASE LiveMap(m)
  <2>1. CASE key = "flavour"
    BY <1>2, <2>1 DEF Write, Object
  <2>2. CASE key = "parent"
    BY <1>2, <2>2 DEF Write, Object
  <2>3. CASE key = "content"
    BY <1>2, <2>3 DEF Write, Object
  <2>4. QED BY <2>1, <2>2, <2>3
<1>3. QED BY <1>1, <1>2

LEMMA WritingKids ==
  ASSUME object \in [Name -> Object], NEW m, NEW v \in Name
  PROVE  /\ Write(m, "kids", v) \in [Name -> Object]
         /\ \A n \in Name : Write(m, "kids", v)[n].kids = IF n = m /\ LiveMap(m) THEN v
                                                          ELSE object[n].kids
PROOF
<1>1. CASE ~LiveMap(m)
  BY <1>1 DEF Write
<1>2. CASE LiveMap(m)
  BY <1>2 DEF Write, Object
<1>3. QED BY <1>1, <1>2

\* A task goes on, ends, or is at something else.
LEMMA Going ==
  ASSUME Shape, NEW t \in Task, NEW pc, Go(t, pc)
  PROVE  /\ task' = [u \in Task |-> task'[u]] /\ \A u \in Task : Shaped(task'[u])
         /\ \A u \in Task : u # t => task'[u] = task[u]
         /\ task'[t].pc = pc /\ task'[t].op = task[t].op /\ task'[t].map = task[t].map
         /\ task'[t].name = task[t].name /\ task'[t].kids = task[t].kids
         /\ task'[t].child = task[t].child /\ task'[t].at = task[t].at
PROOF
<1>1. task = [u \in Task |-> task[u]] /\ Shaped(task[t]) /\ \A u \in Task : Shaped(task[u])
  BY DEF Shape
<1>2. task' = [task EXCEPT ![t].pc = pc]
  BY DEF Go
<1>3. PICK r : r = [task[t] EXCEPT !.pc = pc]
  OBVIOUS
<1>4. r = [op |-> task[t].op, pc |-> pc, map |-> task[t].map, kids |-> task[t].kids,
           child |-> task[t].child, name |-> task[t].name, at |-> task[t].at]
  BY <1>1, <1>3 DEF Shaped
<1>5. task' = [u \in Task |-> IF u = t THEN r ELSE task[u]]
  BY <1>1, <1>2, <1>3
<1>6. /\ Shaped(r) /\ r.pc = pc /\ r.op = task[t].op /\ r.map = task[t].map /\ r.name = task[t].name
      /\ r.kids = task[t].kids /\ r.child = task[t].child /\ r.at = task[t].at
  BY <1>4 DEF Shaped
<1>7. QED BY <1>1, <1>5, <1>6

LEMMA Ending ==
  ASSUME Shape, NEW t \in Task, End(t)
  PROVE  /\ task' = [u \in Task |-> task'[u]] /\ \A u \in Task : Shaped(task'[u])
         /\ \A u \in Task : u # t => task'[u] = task[u]
         /\ task'[t] = Idle
PROOF
<1>1. task = [u \in Task |-> task[u]] /\ \A u \in Task : Shaped(task[u])
  BY DEF Shape
<1>2. task' = [task EXCEPT ![t] = Idle]
  BY DEF End
<1>3. task' = [u \in Task |-> IF u = t THEN Idle ELSE task[u]]
  BY <1>1, <1>2
<1>4. Shaped(Idle)
  BY DEF Shaped, Idle
<1>5. QED BY <1>1, <1>3, <1>4

-----------------------------------------------------------------------------
(* What every step of an operation has in common.                          *)

KindOf(x) ==
  /\ x.pc \in {"make", "get", "flavour", "children", "handle", "newlog", "content"} =>
       x.op.kind = "set"
  /\ x.pc \in {"drop", "unlog"} => x.op.kind = "remove"
  /\ x.pc \in {"adopt", "find", "cut", "cutlog", "again", "place", "put"} =>
       x.op.kind \in {"insert", "take"}
  /\ x.pc = "log" => x.op.kind \in {"set", "insert", "take"}

\* The step of t touches t's own block only, and there: its entry in the map
\* of blocks goes or gets t's name, and only the array of t's own map is set.
Moves(t) ==
  /\ task' = [u \in Task |-> task'[u]] /\ \A u \in Task : Shaped(task'[u])
  /\ \A u \in Task : u # t => task'[u] = task[u]
  /\ \/ task'[t] = Idle
     \/ /\ task'[t].op = task[t].op /\ task'[t].name = task[t].name
        /\ task'[t].pc \notin {"idle", "make"} /\ KindOf(task'[t])
        /\ task'[t].map \in {task[t].map, blocks[task[t].op.block]}
Changes(t) ==
  /\ blocks' \in [Block -> Name \cup {None}]
  /\ \A b \in Block : b # task[t].op.block => blocks'[b] = blocks[b]
  /\ \/ blocks'[task[t].op.block] \in {blocks[task[t].op.block], None}
     \/ task[t].pc = "make" /\ blocks'[task[t].op.block] = task[t].name
  /\ updated' \subseteq Block
  /\ \A b \in Block : b # task[t].op.block => (b \in updated' <=> b \in updated)
  /\ object' \in [Name -> Object]
  /\ \A n \in Name : /\ object'[n].kids # object[n].kids => n = task[t].map
                     /\ object[n].kids # None => object'[n].kids # None
  /\ started' = started /\ mixed' = mixed

HalfDone(t, b) ==
  /\ task[t].op # None /\ task[t].op.kind = "set" /\ task[t].op.block = b
  /\ \/ task[t].pc = "get"
     \/ task[t].pc \in {"flavour", "children"} /\ task[t].map = blocks[b]

LEMMA StepKeeps ==
  ASSUME BlocksInv, NEW t \in Task, Active(t), Moves(t), Changes(t),
         NEW b0, b0 = task[t].op.block,
         b0 \notin mixed => IF task'[t] = Idle THEN Same(b0)' ELSE Midway(t, b0)',
         blocks'[b0] # None /\ ~IsBlock(b0)' => \E u \in Task : HalfDone(u, b0)'
  PROVE  BlocksInv'
PROOF
<1> DEFINE o == task[t].op
<1>1. Shape /\ Kinds /\ Named /\ Owned /\ Meeting /\ Logged /\ NoHalfBlock
  BY DEF BlocksInv
<1>2. /\ o \in Op /\ b0 \in Block /\ Touched(o) \subseteq Block /\ b0 \in Touched(o)
      /\ o # None /\ o.kind \in {"set", "remove", "insert", "take"}
  <2>1. o \in Op
    BY <1>1 DEF Kinds
  <2>3. b0 \in Block /\ Touched(o) \subseteq Block /\ b0 \in Touched(o)
        /\ o.kind \in {"set", "remove", "insert", "take"}
    BY <2>1, Ops
  <2>4. QED BY <2>1, <2>3, NoneAssumption
<1>3. /\ task' = [u \in Task |-> task'[u]] /\ \A u \in Task : Shaped(task'[u])
      /\ \A u \in Task : u # t => task'[u] = task[u]
      /\ \/ task'[t] = Idle
         \/ /\ task'[t].op = o /\ task'[t].name = task[t].name
            /\ task'[t].pc \notin {"idle", "make"} /\ KindOf(task'[t])
            /\ task'[t].map \in {task[t].map, blocks[b0]}
  BY DEF Moves
<1>4. /\ blocks' \in [Block -> Name \cup {None}]
      /\ \A b \in Block : b # b0 => blocks'[b] = blocks[b]
      /\ \/ blocks'[b0] \in {blocks[b0], None}
         \/ task[t].pc = "make" /\ blocks'[b0] = task[t].name
      /\ updated' \subseteq Block
      /\ \A b \in Block : b # b0 => (b \in updated' <=> b \in updated)
      /\ object' \in [Name -> Object]
      /\ \A n \in Name : /\ object'[n].kids # object[n].kids => n = task[t].map
                         /\ object[n].kids # None => object'[n].kids # None
      /\ started' = started /\ mixed' = mixed
  BY DEF Changes
<1>5. \A u \in Task : Active(u) => /\ task[u].op \in Op /\ task[u].op.block \in Block
                                   /\ task[u].op.block \in Touched(task[u].op)
                                   /\ task[u].op # None
  <2>1. \A u \in Task : Active(u) => task[u].op \in Op
    BY <1>1 DEF Kinds
  <2>2. QED BY <2>1, Ops, NoneAssumption
<1>6. ASSUME NEW b \in Block, b # b0
      PROVE  /\ blocks'[b] = blocks[b] /\ (IsBlock(b)' <=> IsBlock(b)) /\ (Same(b)' <=> Same(b))
  <2>1. blocks'[b] = blocks[b] /\ (b \in updated' <=> b \in updated)
    BY <1>4, <1>6
  <2>2. blocks[b] \in Name \cup {None}
    BY <1>1 DEF Shape
  <2>3. blocks[b] # None => blocks[b] \in Name /\ blocks[b] # task[t].map
    BY <2>2, <1>1, <1>6 DEF Owned
  <2>4. blocks[b] # None => object'[blocks[b]].kids = object[blocks[b]].kids
    BY <2>3, <1>4
  <2>5. IsBlock(b)' <=> IsBlock(b)
    BY <2>1, <2>4 DEF IsBlock
  <2>6. QED BY <2>1, <2>5 DEF Same
<1>7. Shape'
  BY <1>1, <1>3, <1>4 DEF Shape
<1>8. Kinds'
  <2>1. KindOf(Idle)
    BY DEF KindOf, Idle
  <2>2. ASSUME NEW u \in Task
        PROVE  /\ task'[u].pc # "idle" => task'[u].op \in Op
               /\ task'[u].pc = "idle" => task'[u] = Idle
               /\ KindOf(task'[u])
    <3>1. CASE u # t
      BY <3>1, <1>1, <1>3 DEF Kinds, KindOf, Active
    <3>2. CASE u = t /\ task'[t] = Idle
      BY <3>2, <2>1 DEF Idle
    <3>3. CASE u = t /\ task'[t] # Idle
      BY <3>3, <1>2, <1>3
    <3>4. QED BY <3>1, <3>2, <3>3
  <2>3. QED BY <2>2 DEF Kinds, KindOf, Active
<1>9. Named'
  <2>1. /\ \A b \in Block : blocks[b] \in Old \cup {None}
        /\ \A u \in Task :
             /\ task[u].map \in Old \cup {None}
             /\ Active(u) => task[u].name \in 1..started
             /\ task[u].pc = "make" => /\ \A b \in Block : blocks[b] # task[u].name
                                       /\ \A v \in Task : task[v].map # task[u].name
        /\ \A u, v \in Task : Active(u) /\ Active(v) /\ u # v => task[u].name # task[v].name
    BY <1>1 DEF Named
  <2>2. task[t].name \in 1..started /\ Old' = Old
    BY <2>1, <1>4 DEF Old
  <2>3. Idle.map = None /\ Idle.pc = "idle"
    BY DEF Idle
  <2>4. ASSUME NEW b \in Block PROVE blocks'[b] \in Old \cup {None}
    BY <2>1, <2>2, <1>4 DEF Old
  <2>5. ASSUME NEW u \in Task
        PROVE  /\ task'[u].map \in Old \cup {None}
               /\ task'[u].map \in {task[u].map, None} \/ (u = t /\ task'[u].map = blocks[b0])
               /\ task'[u].pc # "idle" => task'[u].name \in 1..started /\ task'[u].name = task[u].name
                                          /\ Active(u)
    BY <2>1, <2>2, <2>3, <1>2, <1>3 DEF Active
  <2>6. ASSUME NEW u \in Task, task'[u].pc = "make"
        PROVE  /\ \A b \in Block : blocks'[b] # task'[u].name
               /\ \A v \in Task : task'[v].map # task'[u].name
    <3>1. u # t /\ task'[u] = task[u] /\ Active(u)
      BY <2>3, <2>6, <1>3 DEF Active
    <3>2. task[u].name # task[t].name /\ task[u].name # None
      <4>1. task[u].name \in 1..started /\ task[u].name # task[t].name
        BY <3>1, <2>1
      <4>2. started \in 0..MaxOps
        BY <1>1 DEF Shape
      <4>3. QED BY <4>1, <4>2, Names
    <3>3. QED BY <3>1, <3>2, <2>1, <2>5, <2>6, <1>2, <1>4
  <2>7. ASSUME NEW u \in Task, NEW v \in Task, task'[u].pc # "idle", task'[v].pc # "idle", u # v
        PROVE  task'[u].name # task'[v].name
    BY <2>1, <2>5, <2>7
  <2>8. QED BY <1>4, <2>2, <2>4, <2>5, <2>6, <2>7 DEF Named, Active
<1>10. Owned'
  <2>1. /\ \A b, c \in Block : blocks[b] = blocks[c] /\ b # c => blocks[b] = None
        /\ \A u \in Task, b \in Block :
             Active(u) /\ blocks[b] = task[u].map /\ b # task[u].op.block => blocks[b] = None
    BY <1>1 DEF Owned
  <2>2. /\ task[t].pc = "make" => /\ \A b \in Block : blocks[b] # task[t].name
                                  /\ \A v \in Task : task[v].map # task[t].name
    BY <1>1 DEF Named
  <2>3. ASSUME NEW b \in Block, NEW c \in Block, blocks'[b] = blocks'[c], b # c
        PROVE  blocks'[b] = None
    BY <2>1, <2>2, <2>3, <1>2, <1>4
  <2>4. ASSUME NEW u \in Task, NEW b \in Block,
               task'[u].pc # "idle", blocks'[b] = task'[u].map, b # task'[u].op.block
        PROVE  blocks'[b] = None
    <3>1. CASE u = t
      <4>1. task'[t] # Idle
        BY <2>4, <3>1 DEF Idle
      <4>2. b # b0 /\ blocks'[b] = blocks[b] /\ task'[t].map \in {task[t].map, blocks[b0]}
        BY <4>1, <2>4, <3>1, <1>3, <1>4
      <4>3. QED BY <4>2, <2>1, <2>4, <3>1, <1>2
    <3>2. CASE u # t
      <4>1. task'[u] = task[u] /\ Active(u)
        BY <3>2, <2>4, <1>3 DEF Active
      <4>2. QED BY <4>1, <2>1, <2>2, <2>4, <1>2, <1>4
    <3>3. QED BY <3>1, <3>2
  <2>5. QED BY <2>3, <2>4 DEF Owned, Active
<1>11. \A u \in Task : task'[u].pc # "idle" => Active(u) /\ task'[u].op = task[u].op
  BY <1>2, <1>3 DEF Active, Idle
<1>12. Meeting'
  BY <1>1, <1>4, <1>11 DEF Meeting, Active
<1>13. ASSUME NEW b \in Block \ mixed, NEW u \in Task, u # t, Active(u), b \in Touched(task[u].op)
       PROVE  b \notin Touched(o)
  <2>1. b \in Touched(o) => Touched(task[u].op) \cap Touched(o) # {}
    BY <1>13
  <2>2. b \in Touched(o) => Touched(task[u].op) \subseteq mixed
    BY <2>1, <1>1, <1>13 DEF Meeting
  <2>3. QED BY <2>2, <1>13
<1>14. Logged'
  <2> SUFFICES ASSUME NEW b \in Block \ mixed
               PROVE  /\ Untouched(b)' => Same(b)'
                      /\ \A u \in Task : task'[u].pc # "idle" /\ b \in Touched(task'[u].op) =>
                           Midway(u, b)'
    BY <1>4 DEF Logged, Active
  <2>1. ASSUME NEW u \in Task, u # t, task'[u].pc # "idle", b \in Touched(task'[u].op)
        PROVE  Midway(u, b)'
    <3>1. task'[u] = task[u] /\ Active(u) /\ b \in Touched(task[u].op)
      BY <2>1, <1>3 DEF Active
    <3>2. b # b0
      BY <3>1, <2>1, <1>2, <1>13
    <3>3. Midway(u, b)
      BY <3>1, <1>1 DEF Logged
    <3>4. QED BY <3>1, <3>2, <3>3, <1>6 DEF Midway
  <2>2. CASE b = b0
    <3>1. Untouched(b)' => task'[t] = Idle
      BY <2>2, <1>2, <1>3 DEF Untouched
    <3>2. Idle.pc = "idle"
      BY DEF Idle
    <3>3. QED BY <2>1, <2>2, <3>1, <3>2
  <2>3. CASE b # b0
    <3>1. Same(b)' <=> Same(b)
      BY <2>3, <1>6
    <3>2. b \in Touched(o) => Same(b)
      BY <2>3, <1>1 DEF Logged, Midway
    <3>3. Untouched(b)' => Same(b)'
      <4>1. CASE b \in Touched(o)
        BY <4>1, <3>1, <3>2
      <4>2. CASE b \notin Touched(o)
        <5>1. Untouched(b)' => Untouched(b)
          BY <4>2, <1>3 DEF Untouched
        <5>2. QED BY <5>1, <3>1, <1>1 DEF Logged
      <4>3. QED BY <4>1, <4>2
    <3>4. ASSUME task'[t].pc # "idle", b \in Touched(task'[t].op) PROVE Midway(t, b)'
      <4>1. task'[t].op = o
        BY <3>4, <1>11
      <4>2. Same(b)'
        BY <4>1, <3>1, <3>2, <3>4
      <4>3. QED BY <4>1, <4>2, <2>3 DEF Midway
    <3>5. QED BY <2>1, <3>3, <3>4
  <2>4. QED BY <2>2, <2>3
<1>15. NoHalfBlock'
  <2> SUFFICES ASSUME NEW b \in Block, blocks'[b] # None, ~IsBlock(b)'
               PROVE  \E u \in Task : HalfDone(u, b)'
    BY DEF NoHalfBlock, HalfDone
  <2>1. CASE b = b0
    BY <2>1
  <2>2. CASE b # b0
    <3>1. blocks[b] # None /\ ~IsBlock(b)
      BY <2>2, <1>6
    <3>2. PICK u \in Task : HalfDone(u, b)
      BY <3>1, <1>1 DEF NoHalfBlock, HalfDone
    <3>3. u # t
      BY <3>2, <2>2 DEF HalfDone
    <3>4. HalfDone(u, b)'
      BY <3>2, <3>3, <2>2, <1>3, <1>6 DEF HalfDone
    <3>5. QED BY <3>4
  <2>3. QED BY <2>1, <2>2
<1>16. QED BY <1>7, <1>8, <1>9, <1>10, <1>12, <1>14, <1>15 DEF BlocksInv

LEMMA GoMoves ==
  ASSUME BlocksInv, NEW t \in Task, NEW pc, Go(t, pc), pc \notin {"idle", "make"},
         pc \in {"get", "flavour", "children", "handle", "newlog", "content"} =>
           task[t].op.kind = "set",
         pc \in {"drop", "unlog"} => task[t].op.kind = "remove",
         pc \in {"adopt", "find", "cut", "cutlog", "again", "place", "put"} =>
           task[t].op.kind \in {"insert", "take"},
         pc = "log" => task[t].op.kind \in {"set", "insert", "take"}
  PROVE  /\ Moves(t) /\ task'[t] # Idle /\ task'[t].pc = pc /\ task'[t].op = task[t].op
         /\ task'[t].map = task[t].map
PROOF
<1>1. Shape
  BY DEF BlocksInv
<1>2. /\ task' = [u \in Task |-> task'[u]] /\ \A u \in Task : Shaped(task'[u])
      /\ \A u \in Task : u # t => task'[u] = task[u]
      /\ task'[t].pc = pc /\ task'[t].op = task[t].op /\ task'[t].map = task[t].map
      /\ task'[t].name = task[t].name
  BY <1>1, Going
<1>3. task'[t] # Idle
  BY <1>2 DEF Idle
<1>4. KindOf(task'[t])
  BY <1>2 DEF KindOf
<1>5. QED BY <1>2, <1>3, <1>4 DEF Moves

LEMMA EndMoves ==
  ASSUME BlocksInv, NEW t \in Task, End(t)
  PROVE  Moves(t) /\ task'[t] = Idle
PROOF BY Ending DEF BlocksInv, Moves

\* Where the operation of t is, and that it is one.
LEMMA Own ==
  ASSUME BlocksInv, NEW t \in Task, Active(t)
  PROVE  /\ task[t].op \in Op /\ task[t].op.block \in Block
         /\ task[t].op.kind \in {"set", "remove", "insert", "take"}
         /\ KindOf(task[t])
         /\ task[t].name \in 1..MaxOps /\ task[t].name \in Nat
         /\ task[t].op.block \notin mixed => Midway(t, task[t].op.block)
         /\ blocks[task[t].op.block] \in Name \cup {None}
         /\ updated \subseteq Block
PROOF
<1>1. Shape /\ Kinds /\ Named /\ Logged
  BY DEF BlocksInv
<1>2. task[t].op \in Op
  BY <1>1 DEF Kinds
<1>3. /\ task[t].op.block \in Block /\ task[t].op.kind \in {"set", "remove", "insert", "take"}
      /\ task[t].op.block \in Touched(task[t].op)
  BY <1>2, Ops
<1>4. KindOf(task[t])
  BY <1>1 DEF Kinds, KindOf
<1>5. task[t].name \in 1..MaxOps /\ task[t].name \in Nat
  <2>1. task[t].name \in 1..started /\ started \in 0..MaxOps
    BY <1>1 DEF Named, Shape
  <2>2. QED BY <2>1, Names
<1>6. task[t].op.block \notin mixed => Midway(t, task[t].op.block)
  BY <1>1, <1>3 DEF Logged
<1>7. QED BY <1>1, <1>2, <1>3, <1>4, <1>5, <1>6 DEF Shape

\* A step that leaves the maps there are, and their arrays, alone, of an
\* operation that is not filling a map.
LEMMA QuietKeeps ==
  ASSUME BlocksInv, NEW t \in Task, Active(t), Moves(t), NEW b0, b0 = task[t].op.block,
         blocks' = blocks, object' \in [Name -> Object],
         \A n \in Name : object'[n].kids = object[n].kids,
         updated' \subseteq Block,
         \A b \in Block : b # b0 => (b \in updated' <=> b \in updated),
         started' = started, mixed' = mixed,
         task[t].pc \notin {"get", "flavour", "children"},
         b0 \notin mixed => IF task'[t] = Idle THEN Same(b0)' ELSE Midway(t, b0)'
  PROVE  BlocksInv'
PROOF
<1>1. Changes(t)
  BY DEF Changes, BlocksInv, Shape
<1>2. b0 \in Block /\ blocks[b0] \in Name \cup {None}
  BY Own
<1>3. ASSUME blocks'[b0] # None, ~IsBlock(b0)' PROVE \E u \in Task : HalfDone(u, b0)'
  <2>1. blocks[b0] # None /\ ~IsBlock(b0)
    BY <1>2, <1>3 DEF IsBlock
  <2>2. PICK u \in Task : HalfDone(u, b0)
    BY <2>1, <1>2 DEF BlocksInv, NoHalfBlock, HalfDone
  <2>3. u # t
    BY <2>2 DEF HalfDone
  <2>4. HalfDone(u, b0)'
    BY <2>2, <2>3 DEF HalfDone, Moves
  <2>5. QED BY <2>4
<1>4. QED BY <1>1, <1>3, StepKeeps

LEMMA SameObjects ==
  ASSUME BlocksInv, UNCHANGED object
  PROVE  object' \in [Name -> Object] /\ \A n \in Name : object'[n].kids = object[n].kids
PROOF BY DEF BlocksInv, Shape

\* What stays of a block and of where its operation is.
LEMMA Kept ==
  ASSUME BlocksInv, NEW b \in Block, blocks' = blocks,
         \A n \in Name : object'[n].kids = object[n].kids
  PROVE  IsBlock(b)' <=> IsBlock(b)
PROOF BY DEF IsBlock, BlocksInv, Shape

-----------------------------------------------------------------------------
(* set_block.                                                              *)

LEMMA CreateMapKeeps ==
  ASSUME BlocksInv, NEW t \in Task, CreateMap(t)
  PROVE  BlocksInv'
PROOF
<1>1. PICK b0 : b0 = task[t].op.block
  OBVIOUS
<1>2. /\ task[t].pc = "make" /\ blocks' = [blocks EXCEPT ![b0] = task[t].name]
      /\ Go(t, "get") /\ UNCHANGED <<updated, object, started, mixed>>
  BY <1>1 DEF CreateMap
<1>3. Active(t)
  BY <1>2 DEF Active
<1>4. /\ task[t].op.kind = "set" /\ b0 \in Block /\ task[t].name \in Name /\ task[t].name # None
      /\ task[t].op # None
  BY <1>1, <1>2, <1>3, Own, Names, NoneAssumption DEF KindOf
<1>5. Moves(t) /\ task'[t] # Idle /\ task'[t].pc = "get" /\ task'[t].op = task[t].op
  BY <1>2, <1>4, GoMoves
<1>6. blocks \in [Block -> Name \cup {None}]
  BY DEF BlocksInv, Shape
<1>7. blocks'[b0] = task[t].name
  BY <1>2, <1>4, <1>6
<1>8. Changes(t)
  BY <1>1, <1>2, <1>4, <1>6 DEF Changes, BlocksInv, Shape
<1>9. Midway(t, b0)'
  BY <1>1, <1>4, <1>5, <1>7 DEF Midway
<1>10. HalfDone(t, b0)'
  BY <1>1, <1>4, <1>5 DEF HalfDone
<1>11. QED BY <1>1, <1>3, <1>5, <1>8, <1>9, <1>10, StepKeeps

LEMMA CreateGetKeeps ==
  ASSUME BlocksInv, NEW t \in Task, CreateGet(t)
  PROVE  BlocksInv'
PROOF
<1>1. PICK b0 : b0 = task[t].op.block
  OBVIOUS
<1>2. /\ task[t].pc = "get" /\ UNCHANGED <<blocks, updated, object, started, mixed>>
      /\ IF blocks[b0] = None THEN End(t)
         ELSE task' = [task EXCEPT ![t].pc = "flavour", ![t].map = blocks[b0]]
  BY <1>1 DEF CreateGet
<1>3. Active(t)
  BY <1>2 DEF Active
<1>4. task[t].op.kind = "set" /\ b0 \in Block /\ task[t].op # None
  BY <1>1, <1>2, <1>3, Own, NoneAssumption DEF KindOf
<1>5. Changes(t)
  BY <1>2 DEF Changes, BlocksInv, Shape
<1>6. CASE blocks[b0] = None
  <2>1. Moves(t) /\ task'[t] = Idle
    BY <1>2, <1>6, EndMoves
  <2>2. b0 \in mixed
    BY <1>1, <1>2, <1>3, <1>6, Own DEF Midway
  <2>3. blocks'[b0] = None
    BY <1>2, <1>6
  <2>4. QED BY <2>1, <2>2, <2>3, <1>1, <1>3, <1>5, StepKeeps
<1>7. CASE blocks[b0] # None
  <2>1. PICK r : r = [task[t] EXCEPT !.pc = "flavour", !.map = blocks[b0]]
    OBVIOUS
  <2>2. task = [u \in Task |-> task[u]] /\ \A u \in Task : Shaped(task[u])
    BY DEF BlocksInv, Shape
  <2>3. r = [op |-> task[t].op, pc |-> "flavour", map |-> blocks[b0], kids |-> task[t].kids,
             child |-> task[t].child, name |-> task[t].name, at |-> task[t].at]
    <3>1. Shaped(task[t])
      BY <2>2
    <3>2. PICK x : x = task[t]
      OBVIOUS
    <3>3. x = [op |-> x.op, pc |-> x.pc, map |-> x.map, kids |-> x.kids, child |-> x.child,
               name |-> x.name, at |-> x.at]
      BY <3>1, <3>2 DEF Shaped
    <3>4. r = [x EXCEPT !.pc = "flavour", !.map = blocks[b0]]
      BY <2>1, <3>2
    <3>5. r = [op |-> x.op, pc |-> "flavour", map |-> blocks[b0], kids |-> x.kids,
               child |-> x.child, name |-> x.name, at |-> x.at]
      BY <3>3, <3>4
    <3>6. QED BY <3>2, <3>5
  <2>4. task' = [u \in Task |-> IF u = t THEN r ELSE task[u]]
    BY <1>2, <1>7, <2>1, <2>2
  <2>5. /\ Shaped(r) /\ r.pc = "flavour" /\ r.op = task[t].op /\ r.map = blocks[b0]
        /\ r.name = task[t].name
    BY <2>3 DEF Shaped
  <2>6. Moves(t) /\ task'[t] = r /\ r # Idle
    BY <2>2, <2>4, <2>5, <1>1, <1>4 DEF Moves, KindOf, Idle
  <2>7. HalfDone(t, b0)'
    BY <2>5, <2>6, <1>1, <1>2, <1>4 DEF HalfDone
  <2>8. Midway(t, b0)'
    BY <2>5, <2>6, <1>1, <1>2, <1>4, <1>7 DEF Midway
  <2>9. QED BY <2>6, <2>7, <2>8, <1>1, <1>3, <1>5, StepKeeps
<1>8. QED BY <1>6, <1>7

LEMMA CreateFlavourKeeps ==
  ASSUME BlocksInv, NEW t \in Task, CreateFlavour(t)
  PROVE  BlocksInv'
PROOF
<1>1. PICK b0 : b0 = task[t].op.block
  OBVIOUS
<1>2. /\ task[t].pc = "flavour" /\ object' = Write(task[t].map, "flavour", task[t].op.flavour)
      /\ Go(t, "children") /\ UNCHANGED <<blocks, updated, started, mixed>>
  BY DEF CreateFlavour
<1>3. Active(t)
  BY <1>2 DEF Active
<1>4. task[t].op.kind = "set" /\ b0 \in Block /\ task[t].op # None /\ task[t].op.flavour \in Flavour
  BY <1>1, <1>2, <1>3, Own, Ops, NoneAssumption DEF KindOf
<1>5. object' \in [Name -> Object] /\ \A n \in Name : object'[n].kids = object[n].kids
  BY <1>2, <1>4, Writing DEF BlocksInv, Shape
<1>6. Moves(t) /\ task'[t] # Idle /\ task'[t].pc = "children" /\ task'[t].op = task[t].op
      /\ task'[t].map = task[t].map
  BY <1>2, <1>4, GoMoves
<1>7. Changes(t)
  BY <1>2, <1>5 DEF Changes, BlocksInv, Shape
<1>8. b0 \notin mixed => Midway(t, b0)'
  BY <1>1, <1>2, <1>3, <1>4, <1>6, Own DEF Midway
<1>9. ASSUME blocks'[b0] # None, ~IsBlock(b0)' PROVE \E u \in Task : HalfDone(u, b0)'
  <2>1. blocks[b0] # None /\ ~IsBlock(b0)
    BY <1>2, <1>4, <1>5, <1>9, Kept
  <2>2. PICK u \in Task : HalfDone(u, b0)
    BY <2>1, <1>4 DEF BlocksInv, NoHalfBlock, HalfDone
  <2>3. HalfDone(u, b0)'
    BY <2>2, <1>2, <1>4, <1>6 DEF HalfDone, Moves
  <2>4. QED BY <2>3
<1>10. QED BY <1>1, <1>3, <1>6, <1>7, <1>8, <1>9, StepKeeps

LEMMA CreateChildrenKeeps ==
  ASSUME BlocksInv, NEW t \in Task, CreateChildren(t)
  PROVE  BlocksInv'
PROOF
<1>1. PICK b0 : b0 = task[t].op.block
  OBVIOUS
<1>2. /\ task[t].pc = "children" /\ object' = Write(task[t].map, "kids", task[t].name)
      /\ Go(t, "handle") /\ UNCHANGED <<blocks, updated, started, mixed>>
  BY DEF CreateChildren
<1>3. Active(t)
  BY <1>2 DEF Active
<1>4. /\ task[t].op.kind = "set" /\ b0 \in Block /\ task[t].name \in Name /\ task[t].name # None
      /\ blocks[b0] \in Name \cup {None}
  BY <1>1, <1>2, <1>3, Own, Names DEF KindOf
<1>5. /\ object' \in [Name -> Object]
      /\ \A n \in Name : object'[n].kids = IF n = task[t].map /\ LiveMap(task[t].map)
                                           THEN task[t].name ELSE object[n].kids
  BY <1>2, <1>4, WritingKids DEF BlocksInv, Shape
<1>6. Moves(t) /\ task'[t] # Idle /\ task'[t].pc = "handle" /\ task'[t].op = task[t].op
      /\ task'[t].map = task[t].map
  BY <1>2, <1>4, GoMoves
<1>7. Changes(t)
  BY <1>2, <1>4, <1>5 DEF Changes, BlocksInv, Shape
<1>8. blocks[b0] # None /\ blocks[b0] = task[t].map => IsBlock(b0)'
  <2> SUFFICES ASSUME blocks[b0] # None, blocks[b0] = task[t].map PROVE IsBlock(b0)'
    OBVIOUS
  <2>1. LiveMap(task[t].map)
    BY <1>4 DEF LiveMap
  <2>2. object'[blocks[b0]].kids = task[t].name
    BY <2>1, <1>4, <1>5
  <2>3. QED BY <2>2, <1>2, <1>4 DEF IsBlock
<1>9. b0 \notin mixed => Midway(t, b0)'
  <2> SUFFICES ASSUME b0 \notin mixed PROVE Midway(t, b0)'
    OBVIOUS
  <2>1. blocks[b0] # None /\ blocks[b0] = task[t].map
    BY <1>1, <1>2, <1>3, Own DEF Midway
  <2>2. QED BY <2>1, <1>1, <1>2, <1>4, <1>6, <1>8 DEF Midway
<1>10. ASSUME blocks'[b0] # None, ~IsBlock(b0)' PROVE \E u \in Task : HalfDone(u, b0)'
  <2>1. blocks[b0] # None /\ ~IsBlock(b0)
    BY <1>2, <1>4, <1>5, <1>10 DEF IsBlock
  <2>2. PICK u \in Task : HalfDone(u, b0)
    BY <2>1, <1>4 DEF BlocksInv, NoHalfBlock, HalfDone
  <2>3. u # t
    BY <2>1, <2>2, <1>2, <1>8, <1>10 DEF HalfDone
  <2>4. HalfDone(u, b0)'
    BY <2>2, <2>3, <1>2, <1>6 DEF HalfDone, Moves
  <2>5. QED BY <2>4
<1>11. QED BY <1>1, <1>3, <1>6, <1>7, <1>9, <1>10, StepKeeps

LEMMA CreateHandleKeeps ==
  ASSUME BlocksInv, NEW t \in Task, CreateHandle(t)
  PROVE  BlocksInv'
PROOF
<1>1. PICK b0 : b0 = task[t].op.block
  OBVIOUS
<1>2. /\ task[t].pc = "handle" /\ UNCHANGED <<blocks, updated, object, started, mixed>>
      /\ IF LiveMap(task[t].map) THEN Go(t, "newlog") ELSE End(t)
  BY DEF CreateHandle
<1>3. Active(t)
  BY <1>2 DEF Active
<1>4. task[t].op.kind = "set" /\ b0 \in Block /\ updated \subseteq Block
  BY <1>1, <1>2, <1>3, Own DEF KindOf
<1>5. /\ object' \in [Name -> Object] /\ \A n \in Name : object'[n].kids = object[n].kids
  BY <1>2, SameObjects
<1>6. IsBlock(b0)' <=> IsBlock(b0)
  BY <1>2, <1>4, <1>5, Kept
<1>7. b0 \notin mixed => IsBlock(b0) /\ blocks[b0] = task[t].map
  BY <1>1, <1>2, <1>3, Own DEF Midway
<1>8. CASE LiveMap(task[t].map)
  <2>1. Moves(t) /\ task'[t] # Idle /\ task'[t].pc = "newlog" /\ task'[t].op = task[t].op
    BY <1>2, <1>4, <1>8, GoMoves
  <2>2. b0 \notin mixed => Midway(t, b0)'
    BY <2>1, <1>1, <1>4, <1>6, <1>7 DEF Midway
  <2>3. QED BY <2>1, <2>2, <1>1, <1>2, <1>3, <1>4, <1>5, QuietKeeps
<1>9. CASE ~LiveMap(task[t].map)
  <2>1. Moves(t) /\ task'[t] = Idle
    BY <1>2, <1>9, EndMoves
  <2>2. b0 \in mixed
    BY <1>4, <1>7, <1>9 DEF LiveMap, IsBlock
  <2>3. QED BY <2>1, <2>2, <1>1, <1>2, <1>3, <1>4, <1>5, QuietKeeps
<1>10. QED BY <1>8, <1>9

LEMMA SetContentKeeps ==
  ASSUME BlocksInv, NEW t \in Task, SetContent(t)
  PROVE  BlocksInv'
PROOF
<1>1. PICK b0 : b0 = task[t].op.block
  OBVIOUS
<1>2. /\ task[t].pc = "content" /\ object' = Write(task[t].map, "content", task[t].name)
      /\ Go(t, "log") /\ UNCHANGED <<blocks, updated, started, mixed>>
  BY DEF SetContent
<1>3. Active(t)
  BY <1>2 DEF Active
<1>4. task[t].op.kind = "set" /\ b0 \in Block /\ updated \subseteq Block /\ task[t].name \in Nat
  BY <1>1, <1>2, <1>3, Own DEF KindOf
<1>5. object' \in [Name -> Object] /\ \A n \in Name : object'[n].kids = object[n].kids
  BY <1>2, <1>4, Writing DEF BlocksInv, Shape
<1>6. Moves(t) /\ task'[t] # Idle /\ task'[t].pc = "log" /\ task'[t].op = task[t].op
  BY <1>2, <1>4, GoMoves
<1>7. IsBlock(b0)' <=> IsBlock(b0)
  BY <1>2, <1>4, <1>5, Kept
<1>8. b0 \notin mixed => IsBlock(b0)
  BY <1>1, <1>2, <1>3, Own DEF Midway
<1>9. b0 \notin mixed => Midway(t, b0)'
  BY <1>1, <1>4, <1>6, <1>7, <1>8 DEF Midway
<1>10. QED BY <1>1, <1>2, <1>3, <1>4, <1>5, <1>6, <1>9, QuietKeeps

LEMMA LogKeeps ==
  ASSUME BlocksInv, NEW t \in Task, Log(t)
  PROVE  BlocksInv'
PROOF
<1>1. PICK b0 : b0 = task[t].op.block
  OBVIOUS
<1>2. /\ task[t].pc \in {"newlog", "log"} /\ updated' = updated \cup {b0}
      /\ IF task[t].pc = "newlog" THEN Go(t, "content") ELSE End(t)
      /\ UNCHANGED <<blocks, object, started, mixed>>
  BY <1>1 DEF Log
<1>3. Active(t)
  BY <1>2 DEF Active
<1>4. /\ task[t].pc = "newlog" => task[t].op.kind = "set"
      /\ b0 \in Block /\ updated \subseteq Block
      /\ task[t].op.kind \in {"set", "insert", "take"}
  BY <1>1, <1>2, <1>3, Own DEF KindOf
<1>5. /\ object' \in [Name -> Object] /\ \A n \in Name : object'[n].kids = object[n].kids
  BY <1>2, SameObjects
<1>6. IsBlock(b0)' <=> IsBlock(b0)
  BY <1>2, <1>4, <1>5, Kept
<1>7. b0 \notin mixed => IsBlock(b0)
  BY <1>1, <1>2, <1>3, Own DEF Midway
<1>8. b0 \notin mixed => Same(b0)'
  BY <1>2, <1>6, <1>7 DEF Same
<1>9. /\ updated' \subseteq Block /\ \A b \in Block : b # b0 => (b \in updated' <=> b \in updated)
  BY <1>2, <1>4
<1>10. CASE task[t].pc = "newlog"
  <2>1. Moves(t) /\ task'[t] # Idle /\ task'[t].pc = "content" /\ task'[t].op = task[t].op
    BY <1>2, <1>4, <1>10, GoMoves
  <2>2. b0 \notin mixed => Midway(t, b0)'
    BY <2>1, <1>1, <1>4, <1>6, <1>7, <1>10 DEF Midway
  <2>3. QED BY <2>1, <2>2, <1>1, <1>2, <1>3, <1>5, <1>9, QuietKeeps
<1>11. CASE task[t].pc = "log"
  <2>1. Moves(t) /\ task'[t] = Idle
    BY <1>2, <1>11, EndMoves
  <2>2. QED BY <2>1, <1>1, <1>2, <1>3, <1>5, <1>8, <1>9, QuietKeeps
<1>12. QED BY <1>2, <1>10, <1>11

-----------------------------------------------------------------------------
(* Space::remove.                                                          *)

LEMMA DropKeeps ==
  ASSUME BlocksInv, NEW t \in Task, Drop(t)
  PROVE  BlocksInv'
PROOF
<1>1. PICK b0 : b0 = task[t].op.block
  OBVIOUS
<1>2. /\ task[t].pc = "drop" /\ blocks' = [blocks EXCEPT ![b0] = None]
      /\ Go(t, "unlog") /\ UNCHANGED <<updated, object, started, mixed>>
  BY <1>1 DEF Drop
<1>3. Active(t)
  BY <1>2 DEF Active
<1>4. task[t].op.kind = "remove" /\ b0 \in Block
  BY <1>1, <1>2, <1>3, Own DEF KindOf
<1>5. Moves(t) /\ task'[t] # Idle /\ task'[t].pc = "unlog" /\ task'[t].op = task[t].op
  BY <1>2, <1>4, GoMoves
<1>6. blocks \in [Block -> Name \cup {None}]
  BY DEF BlocksInv, Shape
<1>7. blocks'[b0] = None
  BY <1>2, <1>4, <1>6
<1>8. Changes(t)
  BY <1>1, <1>2, <1>4, <1>6 DEF Changes, BlocksInv, Shape
<1>9. Midway(t, b0)'
  BY <1>1, <1>4, <1>5, <1>7 DEF Midway, IsBlock
<1>10. QED BY <1>1, <1>3, <1>5, <1>7, <1>8, <1>9, StepKeeps

LEMMA UnlogKeeps ==
  ASSUME BlocksInv, NEW t \in Task, Unlog(t)
  PROVE  BlocksInv'
PROOF
<1>1. PICK b0 : b0 = task[t].op.block
  OBVIOUS
<1>2. /\ task[t].pc = "unlog" /\ updated' = updated \ {b0} /\ End(t)
      /\ UNCHANGED <<blocks, object, started, mixed>>
  BY <1>1 DEF Unlog
<1>3. Active(t)
  BY <1>2 DEF Active
<1>4. b0 \in Block /\ updated \subseteq Block
  BY <1>1, <1>3, Own
<1>5. /\ object' \in [Name -> Object] /\ \A n \in Name : object'[n].kids = object[n].kids
  BY <1>2, SameObjects
<1>6. IsBlock(b0)' <=> IsBlock(b0)
  BY <1>2, <1>4, <1>5, Kept
<1>7. b0 \notin mixed => ~IsBlock(b0)
  BY <1>1, <1>2, <1>3, Own DEF Midway
<1>8. b0 \notin mixed => Same(b0)'
  BY <1>2, <1>6, <1>7 DEF Same
<1>9. Moves(t) /\ task'[t] = Idle
  BY <1>2, EndMoves
<1>10. /\ updated' \subseteq Block
       /\ \A b \in Block : b # b0 => (b \in updated' <=> b \in updated)
  BY <1>2, <1>4
<1>11. QED BY <1>1, <1>2, <1>3, <1>5, <1>8, <1>9, <1>10, QuietKeeps

-----------------------------------------------------------------------------
(* insert_block_children and remove_block_children.                        *)

ChildSteps == {"find", "cut", "cutlog", "again", "place", "put", "log"}

\* A task goes on with a position.
LEMMA GoAtMoves ==
  ASSUME BlocksInv, NEW t \in Task, NEW i, NEW pc \in ChildSteps,
         task[t].op.kind \in {"insert", "take"},
         task' = [task EXCEPT ![t].at = i, ![t].pc = pc]
  PROVE  Moves(t) /\ task'[t] # Idle /\ task'[t].pc = pc /\ task'[t].op = task[t].op
PROOF
<1>1. task = [u \in Task |-> task[u]] /\ \A u \in Task : Shaped(task[u])
  BY DEF BlocksInv, Shape
<1>2. PICK x : x = task[t]
  OBVIOUS
<1>3. x = [op |-> x.op, pc |-> x.pc, map |-> x.map, kids |-> x.kids, child |-> x.child,
           name |-> x.name, at |-> x.at]
  BY <1>1, <1>2 DEF Shaped
<1>4. PICK r : r = [x EXCEPT !.at = i, !.pc = pc]
  OBVIOUS
<1>5. r = [op |-> x.op, pc |-> pc, map |-> x.map, kids |-> x.kids, child |-> x.child,
           name |-> x.name, at |-> i]
  BY <1>3, <1>4
<1>6. task' = [u \in Task |-> IF u = t THEN r ELSE task[u]]
  BY <1>1, <1>2, <1>4
<1>7. Shaped(r) /\ r.pc = pc /\ r.op = x.op /\ r.map = x.map /\ r.name = x.name
  BY <1>5 DEF Shaped
<1>8. KindOf(r)
  BY <1>2, <1>7 DEF KindOf, ChildSteps
<1>9. r # Idle
  BY <1>7 DEF Idle, ChildSteps
<1>10. QED BY <1>1, <1>2, <1>6, <1>7, <1>8, <1>9 DEF Moves, ChildSteps

\* Their steps keep the block and its entry: a block whose children change is
\* there, and is logged as it was.
LEMMA ChildStepKeeps ==
  ASSUME BlocksInv, NEW t \in Task, Moves(t),
         task[t].pc \in {"adopt", "find", "cut", "cutlog", "again", "place", "put"},
         task'[t] = Idle \/ (task'[t].op = task[t].op /\ task'[t].pc \in ChildSteps),
         blocks' = blocks, object' \in [Name -> Object],
         \A n \in Name : object'[n].kids = object[n].kids,
         updated' = updated \/ updated' = updated \cup {task[t].op.block},
         started' = started, mixed' = mixed
  PROVE  BlocksInv'
PROOF
<1>1. PICK b0 : b0 = task[t].op.block
  OBVIOUS
<1>2. Active(t)
  BY DEF Active
<1>3. task[t].op.kind \in {"insert", "take"} /\ b0 \in Block /\ updated \subseteq Block
  BY <1>1, <1>2, Own DEF KindOf
<1>4. IsBlock(b0)' <=> IsBlock(b0)
  BY <1>3, Kept
<1>5. b0 \notin mixed => IsBlock(b0) /\ Same(b0)
  BY <1>1, <1>2, <1>3, Own DEF Midway
<1>6. updated' = updated \/ updated' = updated \cup {b0}
  BY <1>1
<1>7. b0 \notin mixed => IsBlock(b0)' /\ Same(b0)'
  BY <1>4, <1>5, <1>6 DEF Same
<1>8. b0 \notin mixed /\ task'[t] # Idle => Midway(t, b0)'
  BY <1>1, <1>3, <1>7 DEF Midway, ChildSteps
<1>9. /\ updated' \subseteq Block
      /\ \A b \in Block : b # b0 => (b \in updated' <=> b \in updated)
  BY <1>3, <1>6
<1>10. task[t].pc \notin {"get", "flavour", "children"}
  OBVIOUS
<1>11. QED BY <1>1, <1>2, <1>7, <1>8, <1>9, <1>10, QuietKeeps

LEMMA AdoptKeeps ==
  ASSUME BlocksInv, NEW t \in Task, Adopt(t)
  PROVE  BlocksInv'
PROOF
<1>1. PICK pc : pc = IF task[t].pc = "adopt" THEN "find" ELSE "place"
  OBVIOUS
<1>2. /\ task[t].pc \in {"adopt", "again"} /\ pc \in {"find", "place"} /\ Go(t, pc)
      /\ object' = Write(task[t].child, "parent", task[t].op.block)
      /\ UNCHANGED <<blocks, updated, started, mixed>>
  BY <1>1 DEF Adopt
<1>3. Active(t)
  BY <1>2 DEF Active
<1>4. task[t].op.kind \in {"insert", "take"} /\ task[t].op.block \in Block
  BY <1>2, <1>3, Own DEF KindOf
<1>5. object' \in [Name -> Object] /\ \A n \in Name : object'[n].kids = object[n].kids
  BY <1>2, <1>4, Writing DEF BlocksInv, Shape
<1>6. Moves(t) /\ task'[t].pc = pc /\ task'[t].op = task[t].op
  BY <1>2, <1>4, GoMoves
<1>7. pc \in ChildSteps
  BY <1>2 DEF ChildSteps
<1>8. QED BY <1>2, <1>5, <1>6, <1>7, ChildStepKeeps

LEMMA FindKeeps ==
  ASSUME BlocksInv, NEW t \in Task, Find(t)
  PROVE  BlocksInv'
PROOF
<1>1. PICK i : i = PositionIn(Kids(task[t].kids), task[t].op.child)
  OBVIOUS
<1>2. /\ task[t].pc = "find" /\ UNCHANGED <<blocks, updated, object, started, mixed>>
      /\ \/ task' = [task EXCEPT ![t].at = i, ![t].pc = "cut"]
         \/ End(t)
         \/ Go(t, "again")
  BY <1>1 DEF Find
<1>3. Active(t)
  BY <1>2 DEF Active
<1>4. task[t].op.kind \in {"insert", "take"}
  BY <1>2, <1>3, Own DEF KindOf
<1>5. object' \in [Name -> Object] /\ \A n \in Name : object'[n].kids = object[n].kids
  BY <1>2, SameObjects
<1>6. "cut" \in ChildSteps /\ "again" \in ChildSteps
  BY DEF ChildSteps
<1>7. /\ Moves(t)
      /\ task'[t] = Idle \/ (task'[t].op = task[t].op /\ task'[t].pc \in ChildSteps)
  <2>1. CASE task' = [task EXCEPT ![t].at = i, ![t].pc = "cut"]
    BY <2>1, <1>4, <1>6, GoAtMoves
  <2>2. CASE End(t)
    BY <2>2, EndMoves
  <2>3. CASE Go(t, "again")
    BY <2>3, <1>4, <1>6, GoMoves
  <2>4. QED BY <2>1, <2>2, <2>3, <1>2
<1>8. QED BY <1>2, <1>5, <1>7, ChildStepKeeps

LEMMA CutKeeps ==
  ASSUME BlocksInv, NEW t \in Task, Cut(t)
  PROVE  BlocksInv'
PROOF
<1>1. /\ task[t].pc = "cut" /\ UNCHANGED <<blocks, updated, object, started, mixed>>
      /\ End(t) \/ Go(t, "cutlog")
  BY DEF Cut
<1>2. Active(t)
  BY <1>1 DEF Active
<1>3. task[t].op.kind \in {"insert", "take"}
  BY <1>1, <1>2, Own DEF KindOf
<1>4. object' \in [Name -> Object] /\ \A n \in Name : object'[n].kids = object[n].kids
  BY <1>1, SameObjects
<1>5. /\ Moves(t)
      /\ task'[t] = Idle \/ (task'[t].op = task[t].op /\ task'[t].pc \in ChildSteps)
  <2>1. CASE End(t)
    BY <2>1, EndMoves
  <2>2. CASE Go(t, "cutlog")
    BY <2>2, <1>3, GoMoves DEF ChildSteps
  <2>3. QED BY <2>1, <2>2, <1>1
<1>6. QED BY <1>1, <1>4, <1>5, ChildStepKeeps

LEMMA CutLogKeeps ==
  ASSUME BlocksInv, NEW t \in Task, CutLog(t)
  PROVE  BlocksInv'
PROOF
<1>1. /\ task[t].pc = "cutlog" /\ UNCHANGED <<blocks, object, started, mixed>>
      /\ updated' = updated \cup {task[t].op.block}
      /\ End(t) \/ Go(t, "again")
  BY DEF CutLog
<1>2. Active(t)
  BY <1>1 DEF Active
<1>3. task[t].op.kind \in {"insert", "take"}
  BY <1>1, <1>2, Own DEF KindOf
<1>4. object' \in [Name -> Object] /\ \A n \in Name : object'[n].kids = object[n].kids
  BY <1>1, SameObjects
<1>5. /\ Moves(t)
      /\ task'[t] = Idle \/ (task'[t].op = task[t].op /\ task'[t].pc \in ChildSteps)
  <2>1. CASE End(t)
    BY <2>1, EndMoves
  <2>2. CASE Go(t, "again")
    BY <2>2, <1>3, GoMoves DEF ChildSteps
  <2>3. QED BY <2>1, <2>2, <1>1
<1>6. QED BY <1>1, <1>4, <1>5, ChildStepKeeps

LEMMA FindPlaceKeeps ==
  ASSUME BlocksInv, NEW t \in Task, FindPlace(t)
  PROVE  BlocksInv'
PROOF
<1>1. PICK i : i = Place(Kids(task[t].kids), task[t].op.where)
  OBVIOUS
<1>2. /\ task[t].pc = "place" /\ UNCHANGED <<blocks, updated, object, started, mixed>>
      /\ task' = [task EXCEPT ![t].at = i, ![t].pc = "put"]
  BY <1>1 DEF FindPlace
<1>3. Active(t)
  BY <1>2 DEF Active
<1>4. task[t].op.kind \in {"insert", "take"}
  BY <1>2, <1>3, Own DEF KindOf
<1>5. object' \in [Name -> Object] /\ \A n \in Name : object'[n].kids = object[n].kids
  BY <1>2, SameObjects
<1>6. "put" \in ChildSteps
  BY DEF ChildSteps
<1>7. Moves(t) /\ task'[t].op = task[t].op /\ task'[t].pc \in ChildSteps
  BY <1>2, <1>4, <1>6, GoAtMoves
<1>8. QED BY <1>2, <1>5, <1>7, ChildStepKeeps

LEMMA PutKeeps ==
  ASSUME BlocksInv, NEW t \in Task, Put(t)
  PROVE  BlocksInv'
PROOF
<1>1. /\ task[t].pc = "put" /\ UNCHANGED <<blocks, updated, object, started, mixed>>
      /\ End(t) \/ Go(t, "log")
  BY DEF Put
<1>2. Active(t)
  BY <1>1 DEF Active
<1>3. task[t].op.kind \in {"insert", "take"}
  BY <1>1, <1>2, Own DEF KindOf
<1>4. object' \in [Name -> Object] /\ \A n \in Name : object'[n].kids = object[n].kids
  BY <1>1, SameObjects
<1>5. /\ Moves(t)
      /\ task'[t] = Idle \/ (task'[t].op = task[t].op /\ task'[t].pc \in ChildSteps)
  <2>1. CASE End(t)
    BY <2>1, EndMoves
  <2>2. CASE Go(t, "log")
    BY <2>2, <1>3, GoMoves DEF ChildSteps
  <2>3. QED BY <2>1, <2>2, <1>1
<1>6. QED BY <1>1, <1>4, <1>5, ChildStepKeeps

-----------------------------------------------------------------------------
(* An operation starts.                                                    *)

\* An operation that touches what others touch, or what is open, mixes it.
Met(o) == {u \in Task : task[u].pc # "idle" /\ Touched(task[u].op) \cap Touched(o) # {}}

LEMMA Mixing ==
  ASSUME NEW t \in Task, NEW o \in Op, Begin(t, o)
  PROVE  /\ mixed \subseteq mixed'
         /\ Met(o) # {} => Touched(o) \subseteq mixed'
         /\ \A u \in Met(o) : Touched(task[u].op) \subseteq mixed'
PROOF
<1>1. mixed' = IF Met(o) # {} \/ Touched(o) \cap mixed # {}
               THEN mixed \cup Touched(o) \cup UNION {Touched(task[u].op) : u \in Met(o)}
               ELSE mixed
  BY DEF Begin, Met
<1>2. QED BY <1>1

\* The names there are differ from the next one.
LEMMA NextName ==
  ASSUME BlocksInv, NEW n \in Old \cup {None}, started < MaxOps
  PROVE  n # started + 1 /\ started \in Nat /\ started + 1 \in 1..MaxOps
PROOF
<1>1. started \in 0..MaxOps /\ MaxOps \in Nat
  BY Names DEF BlocksInv, Shape
<1>2. started + 1 \in 1..MaxOps
  BY <1>1
<1>3. started + 1 # None /\ started + 1 \notin Block
  BY <1>2, Names
<1>4. QED BY <1>1, <1>2, <1>3 DEF Old

LEMMA BeginMakes ==
  ASSUME BlocksInv, NEW t \in Task, NEW o \in Op, Begin(t, o), FirstStep(o) # "idle"
  PROVE  /\ task' = [u \in Task |-> task'[u]] /\ \A u \in Task : Shaped(task'[u])
         /\ \A u \in Task : u # t => task'[u] = task[u]
         /\ task'[t].op = o /\ task'[t].pc = FirstStep(o) /\ task'[t].map = blocks[o.block]
         /\ task'[t].name = started + 1 /\ task'[t].at = 0
         /\ task'[t].kids = IF IsBlock(o.block) THEN object[blocks[o.block]].kids ELSE None
         /\ task'[t].child = IF o.kind \in {"insert", "take"} THEN blocks[o.child] ELSE None
PROOF
<1>1. PICK k : k = IF IsBlock(o.block) THEN object[blocks[o.block]].kids ELSE None
  OBVIOUS
<1>2. PICK c : c = IF o.kind \in {"insert", "take"} THEN blocks[o.child] ELSE None
  OBVIOUS
<1>3. PICK r : r = [op |-> o, pc |-> FirstStep(o), map |-> blocks[o.block], kids |-> k,
                    child |-> c, name |-> started + 1, at |-> 0]
  OBVIOUS
<1>4. task' = [task EXCEPT ![t] = r]
  BY <1>1, <1>2, <1>3 DEF Begin
<1>5. task = [u \in Task |-> task[u]] /\ \A u \in Task : Shaped(task[u])
  BY DEF BlocksInv, Shape
<1>6. task' = [u \in Task |-> IF u = t THEN r ELSE task[u]]
  BY <1>4, <1>5
<1>7. /\ Shaped(r) /\ r.op = o /\ r.pc = FirstStep(o) /\ r.map = blocks[o.block]
      /\ r.name = started + 1 /\ r.at = 0 /\ r.kids = k /\ r.child = c
  BY <1>3 DEF Shaped
<1>8. QED BY <1>1, <1>2, <1>5, <1>6, <1>7

LEMMA FirstSteps ==
  ASSUME NEW o \in Op
  PROVE  /\ o.kind = "set" => FirstStep(o) \in {"content", "make"}
                              /\ (FirstStep(o) = "content" => IsBlock(o.block))
         /\ o.kind = "remove" => FirstStep(o) = "drop"
         /\ o.kind \in {"insert", "take"} =>
              FirstStep(o) = "idle" \/ (FirstStep(o) = "adopt" /\ IsBlock(o.block))
PROOF BY Ops DEF FirstStep

LEMMA BeginKeeps ==
  ASSUME BlocksInv, NEW t \in Task, NEW o \in Op, Begin(t, o)
  PROVE  BlocksInv'
PROOF
<1>1. Shape /\ Kinds /\ Named /\ Owned /\ Meeting /\ Logged /\ NoHalfBlock
  BY DEF BlocksInv
<1>2. /\ task[t].pc = "idle" /\ started < MaxOps /\ started' = started + 1
      /\ UNCHANGED <<blocks, updated, object>>
      /\ FirstStep(o) = "idle" => task' = task
  BY DEF Begin
<1>3. /\ mixed \subseteq mixed'
      /\ Met(o) # {} => Touched(o) \subseteq mixed'
      /\ \A u \in Met(o) : Touched(task[u].op) \subseteq mixed'
  BY Mixing
<1>4. /\ o.block \in Block /\ Touched(o) \subseteq Block /\ o.block \in Touched(o)
      /\ o.kind \in {"set", "remove", "insert", "take"}
  BY Ops
<1>5. /\ o.kind = "set" => FirstStep(o) \in {"content", "make"}
                           /\ (FirstStep(o) = "content" => IsBlock(o.block))
      /\ o.kind = "remove" => FirstStep(o) = "drop"
      /\ o.kind \in {"insert", "take"} =>
           FirstStep(o) = "idle" \/ (FirstStep(o) = "adopt" /\ IsBlock(o.block))
  BY FirstSteps
<1>6. /\ started \in Nat /\ MaxOps \in Nat /\ started + 1 \in 1..MaxOps
      /\ \A n \in Old \cup {None} : n # started + 1
      /\ Old' = Old \cup {started + 1}
  <2>1. MaxOps \in Nat /\ started \in 0..MaxOps
    BY <1>1, Names DEF Shape
  <2>2. \A n \in Old \cup {None} : n # started + 1
    BY <1>2, NextName
  <2>3. QED BY <2>1, <2>2, <1>2 DEF Old
<1>7. \A b \in Block : (IsBlock(b)' <=> IsBlock(b)) /\ (Same(b)' <=> Same(b))
  BY <1>2 DEF IsBlock, Same
<1>8. CASE FirstStep(o) = "idle"
  <2>1. task' = task
    BY <1>2, <1>8
  <2>2. Shape'
    BY <2>1, <1>1, <1>2, <1>6 DEF Shape
  <2>3. Kinds'
    BY <2>1, <1>1 DEF Kinds, Active
  <2>4. Named'
    BY <2>1, <1>1, <1>2, <1>6 DEF Named, Active
  <2>5. Owned'
    BY <2>1, <1>1, <1>2 DEF Owned, Active
  <2>6. Meeting'
    BY <2>1, <1>1, <1>3 DEF Meeting, Active
  <2>7. Logged'
    BY <2>1, <1>1, <1>2, <1>3 DEF Logged, Active, Untouched, Midway, Same, IsBlock
  <2>8. NoHalfBlock'
    BY <2>1, <1>1, <1>2 DEF NoHalfBlock, IsBlock
  <2>9. QED BY <2>2, <2>3, <2>4, <2>5, <2>6, <2>7, <2>8 DEF BlocksInv
<1>9. CASE FirstStep(o) # "idle"
  <2>1. /\ task' = [u \in Task |-> task'[u]] /\ \A u \in Task : Shaped(task'[u])
        /\ \A u \in Task : u # t => task'[u] = task[u]
        /\ task'[t].op = o /\ task'[t].pc = FirstStep(o) /\ task'[t].map = blocks[o.block]
        /\ task'[t].name = started + 1
    BY <1>9, BeginMakes
  <2>2. Shape'
    BY <2>1, <1>1, <1>2, <1>6 DEF Shape
  <2>3. Kinds'
    <3>1. ASSUME NEW u \in Task
          PROVE  /\ task'[u].pc # "idle" => task'[u].op \in Op
                 /\ task'[u].pc = "idle" => task'[u] = Idle
                 /\ KindOf(task'[u])
      <4>1. CASE u # t
        BY <4>1, <2>1, <1>1 DEF Kinds, KindOf, Active
      <4>2. CASE u = t
        <5>1. KindOf(task'[t])
          BY <2>1, <1>4, <1>5, <1>9 DEF KindOf
        <5>2. QED BY <5>1, <4>2, <2>1, <1>9
      <4>3. QED BY <4>1, <4>2
    <3>2. QED BY <3>1 DEF Kinds, KindOf, Active
  <2>4. Named'
    <3>1. /\ \A b \in Block : blocks[b] \in Old \cup {None} /\ blocks[b] # started + 1
          /\ \A u \in Task :
               /\ task[u].map \in Old \cup {None} /\ task[u].map # started + 1
               /\ Active(u) => task[u].name \in 1..started /\ task[u].name # started + 1
               /\ task[u].pc = "make" => /\ \A b \in Block : blocks[b] # task[u].name
                                         /\ \A v \in Task : task[v].map # task[u].name
          /\ \A u, v \in Task : Active(u) /\ Active(v) /\ u # v => task[u].name # task[v].name
      BY <1>1, <1>6 DEF Named
    <3>2. ASSUME NEW u \in Task
          PROVE  /\ task'[u].map \in Old \cup {None} /\ task'[u].map # started + 1
                 /\ u # t /\ task'[u].pc # "idle" => Active(u) /\ task'[u].name = task[u].name
                 /\ u = t => task'[u].name = started + 1
                 /\ task'[u].pc # "idle" => task'[u].name \in 1..(started + 1)
      BY <3>1, <2>1, <1>4, <1>6 DEF Active
    <3>3. ASSUME NEW u \in Task, task'[u].pc = "make"
          PROVE  /\ \A b \in Block : blocks[b] # task'[u].name
                 /\ \A v \in Task : task'[v].map # task'[u].name
      <4>1. CASE u = t
        BY <4>1, <3>1, <3>2
      <4>2. CASE u # t
        <5>1. task'[u] = task[u] /\ task[u].pc = "make"
          BY <4>2, <3>3, <2>1
        <5>2. QED BY <5>1, <3>1, <2>1, <1>4
      <4>3. QED BY <4>1, <4>2
    <3>4. ASSUME NEW u \in Task, NEW v \in Task, task'[u].pc # "idle", task'[v].pc # "idle", u # v
          PROVE  task'[u].name # task'[v].name
      BY <3>1, <3>2, <3>4
    <3>5. \A b \in Block : blocks'[b] \in Old' \cup {None}
      BY <3>1, <1>2, <1>6
    <3>6. \A u \in Task : /\ task'[u].map \in Old' \cup {None}
                          /\ task'[u].pc # "idle" => task'[u].name \in 1..started'
      BY <3>2, <1>2, <1>6
    <3>7. QED BY <3>3, <3>4, <3>5, <3>6, <1>2 DEF Named, Active
  <2>5. Owned'
    BY <2>1, <1>1, <1>2, <1>4 DEF Owned, Active
  <2>6. Meeting'
    <3> SUFFICES ASSUME NEW u \in Task, NEW v \in Task, task'[u].pc # "idle", task'[v].pc # "idle",
                        u # v, Touched(task'[u].op) \cap Touched(task'[v].op) # {}
                 PROVE  Touched(task'[u].op) \subseteq mixed'
      BY DEF Meeting, Active
    <3>1. CASE u # t /\ v # t
      BY <3>1, <2>1, <1>1, <1>3 DEF Meeting, Active
    <3>2. CASE u = t
      <4>1. v \in Met(o)
        BY <3>2, <2>1 DEF Met
      <4>2. QED BY <4>1, <3>2, <2>1, <1>3
    <3>3. CASE v = t
      <4>1. u \in Met(o)
        BY <3>3, <2>1 DEF Met
      <4>2. QED BY <4>1, <3>3, <2>1, <1>3
    <3>4. QED BY <3>1, <3>2, <3>3
  <2>7. Logged'
    <3> SUFFICES ASSUME NEW b \in Block \ mixed'
                 PROVE  /\ Untouched(b)' => Same(b)'
                        /\ \A u \in Task : task'[u].pc # "idle" /\ b \in Touched(task'[u].op) =>
                             Midway(u, b)'
      BY DEF Logged, Active
    <3>1. b \in Block \ mixed
      BY <1>3
    <3>2. Untouched(b) => Same(b)'
      BY <3>1, <1>1, <1>7 DEF Logged
    <3>3. Untouched(b)' => Untouched(b)
      BY <2>1, <1>2 DEF Untouched
    <3>4. ASSUME NEW u \in Task, u # t, task'[u].pc # "idle", b \in Touched(task'[u].op)
          PROVE  Midway(u, b)'
      <4>1. task'[u] = task[u] /\ Midway(u, b)
        BY <3>1, <3>4, <2>1, <1>1 DEF Logged, Active
      <4>2. QED BY <4>1, <3>1, <1>2, <1>7 DEF Midway
    <3>5. ASSUME b \in Touched(o) PROVE Midway(t, b)'
      <4>1. Untouched(b)
        BY <3>5, <1>3 DEF Untouched, Met
      <4>2. Same(b)'
        BY <4>1, <3>2
      <4>3. o.kind \in {"insert", "take"} => IsBlock(o.block)'
        BY <1>4, <1>5, <1>7, <1>9
      <4>4. FirstStep(o) = "content" => IsBlock(o.block)'
        BY <1>4, <1>5, <1>7
      <4>5. FirstStep(o) \in {"content", "make", "drop", "adopt"}
        BY <1>4, <1>5, <1>9
      <4>6. QED BY <4>2, <4>3, <4>4, <4>5, <2>1 DEF Midway
    <3>6. QED BY <3>2, <3>3, <3>4, <3>5, <2>1
  <2>8. NoHalfBlock'
    <3> SUFFICES ASSUME NEW b \in Block, blocks'[b] # None, ~IsBlock(b)'
                 PROVE  \E u \in Task : HalfDone(u, b)'
      BY DEF NoHalfBlock, HalfDone
    <3>1. PICK u \in Task : HalfDone(u, b)
      BY <1>1, <1>2, <1>7 DEF NoHalfBlock, HalfDone
    <3>2. u # t
      BY <3>1, <1>2 DEF HalfDone
    <3>3. HalfDone(u, b)'
      BY <3>1, <3>2, <2>1, <1>2 DEF HalfDone
    <3>4. QED BY <3>3
  <2>9. QED BY <2>2, <2>3, <2>4, <2>5, <2>6, <2>7, <2>8 DEF BlocksInv
<1>10. QED BY <1>8, <1>9

-----------------------------------------------------------------------------
LEMMA InitInv == Init => BlocksInv
PROOF
<1> SUFFICES ASSUME Init PROVE BlocksInv
  OBVIOUS
<1>1. /\ Loaded \subseteq Block /\ MaxOps \in Nat /\ None \notin Name /\ Block \subseteq Name
  BY BlocksAssumption, Names
<1>2. /\ blocks = [b \in Block |-> IF b \in Loaded THEN b ELSE None]
      /\ updated = Loaded /\ started = 0 /\ mixed = {} /\ task = [t \in Task |-> Idle]
      /\ object = [n \in Name |-> IF n \in Loaded
                     THEN [flavour |-> FirstFlavour, parent |-> None, kids |-> n, content |-> 0]
                     ELSE NewObject]
  BY DEF Init
<1>3. \A t \in Task : task[t] = Idle
  BY <1>2
<1>4. Shaped(Idle) /\ Idle.pc = "idle" /\ Idle.map = None
  BY DEF Shaped, Idle
<1>5. object \in [Name -> Object]
  <2>1. NewObject \in Object
    BY DEF NewObject, Object
  <2>2. \A n \in Loaded : [flavour |-> FirstFlavour, parent |-> None, kids |-> n, content |-> 0]
                            \in Object
    BY <1>1 DEF Object
  <2>3. QED BY <2>1, <2>2, <1>2
<1>6. Shape
  BY <1>1, <1>2, <1>3, <1>4, <1>5 DEF Shape
<1>7. Kinds
  BY <1>3, <1>4 DEF Kinds, Active
<1>8. Named
  BY <1>1, <1>2, <1>3, <1>4 DEF Named, Active, Old
<1>9. Owned
  BY <1>1, <1>2, <1>3, <1>4 DEF Owned, Active
<1>10. Meeting
  BY <1>3, <1>4 DEF Meeting, Active
<1>11. \A b \in Block : /\ b \in Loaded => blocks[b] # None /\ IsBlock(b)
                        /\ b \notin Loaded => blocks[b] = None
  <2>1. ASSUME NEW b \in Loaded PROVE blocks[b] = b /\ b # None /\ object[b].kids = b
    BY <2>1, <1>1, <1>2
  <2>2. QED BY <2>1, <1>1, <1>2 DEF IsBlock
<1>12. Logged
  BY <1>2, <1>3, <1>4, <1>11 DEF Logged, Active, Same, IsBlock
<1>13. NoHalfBlock
  BY <1>11 DEF NoHalfBlock
<1>14. QED BY <1>6, <1>7, <1>8, <1>9, <1>10, <1>12, <1>13 DEF BlocksInv

LEMMA NextInv == BlocksInv /\ [Next]_vars => BlocksInv'
PROOF
<1> SUFFICES ASSUME BlocksInv, [Next]_vars PROVE BlocksInv'
  OBVIOUS
<1>1. ASSUME NEW t \in Task, Step(t) PROVE BlocksInv'
  BY <1>1, CreateMapKeeps, CreateGetKeeps, CreateFlavourKeeps, CreateChildrenKeeps,
     CreateHandleKeeps, SetContentKeeps, LogKeeps, DropKeeps, UnlogKeeps, AdoptKeeps, FindKeeps,
     CutKeeps, CutLogKeeps, FindPlaceKeeps, PutKeeps DEF Step
<1>2. ASSUME NEW t \in Task, NEW o \in Op, Begin(t, o) PROVE BlocksInv'
  BY <1>2, BeginKeeps
<1>3. ASSUME UNCHANGED <<blocks, updated, object, task, started, mixed>> PROVE BlocksInv'
  <2>1. Shape' /\ Kinds' /\ Named' /\ Owned'
    BY <1>3 DEF BlocksInv, Shape, Kinds, Named, Owned, Active, Old
  <2>2. Meeting' /\ NoHalfBlock'
    BY <1>3 DEF BlocksInv, Meeting, NoHalfBlock, Active, IsBlock
  <2>3. \A b : (IsBlock(b)' <=> IsBlock(b)) /\ (Same(b)' <=> Same(b))
               /\ (Untouched(b)' <=> Untouched(b))
    BY <1>3 DEF IsBlock, Same, Untouched
  <2>4. \A b, t : Midway(t, b)' <=> Midway(t, b)
    BY <1>3, <2>3 DEF Midway
  <2>5. Logged'
    BY <1>3, <2>3, <2>4 DEF BlocksInv, Logged, Active
  <2>6. QED BY <2>1, <2>2, <2>5 DEF BlocksInv
<1>4. CASE ReadAll
  BY <1>3, <1>4 DEF ReadAll
<1>5. CASE UNCHANGED vars
  BY <1>3, <1>5 DEF vars
<1>6. QED BY <1>1, <1>2, <1>4, <1>5 DEF Next

LEMMA InvHolds == Spec => []BlocksInv
PROOF BY InitInv, NextInv, PTL DEF Spec

\* However the steps of creations, removals, insertions and readers of the
\* blocks interleave, a block whose map has no children array yet is one an
\* operation is creating right there (Space::create, Space::remove).
THEOREM NoBlockLeftHalf == Spec => []NoHalfBlock
PROOF
<1>1. BlocksInv => NoHalfBlock
  BY DEF BlocksInv
<1>2. QED BY <1>1, InvHolds, PTL

\* Operations that did not meet on a block leave "space:updated" with an entry
\* for it exactly when it is there (Block::log_update, Space::remove).
THEOREM LogFollowsBlocks == Spec => []LoggedAsThere
PROOF
<1>1. BlocksInv => LoggedAsThere
  BY DEF BlocksInv, Logged, LoggedAsThere, Same
<1>2. QED BY <1>1, InvHolds, PTL

-----------------------------------------------------------------------------
(* A block is as its operations asked: children lists.                     *)

Distinct(s) == \A i, j \in DOMAIN s : i # j => s[i] # s[j]
Holds(s, x) == \E i \in DOMAIN s : s[i] = x

\* A set of naturals that is not empty has a least element.
LEMMA Least ==
  ASSUME NEW S, S \subseteq Nat, S # {}
  PROVE  \E n \in S : \A m \in S : n <= m
PROOF
<1>1. PICK R : R = OpToRel(<, Nat)
  OBVIOUS
<1>2. R = {ss \in Nat \X Nat : ss[1] < ss[2]}
  BY <1>1 DEF OpToRel
<1>3. PICK n \in S : \A m \in S : ~(<<m, n>> \in R)
  BY <1>1, NatLessThanWellFounded, WFMin
<1>4. ASSUME NEW m \in S PROVE n <= m
  <2>1. m \in Nat /\ n \in Nat /\ (m < n => <<m, n>> \in R)
    BY <1>2
  <2>2. QED BY <2>1, <1>3
<1>5. QED BY <1>4

\* Pieces of a sequence.
LEMMA Piece ==
  ASSUME NEW S, NEW s \in Seq(S), NEW i \in 1..Len(s) + 1, NEW j \in i - 1..Len(s)
  PROVE  /\ SubSeq(s, i, j) \in Seq(S) /\ Len(SubSeq(s, i, j)) = j - i + 1
         /\ \A k \in 1..j - i + 1 : SubSeq(s, i, j)[k] = s[i + k - 1]
PROOF
<1>1. Len(SubSeq(s, i, j)) = j - i + 1
  OBVIOUS
<1>2. \A k \in 1..j - i + 1 : SubSeq(s, i, j)[k] = s[i + k - 1]
  OBVIOUS
<1>3. SubSeq(s, i, j) \in Seq(S)
  OBVIOUS
<1>4. QED BY <1>1, <1>2, <1>3

\* Without a value that stands at k only, or, for k behind the end, nowhere.
LEMMA WithoutIs ==
  ASSUME NEW S, NEW s \in Seq(S), NEW x, NEW k \in 1..Len(s) + 1,
         \A i \in 1..Len(s) : s[i] = x <=> i = k
  PROVE  Without(s, x) = SubSeq(s, 1, k - 1) \o SubSeq(s, k + 1, Len(s))
PROOF
<1> DEFINE N == Len(s)
           F(g) == [i \in 0..N |-> IF i = 0 THEN <<>> ELSE IF s[i] = x THEN g[i-1]
                                   ELSE Append(g[i-1], s[i])]
           rest == CHOOSE g : g = F(g)
           V(i) == IF i < k THEN SubSeq(s, 1, i) ELSE SubSeq(s, 1, k - 1) \o SubSeq(s, k + 1, i)
           G == [i \in 0..N |-> V(i)]
<1>1. Without(s, x) = rest[N]
  BY DEF Without
<1>2. N \in Nat /\ k \in Nat /\ N = Len(s)
  OBVIOUS
<1>v. \A i \in 0..N : G[i] = V(i)
  <2> HIDE DEF V
  <2>1. QED OBVIOUS
<1>3. ASSUME NEW i \in 0..N
      PROVE  G[i] = IF i = 0 THEN <<>> ELSE IF s[i] = x THEN G[i-1] ELSE Append(G[i-1], s[i])
  <2> HIDE DEF G
  <2>0. G[i] = V(i) /\ (i # 0 => i - 1 \in 0..N /\ G[i - 1] = V(i - 1))
    <3> HIDE DEF V
    <3>1. i # 0 => i - 1 \in 0..N
      OBVIOUS
    <3>2. QED BY <3>1, <1>v
  <2>1. CASE i = 0
    <3>1. V(0) = <<>>
      BY <1>2
    <3>2. QED BY <2>0, <2>1, <3>1
  <2>2. CASE i # 0 /\ i < k
    <3>1. G[i] = SubSeq(s, 1, i) /\ G[i-1] = SubSeq(s, 1, i - 1) /\ s[i] # x
      <4>1. i < k /\ i - 1 < k /\ i # k /\ i \in 1..Len(s)
        BY <2>2, <1>2
      <4>2. V(i) = SubSeq(s, 1, i) /\ V(i - 1) = SubSeq(s, 1, i - 1)
        BY <4>1
      <4> HIDE DEF V
      <4>3. QED BY <4>1, <4>2, <2>0, <2>2
    <3>2. SubSeq(s, 1, i) = Append(SubSeq(s, 1, i - 1), s[i])
      BY <2>2, <1>2
    <3> HIDE DEF G
    <3>3. QED BY <2>2, <3>1, <3>2
  <2>3. CASE i # 0 /\ i = k
    <3>1. G[i] = SubSeq(s, 1, k - 1) \o SubSeq(s, k + 1, k) /\ G[i-1] = SubSeq(s, 1, k - 1) /\ s[i] = x
      <4>1. ~(i < k) /\ i - 1 < k /\ i \in 1..Len(s) /\ i - 1 = k - 1
        BY <2>3, <1>2
      <4>2. V(i) = SubSeq(s, 1, k - 1) \o SubSeq(s, k + 1, i) /\ V(i - 1) = SubSeq(s, 1, i - 1)
        BY <4>1
      <4> HIDE DEF V
      <4>3. QED BY <4>1, <4>2, <2>0, <2>3
    <3>2. SubSeq(s, 1, k - 1) \o SubSeq(s, k + 1, k) = SubSeq(s, 1, k - 1)
      BY <2>3, <1>2
    <3> HIDE DEF G
    <3>3. QED BY <2>3, <3>1, <3>2
  <2>4. CASE i > k
    <3>1. /\ G[i] = SubSeq(s, 1, k - 1) \o SubSeq(s, k + 1, i)
          /\ G[i-1] = SubSeq(s, 1, k - 1) \o SubSeq(s, k + 1, i - 1) /\ s[i] # x
      <4>1. i # 0 /\ ~(i < k) /\ ~(i - 1 < k) /\ i # k /\ i \in 1..Len(s)
        BY <2>4, <1>2
      <4>2. V(i) = SubSeq(s, 1, k - 1) \o SubSeq(s, k + 1, i)
        BY <4>1
      <4>3. V(i - 1) = SubSeq(s, 1, k - 1) \o SubSeq(s, k + 1, i - 1)
        BY <4>1
      <4> HIDE DEF V
      <4>4. QED BY <4>1, <4>2, <4>3, <2>0
    <3>2. SubSeq(s, k + 1, i) = Append(SubSeq(s, k + 1, i - 1), s[i])
      BY <2>4, <1>2
    <3>3. PICK a : a = SubSeq(s, 1, k - 1)
      OBVIOUS
    <3>4. PICK b : b = SubSeq(s, k + 1, i - 1)
      OBVIOUS
    <3>5. a \in Seq(S) /\ b \in Seq(S) /\ s[i] \in S
      BY <2>4, <1>2, <3>3, <3>4
    <3>6. a \o Append(b, s[i]) = Append(a \o b, s[i])
      BY <3>5
    <3>7. i # 0 /\ G[i] = a \o Append(b, s[i]) /\ G[i - 1] = a \o b
      <4>1. i # 0
        BY <2>4, <1>2
      <4>2. PICK c : c = SubSeq(s, k + 1, i)
        OBVIOUS
      <4>3. c = Append(b, s[i])
        BY <4>2, <3>2, <3>4
      <4>4. G[i] = a \o c /\ G[i - 1] = a \o b
        <5> HIDE DEF V
        <5>1. QED BY <4>2, <3>1, <3>3, <3>4, Zenon
      <4> HIDE DEF V
      <4>5. QED BY <4>1, <4>3, <4>4, Zenon
    <3>8. QED BY <3>1, <3>6, <3>7
  <2>5. QED BY <2>1, <2>2, <2>3, <2>4, <1>2
<1>4. G = F(G)
  <2>1. PICK g : g = G
    OBVIOUS
  <2>2. g = [i \in 0..N |-> g[i]]
    BY <2>1
  <2>3. \A i \in 0..N : g[i] = IF i = 0 THEN <<>> ELSE IF s[i] = x THEN g[i-1]
                               ELSE Append(g[i-1], s[i])
    <3> HIDE DEF G
    <3>1. QED BY <1>3, <2>1
  <2> HIDE DEF G
  <2>4. g = F(g)
    BY <2>2, <2>3
  <2>5. QED BY <2>1, <2>4
<1>5. PICK h : h = rest
  OBVIOUS
<1>6. h = F(h)
  <2> HIDE DEF F, G
  <2>1. QED BY <1>4, <1>5
<1>7. \A i \in 0..N : h[i] = IF i = 0 THEN <<>> ELSE IF s[i] = x THEN h[i-1]
                             ELSE Append(h[i-1], s[i])
  <2> HIDE DEF rest
  <2>1. QED BY <1>6
<1>8. \A i \in 0..N : h[i] = G[i]
  <2> SUFFICES ASSUME {i \in 0..N : h[i] # G[i]} # {} PROVE FALSE
    OBVIOUS
  <2>1. PICK i \in 0..N : h[i] # G[i] /\ \A j \in 0..N : h[j] # G[j] => i <= j
    <3> HIDE DEF G
    <3>1. {i \in 0..N : h[i] # G[i]} \subseteq Nat
      OBVIOUS
    <3>2. PICK T : T = {i \in 0..N : h[i] # G[i]}
      OBVIOUS
    <3>3. PICK n \in T : \A m \in T : n <= m
      BY <3>1, <3>2, Least
    <3>4. QED BY <3>2, <3>3
  <2>2. i # 0 => i - 1 \in 0..N /\ h[i - 1] = G[i - 1]
    <3> HIDE DEF G
    <3>1. QED BY <2>1, <1>2
  <2> HIDE DEF G
  <2>3. QED BY <2>1, <2>2, <1>3, <1>7
<1>9. G[N] = SubSeq(s, 1, k - 1) \o SubSeq(s, k + 1, N)
  <2>1. G[N] = V(N)
    <3> HIDE DEF V, G
    <3>1. N \in 0..N
      BY <1>2
    <3>2. QED BY <3>1, <1>v
  <2>2. CASE N < k
    <3>1. k = N + 1
      BY <2>2, <1>2
    <3>2. PICK a : a = SubSeq(s, 1, N)
      OBVIOUS
    <3>3. SubSeq(s, N + 2, N) = <<>> /\ a \in Seq(S)
      BY <1>2, <3>2
    <3>4. a \o <<>> = a
      BY <3>3
    <3>5. V(N) = SubSeq(s, 1, N) /\ k - 1 = N /\ k + 1 = N + 2
      BY <2>2, <3>1, <1>2
    <3> HIDE DEF G, V
    <3>6. QED BY <2>1, <3>2, <3>3, <3>4, <3>5
  <2>3. CASE ~(N < k)
    <3>1. V(N) = SubSeq(s, 1, k - 1) \o SubSeq(s, k + 1, N)
      BY <2>3
    <3> HIDE DEF G, V
    <3>2. QED BY <2>1, <3>1
  <2>4. QED BY <2>2, <2>3
<1>10. QED
  <2> HIDE DEF G, rest
  <2>1. N \in 0..N
    BY <1>2
  <2>2. QED BY <2>1, <1>1, <1>2, <1>5, <1>8, <1>9

LEMMA WithoutAt ==
  ASSUME NEW S, NEW s \in Seq(S), NEW x, Distinct(s), NEW k \in 1..Len(s), s[k] = x
  PROVE  Without(s, x) = RemoveAt(s, k)
PROOF
<1>1. \A i \in 1..Len(s) : s[i] = x <=> i = k
  BY DEF Distinct
<1>2. k \in 1..Len(s) + 1
  OBVIOUS
<1>3. QED BY <1>1, <1>2, WithoutIs DEF RemoveAt

LEMMA WithoutNone ==
  ASSUME NEW S, NEW s \in Seq(S), NEW x, ~Holds(s, x)
  PROVE  Without(s, x) = s
PROOF
<1>1. PICK k : k = Len(s) + 1
  OBVIOUS
<1>2. k \in 1..Len(s) + 1 /\ \A i \in 1..Len(s) : s[i] = x <=> i = k
  BY <1>1 DEF Holds
<1>3. Without(s, x) = SubSeq(s, 1, k - 1) \o SubSeq(s, k + 1, Len(s))
  BY <1>2, WithoutIs
<1>4. SubSeq(s, 1, k - 1) = s /\ SubSeq(s, k + 1, Len(s)) = <<>>
  BY <1>1
<1>5. s \o <<>> = s
  OBVIOUS
<1>6. QED BY <1>3, <1>4, <1>5, Zenon

\* Removing one of values that are all different.
LEMMA Removed ==
  ASSUME NEW S, NEW s \in Seq(S), Distinct(s), NEW k \in 1..Len(s), NEW r, r = RemoveAt(s, k)
  PROVE  r \in Seq(S) /\ Distinct(r) /\ ~Holds(r, s[k])
PROOF
<1>1. PICK a : a = SubSeq(s, 1, k - 1)
  OBVIOUS
<1>2. PICK b : b = SubSeq(s, k + 1, Len(s))
  OBVIOUS
<1>3. a \in Seq(S) /\ Len(a) = k - 1 /\ \A i \in 1..k - 1 : a[i] = s[i]
  <2>1. 1 \in 1..Len(s) + 1 /\ k - 1 \in 1 - 1..Len(s)
    OBVIOUS
  <2>2. a \in Seq(S) /\ Len(a) = (k - 1) - 1 + 1 /\ \A i \in 1..(k - 1) - 1 + 1 : a[i] = s[1 + i - 1]
    BY <1>1, <2>1, Piece
  <2>3. QED BY <2>2
<1>4. b \in Seq(S) /\ Len(b) = Len(s) - k /\ \A i \in 1..Len(s) - k : b[i] = s[k + i]
  <2>1. k + 1 \in 1..Len(s) + 1 /\ Len(s) \in (k + 1) - 1..Len(s)
    OBVIOUS
  <2>2. /\ b \in Seq(S) /\ Len(b) = Len(s) - (k + 1) + 1
        /\ \A i \in 1..Len(s) - (k + 1) + 1 : b[i] = s[(k + 1) + i - 1]
    BY <1>2, <2>1, Piece
  <2>3. QED BY <2>2
<1>5. r = a \o b
  BY <1>1, <1>2 DEF RemoveAt
<1>6. r \in Seq(S) /\ Len(r) = Len(s) - 1 /\ \A i \in 1..Len(r) : r[i] = s[IF i < k THEN i ELSE i + 1]
  <2>1. r \in Seq(S) /\ Len(r) = Len(a) + Len(b)
    <3>1. a \in Seq(S) /\ b \in Seq(S)
      BY <1>3, <1>4
    <3>2. QED BY <3>1, <1>5
  <2>2. Len(r) = Len(s) - 1
    BY <2>1, <1>3, <1>4
  <2>3. ASSUME NEW i \in 1..Len(r) PROVE r[i] = s[IF i < k THEN i ELSE i + 1]
    <3>1. CASE i < k
      <4>1. r[i] = a[i]
        BY <3>1, <2>3, <1>3, <1>4, <1>5, <2>2
      <4>2. QED BY <4>1, <3>1, <2>3, <1>3
    <3>2. CASE ~(i < k)
      <4>1. r[i] = b[i - (k - 1)] /\ i - (k - 1) \in 1..Len(s) - k
        BY <3>2, <2>3, <1>3, <1>4, <1>5, <2>2
      <4>2. QED BY <4>1, <3>2, <2>3, <1>4
    <3>3. QED BY <3>1, <3>2
  <2>4. QED BY <2>1, <2>2, <2>3
<1>7. DOMAIN r = 1..Len(r) /\ DOMAIN s = 1..Len(s)
  BY <1>6
<1>8. \A i \in 1..Len(r) : (IF i < k THEN i ELSE i + 1) \in 1..Len(s) /\ (IF i < k THEN i ELSE i + 1) # k
  BY <1>6
<1>9. Distinct(r)
  <2> SUFFICES ASSUME NEW i \in 1..Len(r), NEW j \in 1..Len(r), i # j PROVE r[i] # r[j]
    BY <1>7 DEF Distinct
  <2>1. PICK p : p = IF i < k THEN i ELSE i + 1
    OBVIOUS
  <2>2. PICK q : q = IF j < k THEN j ELSE j + 1
    OBVIOUS
  <2>3. p # q
    BY <2>1, <2>2
  <2>4. p \in DOMAIN s /\ q \in DOMAIN s
    BY <2>1, <2>2, <1>7, <1>8
  <2>5. r[i] = s[p] /\ r[j] = s[q]
    BY <2>1, <2>2, <1>6
  <2>6. QED BY <2>3, <2>4, <2>5 DEF Distinct
<1>10. ~Holds(r, s[k])
  <2> SUFFICES ASSUME NEW i \in 1..Len(r) PROVE r[i] # s[k]
    BY <1>7 DEF Holds
  <2>1. QED BY <1>6, <1>7, <1>8 DEF Distinct
<1>11. QED BY <1>6, <1>9, <1>10

\* Inserting a value among others that are all different.
LEMMA Inserted ==
  ASSUME NEW S, NEW s \in Seq(S), Distinct(s), NEW k \in 0..Len(s), NEW x \in S, ~Holds(s, x),
         NEW r, r = InsertAt(s, k + 1, x)
  PROVE  r \in Seq(S) /\ Distinct(r)
PROOF
<1>1. PICK a : a = SubSeq(s, 1, k)
  OBVIOUS
<1>2. PICK b : b = SubSeq(s, k + 1, Len(s))
  OBVIOUS
<1>3. a \in Seq(S) /\ Len(a) = k /\ \A i \in 1..k : a[i] = s[i]
  <2>1. 1 \in 1..Len(s) + 1 /\ k \in 1 - 1..Len(s)
    OBVIOUS
  <2>2. a \in Seq(S) /\ Len(a) = k - 1 + 1 /\ \A i \in 1..k - 1 + 1 : a[i] = s[1 + i - 1]
    BY <1>1, <2>1, Piece
  <2>3. QED BY <2>2
<1>4. b \in Seq(S) /\ Len(b) = Len(s) - k /\ \A i \in 1..Len(s) - k : b[i] = s[k + i]
  <2>1. k + 1 \in 1..Len(s) + 1 /\ Len(s) \in (k + 1) - 1..Len(s)
    OBVIOUS
  <2>2. /\ b \in Seq(S) /\ Len(b) = Len(s) - (k + 1) + 1
        /\ \A i \in 1..Len(s) - (k + 1) + 1 : b[i] = s[(k + 1) + i - 1]
    BY <1>2, <2>1, Piece
  <2>3. QED BY <2>2
<1>5. r = (a \o <<x>>) \o b
  <2>1. (k + 1) - 1 = k
    OBVIOUS
  <2>2. QED BY <2>1, <1>1, <1>2 DEF InsertAt
<1>6. PICK c : c = a \o <<x>>
  OBVIOUS
<1>7. c \in Seq(S) /\ Len(c) = k + 1 /\ c[k + 1] = x /\ \A i \in 1..k : c[i] = s[i]
  BY <1>3, <1>6
<1>8. r = c \o b
  BY <1>5, <1>6
<1>9. /\ r \in Seq(S) /\ Len(r) = Len(s) + 1 /\ r[k + 1] = x
      /\ \A i \in 1..Len(r) : i # k + 1 => r[i] = s[IF i < k + 1 THEN i ELSE i - 1]
  <2>1. r \in Seq(S) /\ Len(r) = Len(c) + Len(b)
    <3>1. c \in Seq(S) /\ b \in Seq(S)
      BY <1>4, <1>7
    <3>2. c \o b \in Seq(S) /\ Len(c \o b) = Len(c) + Len(b)
      BY <3>1
    <3>3. QED BY <3>2, <1>8, Zenon
  <2>2. Len(r) = Len(s) + 1
    BY <2>1, <1>4, <1>7
  <2>3. r[k + 1] = x
    BY <1>4, <1>7, <1>8
  <2>4. ASSUME NEW i \in 1..Len(r), i # k + 1 PROVE r[i] = s[IF i < k + 1 THEN i ELSE i - 1]
    <3>1. CASE i < k + 1
      <4>1. r[i] = c[i]
        BY <3>1, <2>4, <1>4, <1>7, <1>8
      <4>2. QED BY <4>1, <3>1, <2>4, <1>7
    <3>2. CASE ~(i < k + 1)
      <4>1. r[i] = b[i - (k + 1)] /\ i - (k + 1) \in 1..Len(s) - k
        BY <3>2, <2>2, <2>4, <1>4, <1>7, <1>8
      <4>2. QED BY <4>1, <3>2, <2>4, <1>4
    <3>3. QED BY <3>1, <3>2
  <2>5. QED BY <2>1, <2>2, <2>3, <2>4
<1>10. DOMAIN r = 1..Len(r) /\ DOMAIN s = 1..Len(s)
  BY <1>9
<1>11. \A i \in 1..Len(r) : i # k + 1 => (IF i < k + 1 THEN i ELSE i - 1) \in 1..Len(s)
  BY <1>9
<1>12. Distinct(r)
  <2> SUFFICES ASSUME NEW i \in 1..Len(r), NEW j \in 1..Len(r), i # j PROVE r[i] # r[j]
    BY <1>10 DEF Distinct
  <2>1. CASE i # k + 1 /\ j # k + 1
    <3>1. PICK p : p = IF i < k + 1 THEN i ELSE i - 1
      OBVIOUS
    <3>2. PICK q : q = IF j < k + 1 THEN j ELSE j - 1
      OBVIOUS
    <3>3. p # q
      BY <2>1, <3>1, <3>2
    <3>4. p \in DOMAIN s /\ q \in DOMAIN s
      BY <2>1, <3>1, <3>2, <1>10, <1>11
    <3>5. r[i] = s[p] /\ r[j] = s[q]
      BY <2>1, <3>1, <3>2, <1>9
    <3>6. QED BY <3>3, <3>4, <3>5 DEF Distinct
  <2>2. CASE i = k + 1 \/ j = k + 1
    BY <2>2, <1>9, <1>10, <1>11 DEF Holds
  <2>3. QED BY <2>1, <2>2
<1>13. QED BY <1>9, <1>12

LEMMA PositionIs ==
  ASSUME NEW S, NEW s \in Seq(S), NEW x
  PROVE  /\ Holds(s, x) => PositionIn(s, x) \in 0..Len(s) - 1 /\ s[PositionIn(s, x) + 1] = x
         /\ ~Holds(s, x) => PositionIn(s, x) = -1
PROOF
<1>1. ASSUME Holds(s, x)
      PROVE  PositionIn(s, x) \in 0..Len(s) - 1 /\ s[PositionIn(s, x) + 1] = x
  <2>1. PICK T : T = {i \in DOMAIN s : s[i] = x}
    OBVIOUS
  <2>2. T # {} /\ T \subseteq Nat
    BY <2>1, <1>1 DEF Holds
  <2>3. PICK n \in T : \A m \in T : n <= m
    BY <2>2, Least
  <2>4. \E i \in DOMAIN s : s[i] = x /\ \A j \in 1..(i - 1) : s[j] # x
    <3>1. n \in DOMAIN s /\ s[n] = x
      BY <2>1
    <3>2. \A j \in 1..(n - 1) : s[j] # x
      <4>1. \A j \in 1..(n - 1) : j \in DOMAIN s /\ ~(n <= j)
        BY <3>1
      <4>2. QED BY <4>1, <2>1, <2>3
    <3>3. QED BY <3>1, <3>2
  <2>5. PICK k : k = CHOOSE i \in DOMAIN s : s[i] = x /\ \A j \in 1..(i - 1) : s[j] # x
    OBVIOUS
  <2>6. k \in DOMAIN s /\ s[k] = x
    BY <2>4, <2>5
  <2>7. PositionIn(s, x) = k - 1
    BY <1>1, <2>5 DEF PositionIn, Holds
  <2>8. k \in 1..Len(s)
    BY <2>6
  <2>9. (k - 1) + 1 = k
    BY <2>8
  <2>10. QED BY <2>6, <2>7, <2>8, <2>9
<1>2. ASSUME ~Holds(s, x) PROVE PositionIn(s, x) = -1
  BY <1>2 DEF PositionIn, Holds
<1>3. QED BY <1>1, <1>2

LEMMA PlaceIs ==
  ASSUME NEW S, NEW s \in Seq(S), NEW w \in Where
  PROVE  Place(s, w) \in 0..Len(s)
PROOF
<1>1. CASE w \in [at : {"push"}]
  BY <1>1 DEF Place
<1>2. CASE w \in [at : {"index"}, index : Position]
  <2>1. w.at = "index" /\ w.index \in Nat
    BY <1>2, BlocksAssumption
  <2>2. Place(s, w) = IF Len(s) > w.index THEN w.index ELSE Len(s)
    BY <2>1 DEF Place
  <2>3. QED BY <2>1, <2>2
<1>3. CASE w \in [at : {"before", "after"}, ref : Mark]
  <2>1. w.at \in {"before", "after"}
    BY <1>3
  <2>2. PICK p : p = PositionIn(s, w.ref)
    OBVIOUS
  <2>3. p \in 0..Len(s) - 1 \/ p = -1
    BY <2>2, PositionIs
  <2>4. Place(s, w) = IF p >= 0 THEN (IF w.at = "after" THEN p + 1 ELSE p) ELSE Len(s)
    BY <2>1, <2>2 DEF Place
  <2>5. QED BY <2>3, <2>4
<1>4. QED BY <1>1, <1>2, <1>3 DEF Where

\* The place found is where the promise puts the child.
LEMMA PutIs ==
  ASSUME NEW S, NEW s \in Seq(S), Distinct(s), NEW w \in Where, NEW c
  PROVE  /\ Place(s, w) \in 0..Len(s)
         /\ PutAmong(s, c, w) = InsertAt(s, Place(s, w) + 1, c)
PROOF
<1>1. PICK k : k = CASE w.at = "index" /\ w.index < Len(s) -> w.index
                     [] w.at \in {"before", "after"} /\ (\E i \in DOMAIN s : s[i] = w.ref) ->
                          LET i == CHOOSE i \in DOMAIN s : s[i] = w.ref
                          IN IF w.at = "after" THEN i ELSE i - 1
                     [] OTHER -> Len(s)
  OBVIOUS
<1>2. PutAmong(s, c, w) = SubSeq(s, 1, k) \o <<c>> \o SubSeq(s, k + 1, Len(s))
  BY <1>1 DEF PutAmong
<1>3. k = Place(s, w) /\ k \in 0..Len(s)
  <2>1. CASE w \in [at : {"push"}]
    <3>1. w.at = "push"
      BY <2>1
    <3>2. k = Len(s)
      BY <3>1, <1>1
    <3>3. Place(s, w) = Len(s)
      BY <3>1 DEF Place
    <3>4. QED BY <3>2, <3>3
  <2>2. CASE w \in [at : {"index"}, index : Position]
    <3>1. w.at = "index" /\ w.index \in Nat
      BY <2>2, BlocksAssumption
    <3>2. k = IF w.index < Len(s) THEN w.index ELSE Len(s)
      BY <3>1, <1>1
    <3>3. Place(s, w) = IF Len(s) > w.index THEN w.index ELSE Len(s)
      BY <3>1 DEF Place
    <3>4. QED BY <3>1, <3>2, <3>3
  <2>3. CASE w \in [at : {"before", "after"}, ref : Mark]
    <3>1. w.at \in {"before", "after"}
      BY <2>3
    <3>2. CASE Holds(s, w.ref)
      <4>1. PICK i : i = CHOOSE j \in DOMAIN s : s[j] = w.ref
        OBVIOUS
      <4>2. i \in DOMAIN s /\ s[i] = w.ref
        BY <4>1, <3>2 DEF Holds
      <4>3. k = IF w.at = "after" THEN i ELSE i - 1
        BY <4>1, <3>1, <3>2, <1>1 DEF Holds
      <4>4. PICK p : p = PositionIn(s, w.ref)
        OBVIOUS
      <4>5. p \in 0..Len(s) - 1 /\ s[p + 1] = w.ref
        BY <4>4, <3>2, PositionIs
      <4>6. p + 1 = i
        BY <4>2, <4>5 DEF Distinct
      <4>7. Place(s, w) = IF w.at = "after" THEN p + 1 ELSE p
        BY <4>4, <4>5, <3>1 DEF Place
      <4>8. QED BY <4>3, <4>5, <4>6, <4>7
    <3>3. CASE ~Holds(s, w.ref)
      <4>1. PositionIn(s, w.ref) = -1
        BY <3>3, PositionIs
      <4>2. Place(s, w) = Len(s)
        BY <4>1, <3>1 DEF Place
      <4>3. k = Len(s)
        BY <3>1, <3>3, <1>1 DEF Holds
      <4>4. QED BY <4>2, <4>3
    <3>4. QED BY <3>2, <3>3
  <2>4. QED BY <2>1, <2>2, <2>3 DEF Where
<1>4. InsertAt(s, k + 1, c) = SubSeq(s, 1, k) \o <<c>> \o SubSeq(s, k + 1, Len(s))
  <2>1. (k + 1) - 1 = k
    BY <1>3
  <2>2. QED BY <2>1 DEF InsertAt
<1>5. QED BY <1>2, <1>3, <1>4

-----------------------------------------------------------------------------
(* Whose the arrays and the maps are.                                      *)

\* No map and no handle has the array yet; no block and no handle has the map.
Unused(n) == /\ \A m \in Name : object[m].kids # n
             /\ \A u \in Task : task[u].kids # n
             /\ list[n] = <<>>
Unmade(n) == object[n] = NewObject /\ \A u \in Task : task[u].child # n

\* An array is in one map, and a handle on it has that map; what a handle has for
\* a child is that child's; and the names still to be used are nobody else's.
Arrays ==
  /\ list \in [Name -> Seq(Block)]
  /\ \A m, k \in Name : object[m].kids = object[k].kids /\ m # k => object[m].kids = None
  /\ \A t \in Task :
       /\ \A m \in Name : object[m].kids = task[t].kids /\ m # task[t].map => task[t].kids = None
       /\ task[t].pc \in {"make", "get"} => task[t].kids = None
       /\ \A b \in Block : blocks[b] = task[t].child /\ blocks[b] # None =>
            task[t].op.kind \in {"insert", "take"} /\ b = task[t].op.child
       /\ task[t].pc \in {"make", "get", "flavour", "children"} => Unused(task[t].name)
       /\ task[t].pc = "make" => Unmade(task[t].name)
       /\ task[t].at \in Nat
       /\ task[t].pc \in {"again", "place", "put"} => task[t].op.kind = "insert"
  /\ \A n \in Name : n \notin Old => Unused(n) /\ Unmade(n)

\* What a step of t may change: its own task, its block's entry, the maps and the
\* array that it has handles on, as far as they are part of the document.
Writes(t) ==
  /\ Active(t)
  /\ \A u \in Task : u # t => task'[u] = task[u]
  /\ \/ task'[t] = Idle
     \/ /\ task'[t].op = task[t].op /\ task'[t].name = task[t].name
        /\ task'[t].kids = task[t].kids /\ task'[t].child = task[t].child
        /\ task'[t].pc \notin {"idle", "make"} /\ (task'[t].pc = "get" => task[t].pc = "make")
        /\ task'[t].pc \in {"flavour", "children"} => task[t].pc \in {"get", "flavour"}
        /\ task'[t].map = task[t].map \/ task[t].pc = "get"
        /\ task'[t].at \in Nat
        /\ task'[t].pc \in {"again", "place", "put"} => task[t].op.kind = "insert"
  /\ \A b \in Block : b # task[t].op.block => blocks'[b] = blocks[b]
  /\ \/ blocks'[task[t].op.block] \in {blocks[task[t].op.block], None}
     \/ task[t].pc = "make" /\ blocks'[task[t].op.block] = task[t].name
  /\ \A n \in Name :
       object'[n] # object[n] =>
         /\ LiveMap(n)
         /\ n = task[t].map \/ (task[t].op.kind \in {"insert", "take"} /\ n = task[t].child)
         /\ object'[n].kids # object[n].kids =>
              task[t].pc = "children" /\ n = task[t].map /\ object'[n].kids = task[t].name
  /\ list' \in [Name -> Seq(Block)]
  /\ \A n \in Name : list'[n] # list[n] => n = task[t].kids /\ LiveList(n)
  /\ UNCHANGED <<started, mixed, want>>

LEMMA WritesArrays ==
  ASSUME BlocksInv, BlocksInv', Arrays, NEW t \in Task, Writes(t)
  PROVE  Arrays'
PROOF
<1> USE DEF Active
<1>1. Shape /\ Kinds /\ Named /\ Owned /\ Shape' /\ Named'
  BY DEF BlocksInv
<1>2. /\ task[t].pc # "idle" /\ task[t].name \in 1..MaxOps /\ task[t].name \in 1..started
      /\ task[t].name \in Name /\ task[t].name # None /\ None \notin Name /\ task[t].op.block \in Block
      /\ blocks \in [Block -> Name \cup {None}] /\ Old' = Old
      /\ object \in [Name -> Object] /\ object' \in [Name -> Object]
  BY <1>1, Own, Names DEF Writes, Named, Shape, Old
<1>3. Idle.kids = None /\ Idle.child = None /\ Idle.map = None /\ Idle.pc = "idle"
  BY DEF Idle
<1>4. /\ \A u \in Task : task'[u].kids \in {task[u].kids, None}
      /\ \A u \in Task : task'[u].child \in {task[u].child, None}
  BY <1>3 DEF Writes
<1>5. \A n \in Name : object'[n].kids # object[n].kids =>
        task[t].pc = "children" /\ n = task[t].map /\ object'[n].kids = task[t].name
  BY DEF Writes
\* A name that is not used, and not t's, stays so.
<1>6. ASSUME NEW n \in Name, Unused(n), n # task[t].name \/ task[t].pc # "children"
      PROVE  Unused(n)'
  <2>1. \A m \in Name : object'[m].kids # n
    BY <1>5, <1>6 DEF Unused
  <2>2. \A u \in Task : task'[u].kids # n
    BY <1>2, <1>4, <1>6 DEF Unused
  <2>3. list'[n] = list[n]
    BY <1>6 DEF Unused, Writes
  <2>4. QED BY <2>1, <2>2, <2>3, <1>6 DEF Unused
<1>7. ASSUME NEW n \in Name, Unmade(n), \A b \in Block : blocks[b] # n
      PROVE  Unmade(n)'
  <2>1. object'[n] = object[n]
    BY <1>7 DEF Writes, LiveMap
  <2>2. \A u \in Task : task'[u].child # n
    BY <1>2, <1>4, <1>7 DEF Unmade
  <2>3. QED BY <2>1, <2>2, <1>7 DEF Unmade
<1>8. \A n \in Name : n \notin Old' => Unused(n)' /\ Unmade(n)'
  <2> SUFFICES ASSUME NEW n \in Name, n \notin Old PROVE Unused(n)' /\ Unmade(n)'
    BY <1>2
  <2>1. Unused(n) /\ Unmade(n) /\ n # task[t].name /\ \A b \in Block : blocks[b] # n
    BY <1>1, <1>2 DEF Arrays, Old, Named
  <2>2. QED BY <2>1, <1>6, <1>7
<1>9. \A m, k \in Name : object'[m].kids = object'[k].kids /\ m # k => object'[m].kids = None
  <2>1. task[t].pc = "children" => \A m \in Name : object[m].kids # task[t].name
    BY DEF Arrays, Unused
  <2>2. \A m, k \in Name : object[m].kids = object[k].kids /\ m # k => object[m].kids = None
    BY DEF Arrays
  <2>3. QED BY <2>1, <2>2, <1>5
<1>10. ASSUME NEW u \in Task
       PROVE  \A m \in Name : object'[m].kids = task'[u].kids /\ m # task'[u].map => task'[u].kids = None
  <2> SUFFICES ASSUME NEW m \in Name, object'[m].kids = task'[u].kids, task'[u].kids # None
               PROVE  m = task'[u].map
    OBVIOUS
  <2>1. task'[u].kids = task[u].kids /\ task'[u].map = task[u].map
    <3>1. CASE u # t
      BY <3>1 DEF Writes
    <3>2. CASE u = t
      BY <3>2, <1>3 DEF Writes, Arrays
    <3>3. QED BY <3>1, <3>2
  <2>2. object'[m].kids = object[m].kids
    <3>1. task[t].pc = "children" => task[u].kids # task[t].name
      BY DEF Arrays, Unused
    <3>2. QED BY <3>1, <2>1, <1>5
  <2>3. QED BY <2>1, <2>2 DEF Arrays
<1>11. ASSUME NEW u \in Task
       PROVE  task'[u].pc \in {"make", "get"} => task'[u].kids = None
  <2>1. CASE u # t
    BY <2>1 DEF Writes, Arrays
  <2>2. CASE u = t
    BY <2>2, <1>3 DEF Writes, Arrays
  <2>3. QED BY <2>1, <2>2
<1>12. ASSUME NEW u \in Task, NEW b \in Block, blocks'[b] = task'[u].child, blocks'[b] # None
       PROVE  task'[u].op.kind \in {"insert", "take"} /\ b = task'[u].op.child
  <2>1. task'[u].child = task[u].child /\ task'[u].op = task[u].op
    BY <1>3, <1>4, <1>12 DEF Writes
  <2>2. blocks'[b] = blocks[b]
    <3>1. task[t].pc = "make" => task[u].child # task[t].name
      BY DEF Arrays, Unmade
    <3>2. QED BY <3>1, <2>1, <1>2, <1>12 DEF Writes
  <2>3. QED BY <2>1, <2>2, <1>12 DEF Arrays
<1>13. ASSUME NEW u \in Task, task'[u].pc \in {"make", "get", "flavour", "children"}
       PROVE  \A n \in Name : n = task'[u].name => Unused(n)'
  <2>1. /\ task[u].pc \in {"make", "get", "flavour", "children"} /\ task'[u].name = task[u].name
        /\ u = t => task[u].pc # "children"
    BY <1>3, <1>13 DEF Writes
  <2>2. u # t => task[u].name # task[t].name
    BY <1>1, <1>2, <2>1 DEF Named
  <2>3. task[u].name \in Name
    BY <2>1, Own, Names
  <2>4. Unused(task[u].name)
    BY <2>1 DEF Arrays
  <2>5. \A n \in Name : n = task'[u].name => Unused(n)'
    <3>1. PICK n \in Name : n = task[u].name
      BY <2>3
    <3>2. Unused(n)'
      BY <3>1, <2>1, <2>2, <2>4, <1>6
    <3>3. QED BY <3>1, <3>2, <2>1
  <2>6. QED BY <2>5
<1>14. ASSUME NEW u \in Task, task'[u].pc = "make"
       PROVE  \A n \in Name : n = task'[u].name => Unmade(n)'
  <2>1. u # t /\ task'[u] = task[u]
    BY <1>3, <1>14 DEF Writes
  <2>2. PICK n : n = task[u].name
    OBVIOUS
  <2>3. n \in Name /\ Unmade(n) /\ \A b \in Block : blocks[b] # n
    BY <2>1, <2>2, <1>1, <1>14, Own, Names DEF Arrays, Named
  <2>4. Unmade(n)'
    BY <2>3, <1>7
  <2>5. QED BY <2>1, <2>2, <2>4
<1>15. list' \in [Name -> Seq(Block)]
  BY DEF Writes
<1>16. ASSUME NEW u \in Task PROVE task'[u].pc # "idle" => task'[u].name \in Name
  <2>1. Kinds' /\ started' \in 0..MaxOps
    BY <1>1 DEF BlocksInv, Shape
  <2>2. QED BY <2>1, <1>1, Names DEF Named
<1>17. \A u \in Task : /\ task'[u].pc \in {"make", "get", "flavour", "children"} => Unused(task[u].name)'
                       /\ task'[u].pc = "make" => Unmade(task[u].name)'
  BY <1>13, <1>14, <1>16 DEF Unused, Unmade
<1>18. \A u \in Task : /\ task'[u].at \in Nat
                       /\ task'[u].pc \in {"again", "place", "put"} => task'[u].op.kind = "insert"
  <2>1. Idle.at = 0 /\ Idle.pc = "idle"
    BY DEF Idle
  <2>2. QED BY <2>1 DEF Writes, Arrays
<1>19. QED BY <1>8, <1>9, <1>10, <1>11, <1>12, <1>15, <1>17, <1>18 DEF Arrays

\* What an array reads as is a list of blocks.
LEMMA KidsAre ==
  ASSUME BlocksInv, Arrays, NEW a
  PROVE  Kids(a) \in Seq(Block) /\ (LiveList(a) => a \in Name)
PROOF
<1>1. LiveList(a) => a \in Name
  BY DEF LiveList, BlocksInv, Shape, Object
<1>2. QED BY <1>1 DEF Kids, Arrays

\* A step leaves the blocks alone that its operation does not touch.
Stays(b) == /\ blocks'[b] = blocks[b]
            /\ blocks[b] # None =>
                 /\ object'[blocks[b]] = object[blocks[b]]
                 /\ object[blocks[b]].kids # None =>
                      list'[object[blocks[b]].kids] = list[object[blocks[b]].kids]

LEMMA WritesOwn ==
  ASSUME BlocksInv, Arrays, NEW t \in Task, Writes(t), NEW b \in Block, b \notin Touched(task[t].op)
  PROVE  Stays(b)
PROOF
<1>1. Shape /\ Kinds /\ Owned
  BY DEF BlocksInv
<1>2. Active(t) /\ task[t].op \in Op
  BY <1>1 DEF Writes, Kinds
<1>3. /\ b # task[t].op.block
      /\ task[t].op.kind \in {"insert", "take"} => b # task[t].op.child
  BY <1>2 DEF Touched
<1>4. blocks'[b] = blocks[b] /\ blocks[b] \in Name \cup {None}
  BY <1>1, <1>3 DEF Writes, Shape
<1>5. ASSUME blocks[b] # None PROVE object'[blocks[b]] = object[blocks[b]]
  <2>1. blocks[b] # task[t].map
    BY <1>1, <1>2, <1>3, <1>5 DEF Owned
  <2>2. task[t].op.kind \in {"insert", "take"} => blocks[b] # task[t].child
    BY <1>3, <1>5 DEF Arrays
  <2>3. QED BY <2>1, <2>2, <1>4, <1>5 DEF Writes
<1>6. ASSUME blocks[b] # None, object[blocks[b]].kids # None
      PROVE  list'[object[blocks[b]].kids] = list[object[blocks[b]].kids]
  <2>1. blocks[b] # task[t].map
    BY <1>1, <1>2, <1>3, <1>6 DEF Owned
  <2>2. object[blocks[b]].kids \in Name
    BY <1>1, <1>4, <1>6 DEF Shape, Object
  <2>3. object[blocks[b]].kids # task[t].kids
    BY <2>1, <1>4, <1>6 DEF Arrays
  <2>4. QED BY <2>2, <2>3 DEF Writes
<1>7. QED BY <1>4, <1>5, <1>6 DEF Stays

-----------------------------------------------------------------------------
(* What the steps write.                                                   *)

\* A task goes on with a position, or with the map it read back.
LEMMA GoingAt ==
  ASSUME Shape, NEW t \in Task, NEW i, NEW pc, task' = [task EXCEPT ![t].at = i, ![t].pc = pc]
  PROVE  /\ \A u \in Task : u # t => task'[u] = task[u]
         /\ task'[t].pc = pc /\ task'[t].op = task[t].op /\ task'[t].map = task[t].map
         /\ task'[t].name = task[t].name /\ task'[t].kids = task[t].kids
         /\ task'[t].child = task[t].child /\ task'[t].at = i
PROOF
<1>1. task = [u \in Task |-> task[u]] /\ Shaped(task[t])
  BY DEF Shape
<1>2. PICK x : x = task[t]
  OBVIOUS
<1>3. PICK r : r = [x EXCEPT !.at = i, !.pc = pc]
  OBVIOUS
<1>4. r = [op |-> x.op, pc |-> pc, map |-> x.map, kids |-> x.kids, child |-> x.child,
           name |-> x.name, at |-> i]
  BY <1>1, <1>2, <1>3 DEF Shaped
<1>5. task' = [u \in Task |-> IF u = t THEN r ELSE task[u]]
  BY <1>1, <1>2, <1>3
<1>6. task'[t] = r /\ \A u \in Task : u # t => task'[u] = task[u]
  BY <1>5
<1>7. /\ r.pc = pc /\ r.op = x.op /\ r.map = x.map /\ r.name = x.name /\ r.kids = x.kids
      /\ r.child = x.child /\ r.at = i
  BY <1>4
<1>8. QED BY <1>2, <1>6, <1>7

LEMMA GoingMap ==
  ASSUME Shape, NEW t \in Task, NEW m, NEW pc, task' = [task EXCEPT ![t].pc = pc, ![t].map = m]
  PROVE  /\ \A u \in Task : u # t => task'[u] = task[u]
         /\ task'[t].pc = pc /\ task'[t].op = task[t].op /\ task'[t].map = m
         /\ task'[t].name = task[t].name /\ task'[t].kids = task[t].kids
         /\ task'[t].child = task[t].child /\ task'[t].at = task[t].at
PROOF
<1>1. task = [u \in Task |-> task[u]] /\ Shaped(task[t])
  BY DEF Shape
<1>2. PICK x : x = task[t]
  OBVIOUS
<1>3. PICK r : r = [x EXCEPT !.pc = pc, !.map = m]
  OBVIOUS
<1>4. r = [op |-> x.op, pc |-> pc, map |-> m, kids |-> x.kids, child |-> x.child,
           name |-> x.name, at |-> x.at]
  BY <1>1, <1>2, <1>3 DEF Shaped
<1>5. task' = [u \in Task |-> IF u = t THEN r ELSE task[u]]
  BY <1>1, <1>2, <1>3
<1>6. task'[t] = r /\ \A u \in Task : u # t => task'[u] = task[u]
  BY <1>5
<1>7. /\ r.pc = pc /\ r.op = x.op /\ r.map = m /\ r.name = x.name /\ r.kids = x.kids
      /\ r.child = x.child /\ r.at = x.at
  BY <1>4
<1>8. QED BY <1>2, <1>6, <1>7

\* What a write leaves.
LEMMA WroteElse ==
  ASSUME object \in [Name -> Object], NEW m, NEW v,
         NEW key \in {"flavour", "parent", "kids", "content"}, NEW n \in Name,
         Write(m, key, v)[n] # object[n]
  PROVE  n = m /\ LiveMap(n)
PROOF
<1>1. LiveMap(m)
  BY DEF Write
<1>2. Write(m, key, v) = [object EXCEPT ![m] = [object[m] EXCEPT ![key] = v]]
  BY <1>1 DEF Write
<1>3. n = m
  BY <1>2
<1>4. QED BY <1>1, <1>3

\* What a write makes of a map that is part of the document.
Wrote(m, x, v) ==
  /\ Write(m, "flavour", v)[m] = [flavour |-> v, parent |-> x.parent, kids |-> x.kids,
                                   content |-> x.content]
  /\ Write(m, "parent", v)[m] = [flavour |-> x.flavour, parent |-> v, kids |-> x.kids,
                                  content |-> x.content]
  /\ Write(m, "kids", v)[m] = [flavour |-> x.flavour, parent |-> x.parent, kids |-> v,
                                content |-> x.content]
  /\ Write(m, "content", v)[m] = [flavour |-> x.flavour, parent |-> x.parent, kids |-> x.kids,
                                   content |-> v]

LEMMA WroteThere ==
  ASSUME object \in [Name -> Object], NEW m \in Name, LiveMap(m), NEW v, NEW x, x = object[m]
  PROVE  Wrote(m, x, v)
PROOF
<1>1. x \in Object
  OBVIOUS
<1>2. x = [flavour |-> x.flavour, parent |-> x.parent, kids |-> x.kids, content |-> x.content]
  BY <1>1 DEF Object
<1>3. Write(m, "flavour", v)[m] = [flavour |-> v, parent |-> x.parent, kids |-> x.kids, content |-> x.content]
  <2>1. Write(m, "flavour", v) = [object EXCEPT ![m] = [x EXCEPT !.flavour = v]]
    BY DEF Write
  <2>2. PICK y : y = [x EXCEPT !.flavour = v]
    OBVIOUS
  <2>3. y = [flavour |-> v, parent |-> x.parent, kids |-> x.kids, content |-> x.content]
    BY <1>2, <2>2
  <2>4. Write(m, "flavour", v)[m] = y
    BY <2>1, <2>2
  <2>5. QED BY <2>3, <2>4
<1>4. Write(m, "parent", v)[m] = [flavour |-> x.flavour, parent |-> v, kids |-> x.kids, content |-> x.content]
  <2>1. Write(m, "parent", v) = [object EXCEPT ![m] = [x EXCEPT !.parent = v]]
    BY DEF Write
  <2>2. PICK y : y = [x EXCEPT !.parent = v]
    OBVIOUS
  <2>3. y = [flavour |-> x.flavour, parent |-> v, kids |-> x.kids, content |-> x.content]
    BY <1>2, <2>2
  <2>4. Write(m, "parent", v)[m] = y
    BY <2>1, <2>2
  <2>5. QED BY <2>3, <2>4
<1>5. Write(m, "kids", v)[m] = [flavour |-> x.flavour, parent |-> x.parent, kids |-> v, content |-> x.content]
  <2>1. Write(m, "kids", v) = [object EXCEPT ![m] = [x EXCEPT !.kids = v]]
    BY DEF Write
  <2>2. PICK y : y = [x EXCEPT !.kids = v]
    OBVIOUS
  <2>3. y = [flavour |-> x.flavour, parent |-> x.parent, kids |-> v, content |-> x.content]
    BY <1>2, <2>2
  <2>4. Write(m, "kids", v)[m] = y
    BY <2>1, <2>2
  <2>5. QED BY <2>3, <2>4
<1>6. Write(m, "content", v)[m] = [flavour |-> x.flavour, parent |-> x.parent, kids |-> x.kids, content |-> v]
  <2>1. Write(m, "content", v) = [object EXCEPT ![m] = [x EXCEPT !.content = v]]
    BY DEF Write
  <2>2. PICK y : y = [x EXCEPT !.content = v]
    OBVIOUS
  <2>3. y = [flavour |-> x.flavour, parent |-> x.parent, kids |-> x.kids, content |-> v]
    BY <1>2, <2>2
  <2>4. Write(m, "content", v)[m] = y
    BY <2>1, <2>2
  <2>5. QED BY <2>3, <2>4
<1>7. QED BY <1>3, <1>4, <1>5, <1>6 DEF Wrote

\* A step of a task that goes on or ends, and leaves the document alone.
LEMMA WritesNothing ==
  ASSUME BlocksInv, Arrays, NEW t \in Task, Active(t),
         UNCHANGED <<blocks, object, list, started, want, mixed>>,
         \A u \in Task : u # t => task'[u] = task[u],
         \/ task'[t] = Idle
         \/ /\ task'[t].op = task[t].op /\ task'[t].name = task[t].name
            /\ task'[t].kids = task[t].kids /\ task'[t].child = task[t].child
            /\ task'[t].pc \notin {"idle", "make", "get", "children"}
            /\ task'[t].pc = "flavour" => task[t].pc = "get"
            /\ task'[t].map = task[t].map \/ task[t].pc = "get"
            /\ task'[t].at \in Nat
            /\ task'[t].pc \in {"again", "place", "put"} => task[t].op.kind = "insert"
  PROVE  Writes(t)
PROOF
<1>1. list' \in [Name -> Seq(Block)]
  BY DEF Arrays
<1>2. /\ \A b \in Block : blocks'[b] = blocks[b]
      /\ blocks'[task[t].op.block] = blocks[task[t].op.block]
      /\ \A n \in Name : object'[n] = object[n] /\ list'[n] = list[n]
  OBVIOUS
<1>3. QED BY <1>1, <1>2 DEF Writes

\* A step that writes a key of the task's map.
LEMMA WritesMap ==
  ASSUME BlocksInv, Arrays, NEW t \in Task, Active(t), UNCHANGED <<blocks, list, started, want, mixed>>,
         NEW pc, Go(t, pc),
         pc \notin {"idle", "make", "get", "flavour", "again", "place", "put"},
         pc = "children" => task[t].pc = "flavour",
         NEW key \in {"flavour", "kids", "content"}, NEW v, object' = Write(task[t].map, key, v),
         key = "kids" => task[t].pc = "children" /\ v = task[t].name
  PROVE  Writes(t)
PROOF
<1>1. Shape /\ object \in [Name -> Object] /\ list' \in [Name -> Seq(Block)]
  BY DEF BlocksInv, Shape, Arrays
<1>2. /\ \A u \in Task : u # t => task'[u] = task[u]
      /\ task'[t].pc = pc /\ task'[t].op = task[t].op /\ task'[t].map = task[t].map
      /\ task'[t].name = task[t].name /\ task'[t].kids = task[t].kids
      /\ task'[t].child = task[t].child /\ task'[t].at \in Nat
  BY <1>1, Going DEF Arrays
<1>3. ASSUME NEW n \in Name, object'[n] # object[n]
      PROVE  /\ LiveMap(n) /\ n = task[t].map
             /\ object'[n].kids # object[n].kids =>
                  task[t].pc = "children" /\ object'[n].kids = task[t].name
  <2>1. n = task[t].map /\ LiveMap(n)
    BY <1>1, <1>3, WroteElse
  <2>2. CASE key = "kids"
    <3>1. object'[n] = [flavour |-> object[n].flavour, parent |-> object[n].parent, kids |-> v,
                        content |-> object[n].content]
      <4>1. PICK x : x = object[n]
        OBVIOUS
      <4>2. object' = Write(n, "kids", v)
        BY <2>1, <2>2
      <4>3. Write(n, "kids", v)[n] = [flavour |-> x.flavour, parent |-> x.parent, kids |-> v, content |-> x.content]
        <5>1. Wrote(n, x, v)
          BY <1>1, <2>1, <4>1, WroteThere
        <5>2. QED BY <5>1 DEF Wrote
      <4>4. QED BY <4>1, <4>2, <4>3, Zenon
    <3>2. object'[n].kids = v
      BY <3>1
    <3>3. QED BY <2>1, <2>2, <3>2
  <2>3. CASE key = "flavour"
    <3>1. object'[n] = [flavour |-> v, parent |-> object[n].parent, kids |-> object[n].kids,
                        content |-> object[n].content]
      <4>1. PICK x : x = object[n]
        OBVIOUS
      <4>2. object' = Write(n, "flavour", v)
        BY <2>1, <2>3
      <4>3. Write(n, "flavour", v)[n] = [flavour |-> v, parent |-> x.parent, kids |-> x.kids, content |-> x.content]
        <5>1. Wrote(n, x, v)
          BY <1>1, <2>1, <4>1, WroteThere
        <5>2. QED BY <5>1 DEF Wrote
      <4>4. QED BY <4>1, <4>2, <4>3, Zenon
    <3>2. QED BY <2>1, <3>1
  <2>4. CASE key = "content"
    <3>1. object'[n] = [flavour |-> object[n].flavour, parent |-> object[n].parent,
                        kids |-> object[n].kids, content |-> v]
      <4>1. PICK x : x = object[n]
        OBVIOUS
      <4>2. object' = Write(n, "content", v)
        BY <2>1, <2>4
      <4>3. Write(n, "content", v)[n] = [flavour |-> x.flavour, parent |-> x.parent, kids |-> x.kids, content |-> v]
        <5>1. Wrote(n, x, v)
          BY <1>1, <2>1, <4>1, WroteThere
        <5>2. QED BY <5>1 DEF Wrote
      <4>4. QED BY <4>1, <4>2, <4>3, Zenon
    <3>2. QED BY <2>1, <3>1
  <2>5. QED BY <2>2, <2>3, <2>4
<1>4. /\ \A b \in Block : blocks'[b] = blocks[b]
      /\ blocks'[task[t].op.block] = blocks[task[t].op.block]
      /\ \A n \in Name : list'[n] = list[n]
  OBVIOUS
<1>5. QED BY <1>1, <1>2, <1>3, <1>4 DEF Writes

LEMMA OpWhere ==
  ASSUME NEW o \in Op, o.kind = "insert" PROVE o.where \in Where
PROOF BY DEF Op

LEMMA CutOut ==
  ASSUME NEW s \in Seq(Block), NEW i \in Nat, i < Len(s)
  PROVE  RemoveAt(s, i + 1) \in Seq(Block)
PROOF
<1>1. PICK a : a = SubSeq(s, 1, i + 1 - 1)
  OBVIOUS
<1>2. PICK b : b = SubSeq(s, i + 1 + 1, Len(s))
  OBVIOUS
<1>3. a \in Seq(Block) /\ b \in Seq(Block)
  BY <1>1, <1>2
<1>4. a \o b \in Seq(Block)
  BY <1>3
<1>5. QED BY <1>1, <1>2, <1>4 DEF RemoveAt

LEMMA PutIn ==
  ASSUME NEW s \in Seq(Block), NEW i \in Nat, i <= Len(s), NEW c \in Block
  PROVE  InsertAt(s, i + 1, c) \in Seq(Block)
PROOF
<1>1. PICK a : a = SubSeq(s, 1, i + 1 - 1)
  OBVIOUS
<1>2. PICK b : b = SubSeq(s, i + 1, Len(s))
  OBVIOUS
<1>3. a \in Seq(Block) /\ b \in Seq(Block) /\ <<c>> \in Seq(Block)
  BY <1>1, <1>2
<1>4. (a \o <<c>>) \o b \in Seq(Block)
  BY <1>3
<1>5. QED BY <1>1, <1>2, <1>4 DEF InsertAt

\* What each step writes.
LEMMA StepWrites ==
  ASSUME BlocksInv, Arrays, NEW t \in Task, Step(t)
  PROVE  Writes(t)
PROOF
<1>0. Shape /\ blocks \in [Block -> Name \cup {None}] /\ object \in [Name -> Object]
      /\ list \in [Name -> Seq(Block)]
  BY DEF BlocksInv, Shape, Arrays
<1>a. task[t].at \in Nat
  BY DEF Arrays
<1>1. CASE CreateFlavour(t)
  <2>1. /\ task[t].pc = "flavour" /\ Go(t, "children") /\ object' = Write(task[t].map, "flavour", task[t].op.flavour)
        /\ UNCHANGED <<blocks, list, started, want, mixed>>
    BY <1>1 DEF CreateFlavour
  <2>2. Active(t)
    BY <2>1 DEF Active
  <2>3. QED BY <2>1, <2>2, WritesMap
<1>2. CASE CreateChildren(t)
  <2>1. /\ task[t].pc = "children" /\ Go(t, "handle") /\ object' = Write(task[t].map, "kids", task[t].name)
        /\ UNCHANGED <<blocks, list, started, want, mixed>>
    BY <1>2 DEF CreateChildren
  <2>2. Active(t)
    BY <2>1 DEF Active
  <2>3. QED BY <2>1, <2>2, WritesMap
<1>3. CASE SetContent(t)
  <2>1. /\ task[t].pc = "content" /\ Go(t, "log") /\ object' = Write(task[t].map, "content", task[t].name)
        /\ UNCHANGED <<blocks, list, started, want, mixed>>
    BY <1>3 DEF SetContent
  <2>2. Active(t)
    BY <2>1 DEF Active
  <2>3. QED BY <2>1, <2>2, WritesMap
<1>4. CASE CreateHandle(t)
  <2>1. /\ task[t].pc = "handle" /\ UNCHANGED <<blocks, object, list, started, want, mixed>>
        /\ End(t) \/ Go(t, "newlog")
    BY <1>4 DEF CreateHandle
  <2>2. Active(t)
    BY <2>1 DEF Active
  <2>3. CASE End(t)
    <3>1. /\ \A u \in Task : u # t => task'[u] = task[u]
          /\ task'[t] = Idle
      BY <1>0, <2>3, Ending
    <3>2. QED BY <2>1, <2>2, <3>1, WritesNothing
  <2>4. CASE Go(t, "newlog")
    <3>1. /\ \A u \in Task : u # t => task'[u] = task[u]
          /\ task'[t].pc = "newlog" /\ task'[t].op = task[t].op /\ task'[t].map = task[t].map
          /\ task'[t].name = task[t].name /\ task'[t].kids = task[t].kids
          /\ task'[t].child = task[t].child /\ task'[t].at \in Nat
      BY <1>0, <2>4, <1>a, Going
    <3>2. QED BY <2>1, <2>2, <3>1, WritesNothing
  <2>5. QED BY <2>1, <2>3, <2>4
<1>5. CASE Log(t)
  <2>1. /\ task[t].pc \in {"newlog", "log"} /\ UNCHANGED <<blocks, object, list, started, want, mixed>>
        /\ End(t) \/ Go(t, "content")
    BY <1>5 DEF Log
  <2>2. Active(t)
    BY <2>1 DEF Active
  <2>3. CASE End(t)
    <3>1. /\ \A u \in Task : u # t => task'[u] = task[u]
          /\ task'[t] = Idle
      BY <1>0, <2>3, Ending
    <3>2. QED BY <2>1, <2>2, <3>1, WritesNothing
  <2>4. CASE Go(t, "content")
    <3>1. /\ \A u \in Task : u # t => task'[u] = task[u]
          /\ task'[t].pc = "content" /\ task'[t].op = task[t].op /\ task'[t].map = task[t].map
          /\ task'[t].name = task[t].name /\ task'[t].kids = task[t].kids
          /\ task'[t].child = task[t].child /\ task'[t].at \in Nat
      BY <1>0, <2>4, <1>a, Going
    <3>2. QED BY <2>1, <2>2, <3>1, WritesNothing
  <2>5. QED BY <2>1, <2>3, <2>4
<1>6. CASE Unlog(t)
  <2>1. /\ task[t].pc = "unlog" /\ UNCHANGED <<blocks, object, list, started, want, mixed>>
        /\ End(t)
    BY <1>6 DEF Unlog
  <2>2. Active(t)
    BY <2>1 DEF Active
  <2>3. CASE End(t)
    <3>1. /\ \A u \in Task : u # t => task'[u] = task[u]
          /\ task'[t] = Idle
      BY <1>0, <2>3, Ending
    <3>2. QED BY <2>1, <2>2, <3>1, WritesNothing
  <2>4. QED BY <2>1, <2>3
<1>7. CASE CutLog(t)
  <2>1. /\ task[t].pc = "cutlog" /\ UNCHANGED <<blocks, object, list, started, want, mixed>>
        /\ End(t) \/ (Go(t, "again") /\ task[t].op.kind # "take")
    BY <1>7 DEF CutLog
  <2>2. Active(t)
    BY <2>1 DEF Active
  <2>3. CASE End(t)
    <3>1. /\ \A u \in Task : u # t => task'[u] = task[u]
          /\ task'[t] = Idle
      BY <1>0, <2>3, Ending
    <3>2. QED BY <2>1, <2>2, <3>1, WritesNothing
  <2>4. CASE (Go(t, "again") /\ task[t].op.kind # "take")
    <3>1. /\ \A u \in Task : u # t => task'[u] = task[u]
          /\ task'[t].pc = "again" /\ task'[t].op = task[t].op /\ task'[t].map = task[t].map
          /\ task'[t].name = task[t].name /\ task'[t].kids = task[t].kids
          /\ task'[t].child = task[t].child /\ task'[t].at \in Nat
      BY <1>0, <2>4, <1>a, Going
    <3>2. task[t].op.kind = "insert"
      BY <2>1, <2>2, <2>4, Own DEF KindOf
    <3>3. QED BY <2>1, <2>2, <3>1, <3>2, WritesNothing
  <2>5. QED BY <2>1, <2>3, <2>4
<1>8. CASE CreateGet(t)
  <2>1. /\ task[t].pc = "get" /\ UNCHANGED <<blocks, object, list, started, want, mixed>>
        /\ \/ End(t)
           \/ task' = [task EXCEPT ![t].pc = "flavour", ![t].map = blocks[task[t].op.block]]
    BY <1>8 DEF CreateGet
  <2>2. Active(t)
    BY <2>1 DEF Active
  <2>3. CASE End(t)
    <3>1. task'[t] = Idle /\ \A u \in Task : u # t => task'[u] = task[u]
      BY <1>0, <2>3, Ending
    <3>2. QED BY <2>1, <2>2, <3>1, WritesNothing
  <2>4. CASE task' = [task EXCEPT ![t].pc = "flavour", ![t].map = blocks[task[t].op.block]]
    <3>1. /\ \A u \in Task : u # t => task'[u] = task[u]
          /\ task'[t].pc = "flavour" /\ task'[t].op = task[t].op
          /\ task'[t].name = task[t].name /\ task'[t].kids = task[t].kids
          /\ task'[t].child = task[t].child /\ task'[t].at \in Nat
      <4>1. PICK m, pc : m = blocks[task[t].op.block] /\ pc = "flavour"
        OBVIOUS
      <4>2. task' = [task EXCEPT ![t].pc = pc, ![t].map = m]
        BY <2>4, <4>1
      <4>3. /\ \A u \in Task : u # t => task'[u] = task[u]
            /\ task'[t].pc = pc /\ task'[t].op = task[t].op /\ task'[t].map = m
            /\ task'[t].name = task[t].name /\ task'[t].kids = task[t].kids
            /\ task'[t].child = task[t].child /\ task'[t].at = task[t].at
        BY <1>0, <4>2, GoingMap
      <4>4. QED BY <1>a, <4>1, <4>3, Zenon
    <3>2. QED BY <2>1, <2>2, <3>1, WritesNothing
  <2>5. QED BY <2>1, <2>3, <2>4
<1>9. CASE Find(t)
  <2>1. PICK i : i = PositionIn(Kids(task[t].kids), task[t].op.child)
    OBVIOUS
  <2>2. /\ task[t].pc = "find" /\ UNCHANGED <<blocks, object, list, started, want, mixed>>
        /\ \/ i >= 0 /\ task' = [task EXCEPT ![t].at = i, ![t].pc = "cut"]
           \/ End(t) \/ (Go(t, "again") /\ task[t].op.kind # "take")
    BY <1>9, <2>1 DEF Find
  <2>3. Active(t)
    BY <2>2 DEF Active
  <2>a. i \in Nat \/ i = -1
    BY <2>1, KidsAre, PositionIs
  <2>4. CASE i >= 0 /\ task' = [task EXCEPT ![t].at = i, ![t].pc = "cut"]
    <3>1. /\ \A u \in Task : u # t => task'[u] = task[u]
          /\ task'[t].pc = "cut" /\ task'[t].op = task[t].op /\ task'[t].map = task[t].map
          /\ task'[t].name = task[t].name /\ task'[t].kids = task[t].kids
          /\ task'[t].child = task[t].child /\ task'[t].at \in Nat
      <4>1. \A j, pc : task' = [task EXCEPT ![t].at = j, ![t].pc = pc] =>
              /\ \A u \in Task : u # t => task'[u] = task[u]
              /\ task'[t].pc = pc /\ task'[t].op = task[t].op /\ task'[t].map = task[t].map
              /\ task'[t].name = task[t].name /\ task'[t].kids = task[t].kids
              /\ task'[t].child = task[t].child /\ task'[t].at = j
        BY <1>0, GoingAt
      <4>2. i \in Nat
        BY <2>4, <2>a
      <4>3. QED BY <2>4, <4>1, <4>2, Zenon
    <3>2. QED BY <2>2, <2>3, <3>1, WritesNothing
  <2>5. CASE End(t)
    <3>1. task'[t] = Idle /\ \A u \in Task : u # t => task'[u] = task[u]
      BY <1>0, <2>5, Ending
    <3>2. QED BY <2>2, <2>3, <3>1, WritesNothing
  <2>6. CASE Go(t, "again") /\ task[t].op.kind # "take"
    <3>1. /\ \A u \in Task : u # t => task'[u] = task[u]
          /\ task'[t].pc = "again" /\ task'[t].op = task[t].op /\ task'[t].map = task[t].map
          /\ task'[t].name = task[t].name /\ task'[t].kids = task[t].kids
          /\ task'[t].child = task[t].child /\ task'[t].at \in Nat
      BY <1>0, <2>6, <1>a, Going
    <3>2. task[t].op.kind = "insert"
      BY <2>2, <2>3, <2>6, Own DEF KindOf
    <3>3. QED BY <2>2, <2>3, <3>1, <3>2, WritesNothing
  <2>7. QED BY <2>2, <2>4, <2>5, <2>6
<1>10. CASE FindPlace(t)
  <2>1. PICK i : i = Place(Kids(task[t].kids), task[t].op.where)
    OBVIOUS
  <2>2. /\ task[t].pc = "place" /\ UNCHANGED <<blocks, object, list, started, want, mixed>>
        /\ task' = [task EXCEPT ![t].at = i, ![t].pc = "put"]
    BY <1>10, <2>1 DEF FindPlace
  <2>3. Active(t)
    BY <2>2 DEF Active
  <2>b. task[t].op.kind = "insert"
    BY <2>2 DEF Arrays
  <2>4. /\ \A u \in Task : u # t => task'[u] = task[u]
        /\ task'[t].pc = "put" /\ task'[t].op = task[t].op /\ task'[t].map = task[t].map
        /\ task'[t].name = task[t].name /\ task'[t].kids = task[t].kids
        /\ task'[t].child = task[t].child /\ task'[t].at \in Nat
    <3>1. i \in Nat
      <4>1. Kids(task[t].kids) \in Seq(Block)
        BY KidsAre
      <4>2. task[t].op.where \in Where
        BY <2>2, <2>3, <2>b, Own, OpWhere
      <4>3. QED BY <2>1, <4>1, <4>2, PlaceIs
    <3>2. QED
      <4>1. \A j, pc : task' = [task EXCEPT ![t].at = j, ![t].pc = pc] =>
              /\ \A u \in Task : u # t => task'[u] = task[u]
              /\ task'[t].pc = pc /\ task'[t].op = task[t].op /\ task'[t].map = task[t].map
              /\ task'[t].name = task[t].name /\ task'[t].kids = task[t].kids
              /\ task'[t].child = task[t].child /\ task'[t].at = j
        BY <1>0, GoingAt
      <4>2. task' = [task EXCEPT ![t].at = i, ![t].pc = "put"]
        BY <2>2
      <4>3. /\ \A u \in Task : u # t => task'[u] = task[u]
            /\ task'[t].pc = "put" /\ task'[t].op = task[t].op /\ task'[t].map = task[t].map
            /\ task'[t].name = task[t].name /\ task'[t].kids = task[t].kids
            /\ task'[t].child = task[t].child /\ task'[t].at = i
        BY <4>1, <4>2
      <4>4. QED BY <3>1, <4>3
  <2>5. QED BY <2>2, <2>3, <2>4, <2>b, WritesNothing
<1>11. CASE CreateMap(t)
  <2>1. /\ task[t].pc = "make" /\ blocks' = [blocks EXCEPT ![task[t].op.block] = task[t].name]
        /\ Go(t, "get") /\ UNCHANGED <<object, list, started, want, mixed>>
    BY <1>11 DEF CreateMap
  <2>2. /\ \A u \in Task : u # t => task'[u] = task[u]
        /\ task'[t].pc = "get" /\ task'[t].op = task[t].op /\ task'[t].map = task[t].map
        /\ task'[t].name = task[t].name /\ task'[t].kids = task[t].kids
        /\ task'[t].child = task[t].child /\ task'[t].at \in Nat
    BY <1>0, <2>1, <1>a, Going
  <2>3. Active(t)
    BY <2>1 DEF Active
  <2>4. task[t].op.block \in Block
    BY <2>3, Own
  <2>5. /\ \A b \in Block : b # task[t].op.block => blocks'[b] = blocks[b]
        /\ blocks'[task[t].op.block] = task[t].name
        /\ list' \in [Name -> Seq(Block)]
        /\ \A n \in Name : object'[n] = object[n] /\ list'[n] = list[n]
    BY <1>0, <2>1, <2>4
  <2>6. QED BY <2>1, <2>2, <2>3, <2>5 DEF Writes
<1>12. CASE Drop(t)
  <2>1. /\ task[t].pc = "drop" /\ blocks' = [blocks EXCEPT ![task[t].op.block] = None]
        /\ Go(t, "unlog") /\ UNCHANGED <<object, list, started, want, mixed>>
    BY <1>12 DEF Drop
  <2>2. /\ \A u \in Task : u # t => task'[u] = task[u]
        /\ task'[t].pc = "unlog" /\ task'[t].op = task[t].op /\ task'[t].map = task[t].map
        /\ task'[t].name = task[t].name /\ task'[t].kids = task[t].kids
        /\ task'[t].child = task[t].child /\ task'[t].at \in Nat
    BY <1>0, <2>1, <1>a, Going
  <2>3. Active(t)
    BY <2>1 DEF Active
  <2>4. task[t].op.block \in Block
    BY <2>3, Own
  <2>5. /\ \A b \in Block : b # task[t].op.block => blocks'[b] = blocks[b]
        /\ blocks'[task[t].op.block] = None
        /\ list' \in [Name -> Seq(Block)]
        /\ \A n \in Name : object'[n] = object[n] /\ list'[n] = list[n]
    BY <1>0, <2>1, <2>4
  <2>6. QED BY <2>1, <2>2, <2>3, <2>5 DEF Writes
<1>13. CASE Adopt(t)
  <2>1. PICK pc : pc = IF task[t].pc = "adopt" THEN "find" ELSE "place"
    OBVIOUS
  <2>2. /\ task[t].pc \in {"adopt", "again"} /\ pc \in {"find", "place"} /\ Go(t, pc)
        /\ object' = Write(task[t].child, "parent", task[t].op.block)
        /\ UNCHANGED <<blocks, list, started, want, mixed>>
    BY <1>13, <2>1 DEF Adopt
  <2>3. Active(t)
    BY <2>2 DEF Active
  <2>4. /\ \A u \in Task : u # t => task'[u] = task[u]
        /\ task'[t].pc = pc /\ task'[t].op = task[t].op /\ task'[t].map = task[t].map
        /\ task'[t].name = task[t].name /\ task'[t].kids = task[t].kids
        /\ task'[t].child = task[t].child /\ task'[t].at \in Nat
    BY <1>0, <2>2, <1>a, Going
  <2>5. task[t].op.kind \in {"insert", "take"} /\ task[t].op.block \in Block
    BY <2>2, <2>3, Own DEF KindOf
  <2>6. \A n \in Name : object'[n].kids = object[n].kids
    BY <1>0, <2>2, <2>5, Writing
  <2>7. \A n \in Name : object'[n] # object[n] => LiveMap(n) /\ n = task[t].child
    BY <1>0, <2>2, WroteElse
  <2>8. /\ \A b \in Block : blocks'[b] = blocks[b]
        /\ blocks'[task[t].op.block] = blocks[task[t].op.block]
        /\ list' \in [Name -> Seq(Block)]
        /\ \A n \in Name : list'[n] = list[n]
    BY <1>0, <2>2
  <2>9. pc = "place" => task[t].op.kind = "insert"
    BY <2>1, <2>2 DEF Arrays
  <2>10. QED BY <2>2, <2>3, <2>4, <2>5, <2>6, <2>7, <2>8, <2>9 DEF Writes
<1>14. CASE Cut(t)
  <2>1. PICK a : a = task[t].kids
    OBVIOUS
  <2>2. /\ task[t].pc = "cut" /\ UNCHANGED <<blocks, object, started, want, mixed>>
        /\ End(t) \/ Go(t, "cutlog")
        /\ \/ UNCHANGED list
           \/ (task[t].at < Len(Kids(a))) /\ list' = [list EXCEPT ![a] = RemoveAt(list[a], task[t].at + 1)]
    BY <1>14, <2>1 DEF Cut
  <2>3. Active(t)
    BY <2>2 DEF Active
  <2>4. /\ \A u \in Task : u # t => task'[u] = task[u]
        /\ \/ task'[t] = Idle
           \/ /\ task'[t].pc = "cutlog" /\ task'[t].op = task[t].op /\ task'[t].map = task[t].map
              /\ task'[t].name = task[t].name /\ task'[t].kids = task[t].kids
              /\ task'[t].child = task[t].child /\ task'[t].at \in Nat
    <3>1. CASE End(t)
      BY <1>0, <3>1, Ending
    <3>2. CASE Go(t, "cutlog")
      BY <1>0, <3>2, <1>a, Going
    <3>3. QED BY <2>2, <3>1, <3>2
  <2>p. task[t].op.child \in Block
    BY <2>2, <2>3, Own, Ops DEF KindOf
  <2>5. /\ list' \in [Name -> Seq(Block)]
        /\ \A n \in Name : list'[n] # list[n] => n = a /\ LiveList(n)
    <3>1. CASE UNCHANGED list
      BY <1>0, <3>1
    <3>2. CASE (task[t].at < Len(Kids(a))) /\ list' = [list EXCEPT ![a] = RemoveAt(list[a], task[t].at + 1)]
      <4>1. LiveList(a)
        BY <1>a, <3>2 DEF Kids
      <4>2. PICK r : r = RemoveAt(list[a], task[t].at + 1)
        OBVIOUS
      <4>3. a \in Name /\ list[a] \in Seq(Block)
        <5>1. PICK m \in Name : object[m].kids = a /\ a # None
          BY <4>1 DEF LiveList
        <5>2. object[m] \in Object
          BY <1>0
        <5>3. QED BY <1>0, <5>1, <5>2 DEF Object
      <4>4. r \in Seq(Block)
        <5>1. PICK s : s = list[a]
          OBVIOUS
        <5>2. s \in Seq(Block) /\ Kids(a) = s
          BY <4>1, <4>3, <5>1 DEF Kids
        <5>3. QED BY <1>a, <3>2, <4>2, <5>1, <5>2, CutOut
      <4>5. list' = [list EXCEPT ![a] = r]
        BY <3>2, <4>2
      <4>6. QED BY <1>0, <4>1, <4>3, <4>4, <4>5
    <3>3. QED BY <2>2, <3>1, <3>2
  <2>6. /\ \A b \in Block : blocks'[b] = blocks[b]
        /\ blocks'[task[t].op.block] = blocks[task[t].op.block]
        /\ \A n \in Name : object'[n] = object[n]
    BY <2>2
  <2>7. QED BY <2>1, <2>2, <2>3, <2>4, <2>5, <2>6 DEF Writes
<1>15. CASE Put(t)
  <2>1. PICK a : a = task[t].kids
    OBVIOUS
  <2>2. /\ task[t].pc = "put" /\ UNCHANGED <<blocks, object, started, want, mixed>>
        /\ End(t) \/ Go(t, "log")
        /\ \/ UNCHANGED list
           \/ (LiveList(a) /\ task[t].at <= Len(Kids(a)))
                /\ list' = [list EXCEPT ![a] = InsertAt(list[a], task[t].at + 1, task[t].op.child)]
    BY <1>15, <2>1 DEF Put
  <2>3. Active(t)
    BY <2>2 DEF Active
  <2>4. /\ \A u \in Task : u # t => task'[u] = task[u]
        /\ \/ task'[t] = Idle
           \/ /\ task'[t].pc = "log" /\ task'[t].op = task[t].op /\ task'[t].map = task[t].map
              /\ task'[t].name = task[t].name /\ task'[t].kids = task[t].kids
              /\ task'[t].child = task[t].child /\ task'[t].at \in Nat
    <3>1. CASE End(t)
      BY <1>0, <3>1, Ending
    <3>2. CASE Go(t, "log")
      BY <1>0, <3>2, <1>a, Going
    <3>3. QED BY <2>2, <3>1, <3>2
  <2>p. task[t].op.child \in Block
    BY <2>2, <2>3, Own, Ops DEF KindOf
  <2>5. /\ list' \in [Name -> Seq(Block)]
        /\ \A n \in Name : list'[n] # list[n] => n = a /\ LiveList(n)
    <3>1. CASE UNCHANGED list
      BY <1>0, <3>1
    <3>2. CASE (LiveList(a) /\ task[t].at <= Len(Kids(a)))
                /\ list' = [list EXCEPT ![a] = InsertAt(list[a], task[t].at + 1, task[t].op.child)]
      <4>1. LiveList(a)
        BY <1>a, <3>2 DEF Kids
      <4>2. PICK r : r = InsertAt(list[a], task[t].at + 1, task[t].op.child)
        OBVIOUS
      <4>3. a \in Name /\ list[a] \in Seq(Block)
        <5>1. PICK m \in Name : object[m].kids = a /\ a # None
          BY <4>1 DEF LiveList
        <5>2. object[m] \in Object
          BY <1>0
        <5>3. QED BY <1>0, <5>1, <5>2 DEF Object
      <4>4. r \in Seq(Block)
        <5>1. PICK s : s = list[a]
          OBVIOUS
        <5>2. s \in Seq(Block) /\ Kids(a) = s
          BY <4>1, <4>3, <5>1 DEF Kids
        <5>3. QED BY <1>a, <2>p, <3>2, <4>2, <5>1, <5>2, PutIn
      <4>5. list' = [list EXCEPT ![a] = r]
        BY <3>2, <4>2
      <4>6. QED BY <1>0, <4>1, <4>3, <4>4, <4>5
    <3>3. QED BY <2>2, <3>1, <3>2
  <2>6. /\ \A b \in Block : blocks'[b] = blocks[b]
        /\ blocks'[task[t].op.block] = blocks[task[t].op.block]
        /\ \A n \in Name : object'[n] = object[n]
    BY <2>2
  <2>7. QED BY <2>1, <2>2, <2>3, <2>4, <2>5, <2>6 DEF Writes
<1>16. QED BY <1>1, <1>2, <1>3, <1>4, <1>5, <1>6, <1>7, <1>8, <1>9, <1>10, <1>11, <1>12, <1>13, <1>14, <1>15 DEF Step

-----------------------------------------------------------------------------
(* Where an operation is that meets no other, and what its blocks show.    *)

\* The children of a block, and what the block would show with other ones.
Children(b) == list[object[blocks[b]].kids]
Showing(b, kids) ==
  [flavour |-> object[blocks[b]].flavour, parent |-> object[blocks[b]].parent,
   kids |-> kids, content |-> object[blocks[b]].content]

Clean(t) == Active(t) /\ Touched(task[t].op) \cap mixed = {}

Setting(t) ==
  LET x == task[t]
      b == x.op.block
      n == x.name
  IN /\ x.pc \in {"make", "get", "flavour", "children", "handle", "newlog"} =>
          want[b] = [flavour |-> x.op.flavour, parent |-> None, kids |-> <<>>, content |-> n]
     /\ x.pc = "make" => blocks[b] = None
     /\ x.pc \in {"get", "flavour", "children", "handle", "newlog"} => blocks[b] = n
     /\ x.pc \in {"flavour", "children", "handle", "newlog", "content"} => x.map = blocks[b]
     /\ x.pc \in {"get", "flavour"} => object[n] = NewObject
     /\ x.pc = "children" =>
          object[n] = [flavour |-> x.op.flavour, parent |-> None, kids |-> None, content |-> 0]
     /\ x.pc \in {"handle", "newlog"} =>
          /\ object[n] = [flavour |-> x.op.flavour, parent |-> None, kids |-> n, content |-> 0]
          /\ list[n] = <<>>
     /\ x.pc = "content" => IsBlock(b) /\ want[b] = [flavour |-> object[blocks[b]].flavour,
                                        parent |-> object[blocks[b]].parent,
                                        kids |-> Children(b), content |-> n]
     /\ x.pc = "log" => want[b] = Shown(b)

Removing(t) == /\ want[task[t].op.block] = None
               /\ task[t].pc = "unlog" => blocks[task[t].op.block] = None

Asked(o, s) == IF o.kind = "take" THEN s ELSE PutAmong(s, o.child, o.where)
Placing(t) ==
  LET x == task[t]
      o == x.op
      s == Children(o.block)
  IN /\ IsBlock(o.block) /\ IsBlock(o.child)
     /\ x.kids = object[blocks[o.block]].kids /\ x.child = blocks[o.child]
     /\ want[o.block] = Showing(o.block, want[o.block].kids) /\ want[o.child].parent = o.block
     /\ IF x.pc = "adopt"
        THEN want[o.child] = [flavour |-> object[blocks[o.child]].flavour, parent |-> o.block,
                              kids |-> Children(o.child), content |-> object[blocks[o.child]].content]
        ELSE want[o.child] = Shown(o.child)
     /\ x.pc \in {"adopt", "find", "cut"} => want[o.block].kids = Asked(o, Without(s, o.child))
     /\ x.pc \in {"adopt", "find"} /\ o.kind = "take" => Holds(s, o.child)
     /\ x.pc = "cut" => x.at \in 0..Len(s)-1 /\ s[x.at + 1] = o.child
     /\ x.pc \in {"cutlog", "again", "place", "put"} =>
          want[o.block].kids = Asked(o, s) /\ ~Holds(s, o.child)
     /\ x.pc \in {"again", "place", "put", "log"} => o.kind = "insert"
     /\ x.pc = "put" => x.at = Place(s, o.where)
     /\ x.pc = "log" => want[o.block].kids = s

Doing(t) == /\ task[t].op.kind = "set" => Setting(t)
            /\ task[t].op.kind = "remove" => Removing(t)
            /\ task[t].op.kind \in {"insert", "take"} => Placing(t)

AsIs ==
  /\ want = [b \in Block |-> want[b]]
  /\ \A t \in Task : Active(t) /\ ~Clean(t) => Touched(task[t].op) \subseteq mixed
  /\ \A b \in Block \ mixed : /\ IsBlock(b) => Distinct(Children(b))
                              /\ Untouched(b) => Shown(b) = want[b]
  /\ \A t \in Task : Clean(t) => Doing(t)

-----------------------------------------------------------------------------

LEMMA ShownIs ==
  ASSUME BlocksInv, Arrays, NEW b \in Block
  PROVE  /\ blocks[b] \in Name \cup {None} /\ None \notin Name
         /\ blocks[b] # None => object[blocks[b]] \in Object
         /\ IsBlock(b) => /\ object[blocks[b]].kids \in Name /\ LiveList(object[blocks[b]].kids)
                          /\ LiveMap(blocks[b])
                          /\ Kids(object[blocks[b]].kids) = Children(b)
                          /\ Children(b) \in Seq(Block)
                          /\ Shown(b) = Showing(b, Children(b))
         /\ ~IsBlock(b) => Shown(b) = None
PROOF
<1>1. /\ blocks \in [Block -> Name \cup {None}] /\ object \in [Name -> Object]
      /\ list \in [Name -> Seq(Block)] /\ None \notin Name
  BY Names DEF BlocksInv, Shape, Arrays
<1>2. ~IsBlock(b) => Shown(b) = None
  BY DEF Shown
<1>3. ASSUME IsBlock(b)
      PROVE  /\ object[blocks[b]].kids \in Name /\ LiveList(object[blocks[b]].kids)
             /\ LiveMap(blocks[b])
             /\ Kids(object[blocks[b]].kids) = Children(b)
             /\ Children(b) \in Seq(Block)
             /\ Shown(b) = Showing(b, Children(b))
  <2>1. blocks[b] \in Name /\ blocks[b] # None /\ object[blocks[b]].kids # None
    BY <1>1, <1>3 DEF IsBlock
  <2>2. object[blocks[b]].kids \in Name
    BY <1>1, <2>1 DEF Object
  <2>3. LiveMap(blocks[b])
    BY <2>1 DEF LiveMap
  <2>4. LiveList(object[blocks[b]].kids)
    BY <2>1, <2>3 DEF LiveList
  <2>5. Kids(object[blocks[b]].kids) = Children(b) /\ Children(b) \in Seq(Block)
    BY <1>1, <2>2, <2>4 DEF Kids, Children
  <2>6. Shown(b) = Showing(b, Children(b))
    BY <1>3, <2>5 DEF Shown, Showing
  <2>7. QED BY <2>2, <2>3, <2>4, <2>5, <2>6
<1>4. QED BY <1>1, <1>2, <1>3

\* The same after a step.
LEMMA ShownNext ==
  ASSUME BlocksInv', Arrays', NEW b \in Block, IsBlock(b)'
  PROVE  Shown(b)' = Showing(b, Children(b))' /\ Children(b)' \in Seq(Block)
PROOF
<1>1. /\ blocks' \in [Block -> Name \cup {None}] /\ object' \in [Name -> Object]
      /\ list' \in [Name -> Seq(Block)]
  BY DEF BlocksInv, Shape, Arrays
<1>2. blocks'[b] \in Name /\ blocks'[b] # None /\ object'[blocks'[b]].kids # None
  BY <1>1 DEF IsBlock
<1>3. object'[blocks'[b]].kids \in Name
  BY <1>1, <1>2 DEF Object
<1>4. LiveList(object[blocks[b]].kids)'
  BY <1>2 DEF LiveList, LiveMap
<1>5. Kids(object[blocks[b]].kids)' = Children(b)' /\ Children(b)' \in Seq(Block)
  BY <1>1, <1>3, <1>4 DEF Kids, Children
<1>6. QED BY <1>5 DEF Shown, Showing

\* A block that stays shows what it showed.
LEMMA StaysShown ==
  ASSUME BlocksInv, BlocksInv', Arrays, Arrays', NEW b \in Block, Stays(b)
  PROVE  /\ IsBlock(b)' <=> IsBlock(b)
         /\ Shown(b)' = Shown(b)
         /\ IsBlock(b) => Children(b)' = Children(b)
PROOF
<1>1. blocks'[b] = blocks[b] /\ (blocks[b] # None => object'[blocks[b]] = object[blocks[b]])
  BY DEF Stays
<1>2. IsBlock(b)' <=> IsBlock(b)
  BY <1>1 DEF IsBlock
<1>3. IsBlock(b) => Children(b)' = Children(b)
  BY <1>1 DEF IsBlock, Stays, Children
<1>4. CASE IsBlock(b)
  <2>1. Shown(b) = Showing(b, Children(b))
    BY <1>4, ShownIs
  <2>2. Shown(b)' = Showing(b, Children(b))'
    <3>1. IsBlock(b)'
      BY <1>2, <1>4
    <3>2. QED BY <3>1, ShownNext
  <2>3. Showing(b, Children(b))' = Showing(b, Children(b))
    BY <1>1, <1>3, <1>4 DEF Showing, IsBlock
  <2>4. QED BY <1>2, <1>3, <2>1, <2>2, <2>3
<1>5. CASE ~IsBlock(b)
  BY <1>2, <1>5 DEF Shown
<1>6. QED BY <1>2, <1>3, <1>4, <1>5

\* Where an operation is stays true while its blocks stay.
LEMMA DoingStays ==
  ASSUME BlocksInv, BlocksInv', Arrays, Arrays', NEW u \in Task, Active(u), Doing(u),
         task'[u] = task[u], \A b \in Touched(task[u].op) : want'[b] = want[b] /\ Stays(b)
  PROVE  Doing(u)'
PROOF
<1>1. PICK x : x = task[u]
  OBVIOUS
<1>2. PICK o : o = x.op
  OBVIOUS
<1>3. o \in Op /\ o.block \in Block /\ o.block \in Touched(o) /\ task[u].op = o /\ x.name \in Name
      /\ x.name # None /\ o.kind \in {"set", "remove", "insert", "take"}
  BY <1>1, <1>2, Own, Ops, Names
<1>4. PICK b : b = o.block
  OBVIOUS
<1>5. /\ b \in Block /\ Stays(b) /\ want'[b] = want[b]
      /\ IsBlock(b)' <=> IsBlock(b)
      /\ Shown(b)' = Shown(b)
      /\ IsBlock(b) => Children(b)' = Children(b)
      /\ blocks'[b] = blocks[b]
      /\ blocks[b] # None => object'[blocks[b]] = object[blocks[b]]
  BY <1>3, <1>4, StaysShown DEF Stays
<1>6. task'[u] = x
  BY <1>1
<1>7. CASE o.kind = "set"
  <2>1. Setting(u)
    BY <1>3, <1>7 DEF Doing
  <2>2. x.pc \in {"get", "flavour", "children", "handle", "newlog"} =>
          object'[x.name] = object[x.name] /\ (x.pc \in {"handle", "newlog"} => list'[x.name] = list[x.name])
    <3> SUFFICES ASSUME x.pc \in {"get", "flavour", "children", "handle", "newlog"}
                 PROVE  object'[x.name] = object[x.name]
                        /\ (x.pc \in {"handle", "newlog"} => list'[x.name] = list[x.name])
      OBVIOUS
    <3>1. blocks[b] = x.name
      BY <1>1, <1>2, <1>4, <2>1 DEF Setting
    <3>2. object'[x.name] = object[x.name]
      BY <3>1, <1>3, <1>5
    <3>3. ASSUME x.pc \in {"handle", "newlog"} PROVE list'[x.name] = list[x.name]
      <4>1. object[x.name].kids = x.name
        BY <3>3, <1>1, <1>2, <2>1 DEF Setting
      <4>2. QED BY <4>1, <3>1, <1>3, <1>5 DEF Stays
    <3>4. QED BY <3>2, <3>3
  <2>3. x.pc = "content" => IsBlock(b)
    BY <1>1, <1>2, <1>4, <2>1 DEF Setting
  <2>4. x.pc = "content" => object'[blocks[b]] = object[blocks[b]] /\ Children(b)' = Children(b)
    BY <2>3, <1>5 DEF IsBlock
  <2>5. x.pc = "make" => blocks'[b] = None /\ blocks[b] = None
    BY <1>1, <1>2, <1>4, <1>5, <2>1 DEF Setting
  <2>6. Setting(u)'
    BY <1>1, <1>2, <1>4, <1>5, <1>6, <2>1, <2>2, <2>3, <2>4, <2>5 DEF Setting
  <2>7. QED BY <2>6, <1>2, <1>6, <1>7 DEF Doing
<1>8. CASE o.kind = "remove"
  <2>1. Removing(u)
    BY <1>3, <1>8 DEF Doing
  <2>2. Removing(u)'
    BY <1>1, <1>2, <1>4, <1>5, <1>6, <2>1 DEF Removing
  <2>3. QED BY <2>2, <1>2, <1>6, <1>8 DEF Doing
<1>9. CASE o.kind \in {"insert", "take"}
  <2>1. Placing(u)
    BY <1>3, <1>9 DEF Doing
  <2>2. PICK c : c = o.child
    OBVIOUS
  <2>3. c \in Block /\ c \in Touched(o)
    BY <2>2, <1>3, <1>9, Ops DEF Touched
  <2>4. /\ want'[c] = want[c]
        /\ IsBlock(c)' <=> IsBlock(c)
        /\ Shown(c)' = Shown(c)
        /\ IsBlock(c) => Children(c)' = Children(c)
        /\ blocks'[c] = blocks[c]
        /\ blocks[c] # None => object'[blocks[c]] = object[blocks[c]]
    BY <2>3, <1>3, StaysShown DEF Stays
  <2>5. IsBlock(b) /\ IsBlock(c) /\ blocks[b] # None /\ blocks[c] # None
    BY <2>1, <2>2, <1>1, <1>2, <1>4 DEF Placing, IsBlock
  <2>6. /\ Children(b)' = Children(b) /\ Children(c)' = Children(c)
        /\ object'[blocks[b]] = object[blocks[b]] /\ object'[blocks[c]] = object[blocks[c]]
    BY <2>4, <2>5, <1>5
  <2>8. Placing(u)'
    <3>1. task'[u].op = o /\ task[u].op = o /\ task'[u] = task[u] /\ o.block = b /\ o.child = c
      BY <1>1, <1>2, <1>3, <1>4, <1>6, <2>2
    <3>2. PICK s : s = Children(b)
      OBVIOUS
    <3>3. /\ task[u].kids = object[blocks[b]].kids /\ task[u].child = blocks[c]
          /\ want[b] = Showing(b, want[b].kids) /\ want[c].parent = b
      BY <2>1, <3>1 DEF Placing
    <3>4. /\ IsBlock(b)' /\ IsBlock(c)'
          /\ task'[u].kids = object'[blocks'[b]].kids /\ task'[u].child = blocks'[c]
          /\ (want[b] = Showing(b, want[b].kids))' /\ want'[c].parent = b
      <4>1. (want[b] = Showing(b, want[b].kids))'
        BY <3>3, <2>6, <1>5 DEF Showing
      <4>2. QED BY <4>1, <3>1, <3>3, <2>4, <2>5, <2>6, <1>5
    <3>5. IF x.pc = "adopt"
          THEN want[c] = [flavour |-> object[blocks[c]].flavour, parent |-> b,
                          kids |-> Children(c), content |-> object[blocks[c]].content]
          ELSE want[c] = Shown(c)
      BY <2>1, <3>1, <1>1 DEF Placing
    <3>6. IF x.pc = "adopt"
          THEN want'[c] = [flavour |-> object'[blocks'[c]].flavour, parent |-> b,
                           kids |-> Children(c)', content |-> object'[blocks'[c]].content]
          ELSE want'[c] = Shown(c)'
      BY <3>5, <2>4, <2>6
    <3>7. /\ x.pc \in {"adopt", "find", "cut"} => want[b].kids = Asked(o, Without(s, c))
          /\ x.pc \in {"adopt", "find"} /\ o.kind = "take" => Holds(s, c)
          /\ x.pc = "cut" => x.at \in 0..Len(s)-1 /\ s[x.at + 1] = c
          /\ x.pc \in {"cutlog", "again", "place", "put"} =>
               want[b].kids = Asked(o, s) /\ ~Holds(s, c)
          /\ x.pc \in {"again", "place", "put", "log"} => o.kind = "insert"
          /\ x.pc = "put" => x.at = Place(s, o.where)
          /\ x.pc = "log" => want[b].kids = s
      BY <2>1, <3>1, <3>2, <1>1 DEF Placing
    <3>8. want'[b] = want[b] /\ Children(b)' = s /\ task'[u] = x
      BY <1>5, <1>6, <2>6, <3>2
    <3>9. QED BY <3>1, <3>4, <3>6, <3>7, <3>8 DEF Placing
  <2>9. QED BY <2>8, <1>2, <1>6, <1>9 DEF Doing
<1>10. QED BY <1>3, <1>7, <1>8, <1>9

\* An operation that no other met has its blocks for itself.
LEMMA Alone ==
  ASSUME BlocksInv, NEW t \in Task, Active(t), NEW u \in Task, u # t, Clean(u)
  PROVE  Touched(task[u].op) \cap Touched(task[t].op) = {}
PROOF
<1>1. Meeting
  BY DEF BlocksInv
<1>2. Active(u) /\ Touched(task[u].op) \cap mixed = {}
  BY DEF Clean
<1>3. QED BY <1>1, <1>2 DEF Meeting

LEMMA StepAsIs ==
  ASSUME BlocksInv, BlocksInv', Arrays, Arrays', AsIs, NEW t \in Task, Writes(t),
         Clean(t) => /\ task'[t] # Idle => Doing(t)'
                     /\ \A b \in Touched(task[t].op) :
                          /\ IsBlock(b)' => Distinct(Children(b))'
                          /\ task'[t] = Idle => Shown(b)' = want[b]
  PROVE  AsIs'
PROOF
<1>1. /\ Active(t) /\ UNCHANGED <<mixed, want>> /\ \A u \in Task : u # t => task'[u] = task[u]
      /\ task'[t] = Idle \/ (task'[t].op = task[t].op /\ task'[t].pc # "idle")
  BY DEF Writes
<1>2. Idle.pc = "idle" /\ Idle.op = None
  BY DEF Idle
<1>3. \A b \in Block : b \notin Touched(task[t].op) => Stays(b)
  BY WritesOwn
<1>4. task[t].op \in Op /\ Touched(task[t].op) \subseteq Block
  BY <1>1, Own, Ops
<1>5. \A u \in Task : Active(u)' /\ ~Clean(u)' => Touched(task'[u].op) \subseteq mixed'
  <2> SUFFICES ASSUME NEW u \in Task, Active(u)', ~Clean(u)'
               PROVE  Touched(task'[u].op) \subseteq mixed
    BY <1>1
  <2>1. task'[u].op = task[u].op /\ Active(u)
    BY <1>1, <1>2 DEF Active
  <2>2. ~Clean(u)
    BY <2>1, <1>1 DEF Clean
  <2>3. QED BY <2>1, <2>2 DEF AsIs
<1>6. ASSUME NEW b \in Block, b \notin mixed
      PROVE  /\ IsBlock(b)' => Distinct(Children(b))'
             /\ Untouched(b)' => Shown(b)' = want[b]
  <2>1. CASE b \notin Touched(task[t].op)
    <3>1. /\ IsBlock(b)' <=> IsBlock(b)
          /\ Shown(b)' = Shown(b)
          /\ IsBlock(b) => Children(b)' = Children(b)
      BY <2>1, <1>3, StaysShown
    <3>2. Untouched(b)' => Untouched(b)
      BY <2>1, <1>1 DEF Untouched
    <3>3. /\ IsBlock(b) => Distinct(Children(b))
          /\ Untouched(b) => Shown(b) = want[b]
      BY <1>6 DEF AsIs
    <3>4. IsBlock(b)' => Distinct(Children(b))'
      BY <3>1, <3>3 DEF Distinct
    <3>5. QED BY <3>1, <3>2, <3>3, <3>4
  <2>2. CASE b \in Touched(task[t].op)
    <3>1. Clean(t)
      BY <2>2, <1>1, <1>6 DEF AsIs
    <3>2. Untouched(b)' => task'[t] = Idle
      BY <2>2, <1>1 DEF Untouched
    <3>3. QED BY <3>1, <3>2, <2>2
  <2>3. QED BY <2>1, <2>2
<1>7. ASSUME NEW u \in Task, Clean(u)' PROVE Doing(u)'
  <2>1. Clean(u) /\ task'[u].op = task[u].op
    BY <1>1, <1>2, <1>7 DEF Clean, Active
  <2>2. CASE u = t
    <3>1. task'[t] # Idle
      BY <2>2, <1>2, <1>7 DEF Clean, Active
    <3>2. QED BY <2>1, <2>2, <3>1
  <2>3. CASE u # t
    <3>1. Touched(task[u].op) \cap Touched(task[t].op) = {}
      BY <2>1, <2>3, <1>1, Alone
    <3>2. Active(u) /\ Doing(u) /\ task'[u] = task[u] /\ Touched(task[u].op) \subseteq Block
      BY <2>1, <2>3, <1>1, Own, Ops DEF AsIs, Clean
    <3>3. \A b \in Touched(task[u].op) : want'[b] = want[b] /\ Stays(b)
      BY <3>1, <3>2, <1>1, <1>3
    <3>4. QED BY <3>2, <3>3, DoingStays
  <2>4. QED BY <2>2, <2>3
<1>8. want' = [b \in Block |-> want'[b]]
  BY <1>1 DEF AsIs
<1>9. \A b \in Block \ mixed' : /\ IsBlock(b)' => Distinct(Children(b))'
                                /\ Untouched(b)' => Shown(b)' = want'[b]
  BY <1>1, <1>6
<1>10. QED BY <1>5, <1>7, <1>8, <1>9 DEF AsIs

-----------------------------------------------------------------------------
(* The steps of an operation that meets no other.                          *)

Mine(t) == /\ task'[t] # Idle => Doing(t)'
           /\ \A b \in Touched(task[t].op) :
                /\ IsBlock(b)' => Distinct(Children(b))'
                /\ task'[t] = Idle => Shown(b)' = want[b]

LEMMA Mind ==
  ASSUME BlocksInv, Arrays, AsIs, NEW t \in Task, Clean(t)
  PROVE  /\ Active(t) /\ Doing(t) /\ task[t].op \in Op /\ task[t].op.block \in Block
         /\ task[t].op.kind \in {"set", "remove", "insert", "take"} /\ KindOf(task[t])
         /\ task[t].name \in Name /\ task[t].name # None
         /\ Touched(task[t].op) \subseteq Block \ mixed
         /\ task[t].op.kind \in {"set", "remove"} => Touched(task[t].op) = {task[t].op.block}
         /\ task[t].op.kind \in {"insert", "take"} =>
              Touched(task[t].op) = {task[t].op.block, task[t].op.child}
         /\ \A b \in Touched(task[t].op) : IsBlock(b) => Distinct(Children(b))
PROOF
<1>1. Active(t) /\ Doing(t) /\ Touched(task[t].op) \cap mixed = {}
  BY DEF Clean, AsIs
<1>2. /\ task[t].op \in Op /\ task[t].op.block \in Block /\ KindOf(task[t])
      /\ task[t].op.kind \in {"set", "remove", "insert", "take"}
      /\ task[t].name \in Name /\ task[t].name # None
      /\ Touched(task[t].op) \subseteq Block
  BY <1>1, Own, Ops, Names
<1>3. \A b \in Touched(task[t].op) : IsBlock(b) => Distinct(Children(b))
  BY <1>1, <1>2 DEF AsIs
<1>4. QED BY <1>1, <1>2, <1>3 DEF Touched

\* A step that leaves the document alone.
LEMMA StillShown ==
  ASSUME BlocksInv, BlocksInv', Arrays, Arrays', UNCHANGED <<blocks, object, list>>, NEW b \in Block
  PROVE  /\ IsBlock(b)' <=> IsBlock(b)
         /\ Shown(b)' = Shown(b)
         /\ IsBlock(b) => Children(b)' = Children(b)
PROOF
<1>1. Stays(b)
  BY DEF Stays
<1>2. QED BY <1>1, StaysShown

LEMMA MindCreate ==
  ASSUME BlocksInv, BlocksInv', Arrays, Arrays', AsIs, NEW t \in Task, Writes(t), Clean(t),
         CreateMap(t) \/ CreateGet(t) \/ CreateFlavour(t) \/ CreateChildren(t) \/ CreateHandle(t)
  PROVE  Mine(t)
PROOF
<1>1. PICK b, n, o : b = task[t].op.block /\ n = task[t].name /\ o = task[t].op
  OBVIOUS
<1>2. Shape /\ blocks \in [Block -> Name \cup {None}] /\ object \in [Name -> Object]
  BY DEF BlocksInv, Shape
<1>3. /\ Active(t) /\ Doing(t) /\ KindOf(task[t]) /\ b \in Block /\ n \in Name /\ n # None
  BY <1>1, Mind
<1>4. task[t].op.kind = "set" /\ o.kind = "set" /\ Setting(t) /\ Touched(task[t].op) = {b}
  BY <1>1, <1>3, Mind DEF KindOf, Doing, CreateMap, CreateGet, CreateFlavour, CreateChildren, CreateHandle
<1>5. want' = want
  BY DEF Writes
\* It is enough to say where the creation is afterwards.
<1>6. ASSUME task'[t] # Idle, task'[t].op = task[t].op, Setting(t)',
             IsBlock(b)' => Distinct(Children(b))'
      PROVE  Mine(t)
  BY <1>4, <1>6 DEF Mine, Doing
<1>7. NewObject = [flavour |-> None, parent |-> None, kids |-> None, content |-> 0]
  BY DEF NewObject
<1>8. Idle.pc = "idle"
  BY DEF Idle
<1>9. want[b] = [flavour |-> o.flavour, parent |-> None, kids |-> <<>>, content |-> n]
  BY <1>1, <1>4 DEF Setting, CreateMap, CreateGet, CreateFlavour, CreateChildren, CreateHandle
<1>10. CASE CreateMap(t)
  <2>1. /\ task[t].pc = "make" /\ blocks' = [blocks EXCEPT ![b] = n] /\ Go(t, "get")
        /\ UNCHANGED <<object, list>>
    BY <1>1, <1>10 DEF CreateMap
  <2>2. task'[t].pc = "get" /\ task'[t].op = o /\ task'[t].name = n
    BY <1>1, <1>2, <2>1, Going
  <2>3. blocks'[b] = n /\ object'[n] = NewObject
    BY <1>1, <1>2, <1>3, <2>1 DEF Arrays, Unmade
  <2>4. ~IsBlock(b)'
    BY <2>3, <1>7 DEF IsBlock
  <2>5. Setting(t)'
    BY <2>2, <2>3, <1>1, <1>5, <1>9 DEF Setting
  <2>6. QED BY <2>2, <2>4, <2>5, <1>1, <1>6, <1>8
<1>11. CASE CreateGet(t)
  <2>1. task[t].pc = "get" /\ UNCHANGED <<blocks, object, list>> /\ blocks[b] = n /\ object[n] = NewObject
    BY <1>1, <1>4, <1>11 DEF CreateGet, Setting
  <2>2. task' = [task EXCEPT ![t].pc = "flavour", ![t].map = blocks[b]]
    BY <1>1, <1>3, <1>11, <2>1 DEF CreateGet
  <2>3. task'[t].pc = "flavour" /\ task'[t].op = o /\ task'[t].name = n /\ task'[t].map = blocks[b]
    <3>1. PICK m, pc : m = blocks[b] /\ pc = "flavour"
      OBVIOUS
    <3>2. task' = [task EXCEPT ![t].pc = pc, ![t].map = m]
      BY <2>2, <3>1
    <3>3. /\ \A u \in Task : u # t => task'[u] = task[u]
          /\ task'[t].pc = pc /\ task'[t].op = task[t].op /\ task'[t].map = m
          /\ task'[t].name = task[t].name /\ task'[t].kids = task[t].kids
          /\ task'[t].child = task[t].child /\ task'[t].at = task[t].at
      BY <1>2, <3>2, GoingMap
    <3>4. QED BY <3>1, <3>3, <1>1
  <2>4. ~IsBlock(b)'
    BY <2>1, <1>7 DEF IsBlock
  <2>5. Setting(t)'
    BY <2>1, <2>3, <1>1, <1>5, <1>9 DEF Setting
  <2>6. QED BY <2>3, <2>4, <2>5, <1>1, <1>6, <1>8
<1>12. CASE CreateFlavour(t)
  <2>1. /\ task[t].pc = "flavour" /\ Go(t, "children") /\ UNCHANGED <<blocks, list>>
        /\ object' = Write(task[t].map, "flavour", o.flavour)
    BY <1>1, <1>12 DEF CreateFlavour
  <2>2. task[t].map = n /\ blocks[b] = n /\ object[n] = NewObject
    BY <2>1, <1>1, <1>4 DEF Setting
  <2>3. task'[t].pc = "children" /\ task'[t].op = o /\ task'[t].name = n /\ task'[t].map = n
    BY <1>1, <1>2, <2>1, <2>2, Going
  <2>4. LiveMap(n)
    BY <2>2, <1>3 DEF LiveMap
  <2>5. object'[n] = [flavour |-> o.flavour, parent |-> None, kids |-> None, content |-> 0]
    <3>1. PICK x, v : x = object[n] /\ v = o.flavour
      OBVIOUS
    <3>2. Wrote(n, x, v)
      BY <1>2, <1>3, <2>4, <3>1, WroteThere
    <3>3. x.parent = None /\ x.kids = None /\ x.content = 0
      BY <3>1, <2>2, <1>7
    <3>4. QED BY <2>1, <2>2, <3>1, <3>2, <3>3 DEF Wrote
  <2>6. ~IsBlock(b)'
    BY <2>1, <2>2, <2>5 DEF IsBlock
  <2>7. Setting(t)'
    BY <2>1, <2>2, <2>3, <2>5, <1>1, <1>5, <1>9 DEF Setting
  <2>8. QED BY <2>3, <2>6, <2>7, <1>1, <1>6, <1>8
<1>13. CASE CreateChildren(t)
  <2>1. /\ task[t].pc = "children" /\ Go(t, "handle") /\ UNCHANGED <<blocks, list>>
        /\ object' = Write(task[t].map, "kids", n)
    BY <1>1, <1>13 DEF CreateChildren
  <2>2. /\ task[t].map = n /\ blocks[b] = n
        /\ object[n] = [flavour |-> o.flavour, parent |-> None, kids |-> None, content |-> 0]
    BY <2>1, <1>1, <1>4 DEF Setting
  <2>3. task'[t].pc = "handle" /\ task'[t].op = o /\ task'[t].name = n /\ task'[t].map = n
    BY <1>1, <1>2, <2>1, <2>2, Going
  <2>4. LiveMap(n)
    BY <2>2, <1>3 DEF LiveMap
  <2>5. object'[n] = [flavour |-> o.flavour, parent |-> None, kids |-> n, content |-> 0]
    <3>1. PICK x, v : x = object[n] /\ v = n
      OBVIOUS
    <3>2. Wrote(n, x, v)
      BY <1>2, <1>3, <2>4, <3>1, WroteThere
    <3>3. x.flavour = o.flavour /\ x.parent = None /\ x.content = 0
      BY <3>1, <2>2
    <3>4. QED BY <2>1, <2>2, <3>1, <3>2, <3>3 DEF Wrote
  <2>6. list'[n] = <<>>
    BY <2>1, <1>1 DEF Arrays, Unused
  <2>7. Distinct(Children(b))'
    <3>1. Children(b)' = <<>>
      BY <2>1, <2>2, <2>5, <2>6 DEF Children
    <3>2. QED BY <3>1 DEF Distinct
  <2>8. Setting(t)'
    BY <2>1, <2>2, <2>3, <2>5, <2>6, <1>1, <1>5, <1>9 DEF Setting
  <2>9. QED BY <2>3, <2>7, <2>8, <1>1, <1>6, <1>8
<1>14. CASE CreateHandle(t)
  <2>1. task[t].pc = "handle" /\ UNCHANGED <<blocks, object, list>>
    BY <1>14 DEF CreateHandle
  <2>2. /\ task[t].map = n /\ blocks[b] = n /\ list[n] = <<>>
        /\ object[n] = [flavour |-> o.flavour, parent |-> None, kids |-> n, content |-> 0]
    BY <2>1, <1>1, <1>4 DEF Setting
  <2>3. LiveMap(n)
    BY <2>2, <1>3 DEF LiveMap
  <2>4. Go(t, "newlog")
    BY <2>2, <2>3, <1>14 DEF CreateHandle
  <2>5. task'[t].pc = "newlog" /\ task'[t].op = o /\ task'[t].name = n /\ task'[t].map = n
    BY <1>1, <1>2, <2>2, <2>4, Going
  <2>6. Distinct(Children(b))'
    <3>1. Children(b)' = <<>>
      BY <2>1, <2>2 DEF Children
    <3>2. QED BY <3>1 DEF Distinct
  <2>7. Setting(t)'
    BY <2>1, <2>2, <2>5, <1>1, <1>5, <1>9 DEF Setting
  <2>8. QED BY <2>5, <2>6, <2>7, <1>1, <1>6, <1>8
<1>15. QED BY <1>10, <1>11, <1>12, <1>13, <1>14

LEMMA MindContent ==
  ASSUME BlocksInv, BlocksInv', Arrays, Arrays', AsIs, NEW t \in Task, Writes(t), Clean(t), SetContent(t)
  PROVE  Mine(t)
PROOF
<1>1. PICK b, n, o : b = task[t].op.block /\ n = task[t].name /\ o = task[t].op
  OBVIOUS
<1>2. Shape /\ blocks \in [Block -> Name \cup {None}] /\ object \in [Name -> Object]
  BY DEF BlocksInv, Shape
<1>3. /\ Active(t) /\ Doing(t) /\ KindOf(task[t]) /\ b \in Block /\ n \in Name /\ n # None
  BY <1>1, Mind
<1>4. task[t].pc = "content" /\ task[t].op.kind = "set" /\ o.kind = "set" /\ Setting(t)
      /\ Touched(task[t].op) = {b}
  BY <1>1, <1>3, Mind DEF KindOf, Doing, SetContent
<1>5. PICK m : m = blocks[b]
  OBVIOUS
<1>6. /\ task[t].map = m /\ IsBlock(b)
      /\ want[b] = [flavour |-> object[m].flavour, parent |-> object[m].parent,
                    kids |-> Children(b), content |-> n]
  BY <1>1, <1>4, <1>5 DEF Setting
<1>7. m \in Name /\ LiveMap(m) /\ m # None
  BY <1>2, <1>3, <1>5, <1>6 DEF IsBlock, LiveMap
<1>8. Go(t, "log") /\ object' = Write(m, "content", n) /\ UNCHANGED <<blocks, list>> /\ want' = want
  BY <1>1, <1>6 DEF SetContent
<1>9. task'[t].pc = "log" /\ task'[t].op = o
  BY <1>1, <1>2, <1>8, Going
<1>10. object'[m] = [flavour |-> object[m].flavour, parent |-> object[m].parent,
                     kids |-> object[m].kids, content |-> n]
  <2>1. PICK x, v : x = object[m] /\ v = n
    OBVIOUS
  <2>2. Wrote(m, x, v)
    BY <1>2, <1>7, <2>1, WroteThere
  <2>3. QED BY <1>8, <2>1, <2>2 DEF Wrote
<1>11. Children(b)' = Children(b) /\ IsBlock(b)'
  BY <1>5, <1>6, <1>8, <1>10 DEF Children, IsBlock
<1>12. Distinct(Children(b))'
  <2>1. Distinct(Children(b))
    BY <1>4, <1>6, Mind
  <2>2. QED BY <2>1, <1>11 DEF Distinct
<1>13. Shown(b)' = want[b]
  <2>1. Shown(b)' = Showing(b, Children(b))'
    BY <1>3, <1>11, ShownNext
  <2>2. Showing(b, Children(b))' = [flavour |-> object[m].flavour, parent |-> object[m].parent,
                                    kids |-> Children(b), content |-> n]
    <3>1. /\ object'[m].flavour = object[m].flavour /\ object'[m].parent = object[m].parent
          /\ object'[m].content = n
      BY <1>10
    <3>2. blocks'[b] = m
      BY <1>5, <1>8
    <3>3. QED BY <3>1, <3>2, <1>11 DEF Showing
  <2>3. QED BY <2>1, <2>2, <1>6
<1>14. Setting(t)'
  BY <1>1, <1>8, <1>9, <1>13 DEF Setting
<1>15. Idle.pc = "idle"
  BY DEF Idle
<1>16. QED BY <1>1, <1>4, <1>9, <1>12, <1>14, <1>15 DEF Mine, Doing

\* Steps that leave the document alone leave what the blocks show.
LEMMA QuietMine ==
  ASSUME BlocksInv, BlocksInv', Arrays, Arrays', AsIs, NEW t \in Task, Clean(t),
         UNCHANGED <<blocks, object, list, want>>,
         task'[t] # Idle => Doing(t)',
         task'[t] = Idle => \A b \in Touched(task[t].op) : Shown(b) = want[b]
  PROVE  Mine(t)
PROOF
<1>1. \A b \in Touched(task[t].op) : b \in Block /\ (IsBlock(b) => Distinct(Children(b)))
  BY Mind
<1>2. ASSUME NEW b \in Touched(task[t].op)
      PROVE  /\ IsBlock(b)' => Distinct(Children(b))'
             /\ task'[t] = Idle => Shown(b)' = want[b]
  <2>1. /\ IsBlock(b)' <=> IsBlock(b)
        /\ Shown(b)' = Shown(b)
        /\ IsBlock(b) => Children(b)' = Children(b)
    BY <1>1, StillShown
  <2>2. IsBlock(b)' => Distinct(Children(b))'
    BY <2>1, <1>1 DEF Distinct
  <2>3. QED BY <2>1, <2>2
<1>3. QED BY <1>2 DEF Mine

LEMMA MindLog ==
  ASSUME BlocksInv, BlocksInv', Arrays, Arrays', AsIs, NEW t \in Task, Writes(t), Clean(t), Log(t)
  PROVE  Mine(t)
PROOF
<1>1. PICK b, n, o : b = task[t].op.block /\ n = task[t].name /\ o = task[t].op
  OBVIOUS
<1>2. Shape /\ UNCHANGED <<blocks, object, list, want>>
  BY DEF BlocksInv, Log, Writes
<1>3. /\ Active(t) /\ Doing(t) /\ KindOf(task[t]) /\ b \in Block /\ n \in Name /\ n # None
      /\ task[t].pc \in {"newlog", "log"}
  BY <1>1, Mind DEF Log
<1>4. Idle.pc = "idle"
  BY DEF Idle
<1>5. CASE task[t].pc = "newlog"
  <2>1. task[t].op.kind = "set" /\ Setting(t)
    BY <1>3, <1>5 DEF KindOf, Doing
  <2>2. Go(t, "content")
    BY <1>5 DEF Log
  <2>3. task'[t].pc = "content" /\ task'[t].op = o /\ task'[t].name = n /\ task'[t].map = task[t].map
    BY <1>1, <1>2, <2>2, Going
  <2>4. /\ want[b] = [flavour |-> o.flavour, parent |-> None, kids |-> <<>>, content |-> n]
        /\ blocks[b] = n /\ task[t].map = n
        /\ object[n] = [flavour |-> o.flavour, parent |-> None, kids |-> n, content |-> 0]
        /\ list[n] = <<>>
    BY <1>1, <1>5, <2>1 DEF Setting
  <2>5. IsBlock(b) /\ object[blocks[b]].flavour = o.flavour /\ object[blocks[b]].parent = None
        /\ Children(b) = <<>>
    BY <2>4, <1>3 DEF IsBlock, Children
  <2>6. IsBlock(b)' /\ object'[blocks'[b]].flavour = o.flavour /\ object'[blocks'[b]].parent = None
        /\ Children(b)' = <<>>
    BY <2>5, <1>2 DEF IsBlock, Children
  <2>7. Setting(t)'
    BY <2>3, <2>4, <2>6, <1>1, <1>2 DEF Setting
  <2>8. Doing(t)' /\ task'[t] # Idle
    BY <2>1, <2>3, <2>7, <1>1, <1>4 DEF Doing
  <2>9. QED BY <2>8, <1>2, QuietMine
<1>6. CASE task[t].pc = "log"
  <2>1. task'[t] = Idle
    BY <1>2, <1>6, Ending DEF Log
  <2>2. CASE o.kind = "set"
    <3>1. Touched(task[t].op) = {b} /\ want[b] = Shown(b)
      BY <2>2, <1>1, <1>3, <1>6, Mind DEF Doing, Setting
    <3>2. QED BY <3>1, <2>1, <1>2, QuietMine
  <2>3. CASE o.kind \in {"insert", "take"}
    <3>1. Placing(t) /\ Touched(task[t].op) = {b, o.child}
      BY <2>3, <1>1, <1>3, Mind DEF Doing
    <3>2. /\ IsBlock(b) /\ want[o.child] = Shown(o.child)
          /\ want[b] = Showing(b, want[b].kids) /\ want[b].kids = Children(b)
      BY <3>1, <1>1, <1>6 DEF Placing
    <3>3. Shown(b) = Showing(b, Children(b))
      BY <3>2, <1>3, ShownIs
    <3>4. want[b] = Shown(b)
      BY <3>2, <3>3
    <3>5. QED BY <3>1, <3>2, <3>4, <2>1, <1>2, QuietMine
  <2>4. QED BY <2>2, <2>3, <1>1, <1>3, <1>6 DEF KindOf
<1>7. QED BY <1>3, <1>5, <1>6

LEMMA MindRemove ==
  ASSUME BlocksInv, BlocksInv', Arrays, Arrays', AsIs, NEW t \in Task, Writes(t), Clean(t),
         Drop(t) \/ Unlog(t)
  PROVE  Mine(t)
PROOF
<1>1. PICK b, o : b = task[t].op.block /\ o = task[t].op
  OBVIOUS
<1>2. Shape /\ want' = want /\ blocks \in [Block -> Name \cup {None}]
  BY DEF BlocksInv, Shape, Writes
<1>3. /\ Active(t) /\ Doing(t) /\ KindOf(task[t]) /\ b \in Block
  BY <1>1, Mind
<1>4. o.kind = "remove" /\ Removing(t) /\ Touched(task[t].op) = {b} /\ want[b] = None
  BY <1>1, <1>3, Mind DEF KindOf, Doing, Removing, Drop, Unlog
<1>5. Idle.pc = "idle"
  BY DEF Idle
<1>6. CASE Drop(t)
  <2>1. blocks' = [blocks EXCEPT ![b] = None] /\ Go(t, "unlog")
    BY <1>1, <1>6 DEF Drop
  <2>2. task'[t].pc = "unlog" /\ task'[t].op = o
    BY <1>1, <1>2, <2>1, Going
  <2>3. blocks'[b] = None /\ ~IsBlock(b)'
    BY <2>1, <1>2, <1>3 DEF IsBlock
  <2>4. Removing(t)'
    BY <2>2, <2>3, <1>1, <1>2, <1>4 DEF Removing
  <2>5. Doing(t)'
    BY <2>2, <2>4, <1>4 DEF Doing
  <2>6. QED BY <2>2, <2>3, <2>5, <1>4, <1>5 DEF Mine
<1>7. CASE Unlog(t)
  <2>1. task'[t] = Idle /\ UNCHANGED <<blocks, object, list>> /\ task[t].pc = "unlog"
    BY <1>2, <1>7, Ending DEF Unlog
  <2>2. blocks[b] = None
    BY <2>1, <1>1, <1>4 DEF Removing
  <2>3. Shown(b) = want[b]
    BY <2>2, <1>4 DEF Shown, IsBlock
  <2>4. QED BY <2>1, <2>3, <1>2, <1>4, QuietMine
<1>8. QED BY <1>6, <1>7

\* An insertion or a removal of a child that meets no other: its two blocks, their
\* maps, and the array it works on, which holds s.
Pair(t, b, c, s) ==
  /\ Placing(t) /\ b \in Block /\ c \in Block /\ b # c /\ IsBlock(b) /\ IsBlock(c)
  /\ Touched(task[t].op) = {b, c} /\ s \in Seq(Block) /\ Distinct(s) /\ Distinct(Children(c))
  /\ blocks[b] \in Name /\ blocks[c] \in Name /\ blocks[b] # blocks[c]
  /\ task[t].kids \in Name /\ list[task[t].kids] = s /\ Kids(task[t].kids) = s
  /\ LiveList(task[t].kids) /\ task[t].child = blocks[c] /\ LiveMap(blocks[c])
  /\ object[blocks[b]].kids = task[t].kids /\ object[blocks[c]].kids \in Name
  /\ object[blocks[c]].kids # task[t].kids

LEMMA MindPlacing ==
  ASSUME BlocksInv, Arrays, AsIs, NEW t \in Task, Clean(t), task[t].op.kind \in {"insert", "take"},
         NEW b, NEW c, NEW s, b = task[t].op.block, c = task[t].op.child, s = Children(b)
  PROVE  Pair(t, b, c, s)
PROOF
<1>1. /\ Active(t) /\ Doing(t) /\ task[t].op \in Op /\ b \in Block /\ Touched(task[t].op) = {b, c}
      /\ \A d \in Touched(task[t].op) : IsBlock(d) => Distinct(Children(d))
  BY Mind
<1>2. Placing(t)
  BY <1>1 DEF Doing
<1>3. c \in Block /\ c # b
  BY <1>1, Ops
<1>4. /\ IsBlock(b) /\ IsBlock(c)
      /\ task[t].kids = object[blocks[b]].kids /\ task[t].child = blocks[c]
  BY <1>2 DEF Placing
<1>5. /\ blocks[b] \in Name \cup {None}
      /\ object[blocks[b]].kids \in Name /\ LiveList(object[blocks[b]].kids)
      /\ Kids(object[blocks[b]].kids) = Children(b)
      /\ Children(b) \in Seq(Block)
  BY <1>1, <1>4, ShownIs
<1>6. /\ blocks[c] \in Name \cup {None}
      /\ object[blocks[c]].kids \in Name /\ LiveMap(blocks[c])
  BY <1>3, <1>4, ShownIs
<1>7. blocks[b] \in Name /\ blocks[c] \in Name /\ blocks[b] # None /\ blocks[c] # None
  BY <1>4, <1>5, <1>6 DEF IsBlock
<1>8. blocks[b] # blocks[c]
  BY <1>1, <1>3, <1>7 DEF BlocksInv, Owned
<1>9. object[blocks[c]].kids # object[blocks[b]].kids
  BY <1>4, <1>7, <1>8 DEF Arrays, IsBlock
<1>10. list[task[t].kids] = s
  BY <1>4 DEF Children
<1>11. Distinct(s) /\ Distinct(Children(c))
  BY <1>1, <1>4
<1>12. QED BY <1>1, <1>2, <1>3, <1>4, <1>5, <1>6, <1>7, <1>8, <1>9, <1>10, <1>11 DEF Pair

LEMMA MindAdopt ==
  ASSUME BlocksInv, BlocksInv', Arrays, Arrays', AsIs, NEW t \in Task, Writes(t), Clean(t), Adopt(t)
  PROVE  Mine(t)
PROOF
<1>1. PICK b, c, o, s : b = task[t].op.block /\ c = task[t].op.child /\ o = task[t].op /\ s = Children(b)
  OBVIOUS
<1>2. Shape /\ want' = want /\ object \in [Name -> Object]
  BY DEF BlocksInv, Shape, Writes
<1>3. o.kind \in {"insert", "take"} /\ task[t].op.kind \in {"insert", "take"}
      /\ task[t].pc \in {"adopt", "again"}
  BY <1>1, Mind DEF Adopt, KindOf
<1>4. /\ Placing(t) /\ b \in Block /\ c \in Block /\ b # c /\ IsBlock(b) /\ IsBlock(c)
      /\ Touched(task[t].op) = {b, c} /\ s \in Seq(Block) /\ Distinct(s) /\ Distinct(Children(c))
      /\ blocks[b] \in Name /\ blocks[c] \in Name /\ blocks[b] # blocks[c]
      /\ task[t].kids \in Name /\ list[task[t].kids] = s /\ Kids(task[t].kids) = s
      /\ LiveList(task[t].kids) /\ task[t].child = blocks[c] /\ LiveMap(blocks[c])
      /\ object[blocks[b]].kids = task[t].kids /\ object[blocks[c]].kids \in Name
      /\ object[blocks[c]].kids # task[t].kids
  <2>1. Pair(t, b, c, s)
    BY <1>1, <1>3, MindPlacing
  <2>2. QED BY <2>1 DEF Pair
<1>5. PICK m, k : m = blocks[b] /\ k = blocks[c]
  OBVIOUS
<1>6. /\ object' = Write(k, "parent", b) /\ UNCHANGED <<blocks, list>>
      /\ Go(t, IF task[t].pc = "adopt" THEN "find" ELSE "place")
  BY <1>1, <1>4, <1>5 DEF Adopt
<1>7. PICK pc : pc = IF task[t].pc = "adopt" THEN "find" ELSE "place"
  OBVIOUS
<1>8. /\ task'[t].pc = pc /\ task'[t].op = o /\ task'[t].kids = task[t].kids
      /\ task'[t].child = k
  BY <1>1, <1>2, <1>4, <1>5, <1>6, <1>7, Going
<1>9. object'[m] = object[m]
  BY <1>2, <1>4, <1>5, <1>6, WroteElse
<1>10. object'[k] = [flavour |-> object[k].flavour, parent |-> b,
                     kids |-> object[k].kids, content |-> object[k].content]
  <2>1. PICK x, v : x = object[k] /\ v = b
    OBVIOUS
  <2>2. Wrote(k, x, v)
    BY <1>2, <1>4, <1>5, <2>1, WroteThere
  <2>3. QED BY <1>6, <2>1, <2>2 DEF Wrote
<1>11. /\ object'[k].flavour = object[k].flavour /\ object'[k].parent = b
       /\ object'[k].kids = object[k].kids /\ object'[k].content = object[k].content
  BY <1>10
<1>12. IsBlock(b)' /\ IsBlock(c)' /\ Children(b)' = s /\ Children(c)' = Children(c)
  BY <1>1, <1>4, <1>5, <1>6, <1>9, <1>11 DEF IsBlock, Children
<1>13. Distinct(Children(b))' /\ Distinct(Children(c))'
  BY <1>4, <1>12 DEF Distinct
<1>14. want[c] = [flavour |-> object[k].flavour, parent |-> b,
                  kids |-> Children(c), content |-> object[k].content]
  <2>1. CASE task[t].pc = "adopt"
    BY <2>1, <1>1, <1>4, <1>5 DEF Placing
  <2>2. CASE task[t].pc # "adopt"
    <3>1. want[c] = Shown(c) /\ want[c].parent = b
      BY <2>2, <1>1, <1>4 DEF Placing
    <3>2. Shown(c) = Showing(c, Children(c))
      BY <1>4, ShownIs
    <3>3. object[k].parent = b
      BY <3>1, <3>2, <1>5 DEF Showing
    <3>4. QED BY <3>1, <3>2, <3>3, <1>5 DEF Showing
  <2>3. QED BY <2>1, <2>2
<1>15. want'[c] = Shown(c)'
  <2>1. Shown(c)' = Showing(c, Children(c))'
    BY <1>4, <1>12, ShownNext
  <2>2. blocks'[c] = k
    BY <1>5, <1>6
  <2>3. Showing(c, Children(c))' = want[c]
    BY <2>2, <1>11, <1>12, <1>14 DEF Showing
  <2>4. QED BY <2>1, <2>3, <1>2
<1>16. (want[b] = Showing(b, want[b].kids))' /\ want'[c].parent = b
  <2>1. want[b] = Showing(b, want[b].kids)
    BY <1>1, <1>4 DEF Placing
  <2>2. (want[b] = Showing(b, want[b].kids))'
    BY <2>1, <1>2, <1>5, <1>6, <1>9 DEF Showing
  <2>3. QED BY <2>2, <1>1, <1>2, <1>4 DEF Placing
<1>17. /\ pc = "find" => want[b].kids = Asked(o, Without(s, c))
       /\ pc = "find" /\ o.kind = "take" => Holds(s, c)
       /\ pc = "place" => want[b].kids = Asked(o, s) /\ ~Holds(s, c) /\ o.kind = "insert"
       /\ pc \in {"find", "place"}
  BY <1>1, <1>3, <1>4, <1>7 DEF Placing
<1>18. Placing(t)'
  <2>1. /\ task'[t].op = o /\ o.block = b /\ o.child = c /\ task'[t].pc = pc
        /\ task'[t].kids = object'[blocks'[b]].kids /\ task'[t].child = blocks'[c]
    BY <1>1, <1>4, <1>5, <1>6, <1>8, <1>9
  <2>2. pc # "adopt" /\ pc # "cut" /\ pc # "cutlog" /\ pc # "again" /\ pc # "put" /\ pc # "log"
    BY <1>17
  <2>3. QED BY <2>1, <2>2, <1>2, <1>12, <1>15, <1>16, <1>17 DEF Placing
<1>19. task'[t] # Idle /\ Doing(t)'
  BY <1>1, <1>3, <1>8, <1>17, <1>18 DEF Doing, Idle
<1>20. QED BY <1>1, <1>4, <1>13, <1>19 DEF Mine

\* Where the operation of y is as x, when its array holds r and is to hold `asked`.
Left(y, x, asked, r) ==
  LET c == y.op.child IN
  /\ x.pc # "adopt" /\ x.pc # "idle"
  /\ x.op = y.op /\ x.kids = y.kids /\ x.child = y.child
  /\ x.pc \in {"find", "cut"} => asked = Asked(x.op, Without(r, c))
  /\ x.pc = "find" /\ x.op.kind = "take" => Holds(r, c)
  /\ x.pc = "cut" => x.at \in 0..Len(r)-1 /\ r[x.at + 1] = c
  /\ x.pc \in {"cutlog", "again", "place", "put"} => asked = Asked(x.op, r) /\ ~Holds(r, c)
  /\ x.pc \in {"again", "place", "put", "log"} => x.op.kind = "insert"
  /\ x.pc = "put" => x.at = Place(r, x.op.where)
  /\ x.pc = "log" => asked = r

\* What a step on the children makes of the two blocks, and where it leaves the operation.
LEMMA PairMoves ==
  ASSUME BlocksInv, BlocksInv', Arrays, Arrays', NEW t \in Task,
         task[t].op.kind \in {"insert", "take"}, task[t].pc # "adopt",
         NEW b, NEW c, NEW s, b = task[t].op.block, c = task[t].op.child, Pair(t, b, c, s),
         UNCHANGED <<blocks, object, want>>,
         NEW r, list'[task[t].kids] = r, Distinct(r),
         \A n \in Name : n # task[t].kids => list'[n] = list[n],
         NEW x, task'[t] = x,
         (x = Idle /\ want[b].kids = r) \/ Left(task[t], x, want[b].kids, r)
  PROVE  Mine(t)
PROOF
<1>1. /\ Placing(t) /\ b \in Block /\ c \in Block /\ IsBlock(b) /\ IsBlock(c)
      /\ Touched(task[t].op) = {b, c} /\ Distinct(Children(c))
      /\ task[t].child = blocks[c]
      /\ object[blocks[b]].kids = task[t].kids /\ object[blocks[c]].kids \in Name
      /\ object[blocks[c]].kids # task[t].kids
  BY DEF Pair
<1>2. IsBlock(b)' /\ IsBlock(c)' /\ Children(b)' = r /\ Children(c)' = Children(c)
  BY <1>1 DEF IsBlock, Children
<1>3. Distinct(Children(b))' /\ Distinct(Children(c))'
  <2>1. Distinct(Children(b))'
    BY <1>2 DEF Distinct
  <2>2. Distinct(Children(c))'
    BY <1>1, <1>2 DEF Distinct
  <2>3. QED BY <2>1, <2>2
<1>4. /\ want[b] = Showing(b, want[b].kids) /\ want[c].parent = b
      /\ want[c] = Shown(c)
  BY <1>1 DEF Placing
<1>5. (want[b] = Showing(b, want[b].kids))'
  BY <1>4 DEF Showing
<1>6. Shown(c)' = want[c]
  <2>1. Shown(c) = Showing(c, Children(c))
    BY <1>1, ShownIs
  <2>2. Shown(c)' = Showing(c, Children(c))'
    BY <1>1, <1>2, ShownNext
  <2>3. Showing(c, Children(c))' = Showing(c, Children(c))
    BY <1>2 DEF Showing
  <2>4. QED BY <2>1, <2>2, <2>3, <1>4
<1>7. ASSUME want[b].kids = r PROVE Shown(b)' = want[b]
  <2>1. Shown(b)' = Showing(b, Children(b))'
    BY <1>1, <1>2, ShownNext
  <2>2. Showing(b, Children(b))' = want[b]
    BY <1>2, <1>5, <1>7 DEF Showing
  <2>3. QED BY <2>1, <2>2
<1>8. Idle.pc = "idle"
  BY DEF Idle
<1>9. CASE x = Idle /\ want[b].kids = r
  BY <1>1, <1>3, <1>6, <1>7, <1>9 DEF Mine
<1>10. CASE Left(task[t], x, want[b].kids, r)
  <2>0.     /\ x.pc # "adopt" /\ x.pc # "idle"
            /\ x.op = task[t].op /\ x.kids = task[t].kids /\ x.child = task[t].child
            /\ x.pc \in {"find", "cut"} => want[b].kids = Asked(x.op, Without(r, c))
            /\ x.pc = "find" /\ x.op.kind = "take" => Holds(r, c)
            /\ x.pc = "cut" => x.at \in 0..Len(r)-1 /\ r[x.at + 1] = c
            /\ x.pc \in {"cutlog", "again", "place", "put"} =>
                 want[b].kids = Asked(x.op, r) /\ ~Holds(r, c)
            /\ x.pc \in {"again", "place", "put", "log"} => x.op.kind = "insert"
            /\ x.pc = "put" => x.at = Place(r, x.op.where)
            /\ x.pc = "log" => want[b].kids = r
    BY <1>10 DEF Left
  <2>1. /\ task'[t].op.block = b /\ task'[t].op.child = c
        /\ task'[t].kids = object'[blocks'[b]].kids /\ task'[t].child = blocks'[c]
    BY <1>1, <2>0
  <2>2. Placing(t)'
    <3>1. want'[b] = want[b] /\ want'[c] = want[c]
      OBVIOUS
    <3>2. QED BY <2>1, <3>1, <1>2, <1>4, <1>5, <1>6, <2>0 DEF Placing
  <2>3. task'[t] # Idle /\ Doing(t)'
    BY <2>2, <1>8, <2>0 DEF Doing
  <2>4. QED BY <2>3, <1>1, <1>3, <1>8, <2>0 DEF Mine
<1>11. QED BY <1>9, <1>10

LEMMA MindFind ==
  ASSUME BlocksInv, BlocksInv', Arrays, Arrays', AsIs, NEW t \in Task, Writes(t), Clean(t), Find(t)
  PROVE  Mine(t)
PROOF
<1>1. PICK b, c, o, s : b = task[t].op.block /\ c = task[t].op.child /\ o = task[t].op /\ s = Children(b)
  OBVIOUS
<1>2. Shape /\ UNCHANGED <<blocks, object, list, want>> /\ task[t].pc = "find"
  BY DEF BlocksInv, Find, Writes
<1>3. o.kind \in {"insert", "take"} /\ task[t].op.kind \in {"insert", "take"}
  BY <1>1, <1>2, Mind DEF KindOf
<1>4. Pair(t, b, c, s)
  BY <1>1, <1>3, MindPlacing
<1>5. /\ Placing(t) /\ s \in Seq(Block) /\ Distinct(s) /\ list[task[t].kids] = s /\ Kids(task[t].kids) = s
  BY <1>4 DEF Pair
<1>6. want[b].kids = Asked(o, Without(s, c)) /\ (o.kind = "take" => Holds(s, c))
  BY <1>1, <1>2, <1>5 DEF Placing
<1>7. PICK i : i = PositionIn(s, c)
  OBVIOUS
<1>8. /\ Holds(s, c) => i \in 0..Len(s)-1 /\ s[i + 1] = c
      /\ ~Holds(s, c) => i = -1
  BY <1>5, <1>7, PositionIs
<1>9. IF i >= 0 THEN task' = [task EXCEPT ![t].at = i, ![t].pc = "cut"]
      ELSE IF o.kind = "take" THEN End(t) ELSE Go(t, "again")
  BY <1>1, <1>5, <1>7 DEF Find
<1>10. PICK x, y : x = task'[t] /\ y = task[t]
  OBVIOUS
<1>11. Left(y, x, want[b].kids, s)
  <2>1. CASE Holds(s, c)
    <3>1. Len(s) \in Nat
      BY <1>5
    <3>2. i >= 0
      BY <2>1, <1>8, <3>1
    <3>3. PICK pc : pc = "cut"
      OBVIOUS
    <3>4. task' = [task EXCEPT ![t].at = i, ![t].pc = pc]
      BY <3>2, <3>3, <1>9
    <3>5. /\ \A u \in Task : u # t => task'[u] = task[u]
          /\ task'[t].pc = pc /\ task'[t].op = task[t].op /\ task'[t].map = task[t].map
          /\ task'[t].name = task[t].name /\ task'[t].kids = task[t].kids
          /\ task'[t].child = task[t].child /\ task'[t].at = i
      BY <3>4, <1>2, GoingAt
    <3>6. x.pc = "cut" /\ x.op = o /\ x.kids = y.kids /\ x.child = y.child /\ x.at = i
          /\ y.op = o /\ o.child = c
      BY <3>3, <3>5, <1>1, <1>10
    <3>7. QED BY <3>6, <2>1, <1>6, <1>8 DEF Left
  <2>2. CASE ~Holds(s, c)
    <3>1. Go(t, "again") /\ o.kind = "insert"
      BY <2>2, <1>3, <1>6, <1>8, <1>9
    <3>2. x.pc = "again" /\ x.op = o /\ x.kids = y.kids /\ x.child = y.child /\ y.op = o /\ o.child = c
      BY <3>1, <1>1, <1>2, <1>10, Going
    <3>3. want[b].kids = Asked(o, s)
      BY <2>2, <1>5, <1>6, WithoutNone
    <3>4. QED BY <3>1, <3>2, <3>3, <2>2 DEF Left
  <2>3. QED BY <2>1, <2>2
<1>12. /\ list'[task[t].kids] = s /\ \A n \in Name : n # task[t].kids => list'[n] = list[n]
       /\ task[t].pc # "adopt" /\ UNCHANGED <<blocks, object, want>>
  BY <1>2, <1>5
<1>13. QED BY <1>1, <1>3, <1>4, <1>5, <1>10, <1>11, <1>12, PairMoves

LEMMA MindCutLog ==
  ASSUME BlocksInv, BlocksInv', Arrays, Arrays', AsIs, NEW t \in Task, Writes(t), Clean(t),
         CutLog(t) \/ FindPlace(t)
  PROVE  Mine(t)
PROOF
<1>1. PICK b, c, o, s : b = task[t].op.block /\ c = task[t].op.child /\ o = task[t].op /\ s = Children(b)
  OBVIOUS
<1>2. Shape /\ UNCHANGED <<blocks, object, list, want>> /\ task[t].pc \in {"cutlog", "place"}
  BY DEF BlocksInv, CutLog, FindPlace, Writes
<1>3. o.kind \in {"insert", "take"} /\ task[t].op.kind \in {"insert", "take"}
  BY <1>1, <1>2, Mind DEF KindOf
<1>4. Pair(t, b, c, s)
  BY <1>1, <1>3, MindPlacing
<1>5. /\ Placing(t) /\ s \in Seq(Block) /\ Distinct(s) /\ list[task[t].kids] = s /\ Kids(task[t].kids) = s
  BY <1>4 DEF Pair
<1>6. want[b].kids = Asked(o, s) /\ ~Holds(s, c)
  BY <1>1, <1>2, <1>5 DEF Placing
<1>7. PICK x, y : x = task'[t] /\ y = task[t]
  OBVIOUS
<1>8. (x = Idle /\ want[b].kids = s) \/ Left(y, x, want[b].kids, s)
  <2>1. CASE CutLog(t) /\ o.kind = "take"
    <3>1. End(t)
      BY <2>1, <1>1 DEF CutLog
    <3>2. QED BY <3>1, <2>1, <1>2, <1>6, <1>7, Ending DEF Asked
  <2>2. CASE CutLog(t) /\ o.kind = "insert"
    <3>1. Go(t, "again")
      BY <2>2, <1>1 DEF CutLog
    <3>2. x.pc = "again" /\ x.op = o /\ x.kids = y.kids /\ x.child = y.child /\ y.op = o /\ o.child = c
      BY <3>1, <1>1, <1>2, <1>7, Going
    <3>3. QED BY <3>2, <2>2, <1>6 DEF Left
  <2>3. CASE FindPlace(t)
    <3>1. o.kind = "insert"
      BY <2>3, <1>1, <1>5 DEF Placing, FindPlace
    <3>2. PICK i, pc : i = Place(s, o.where) /\ pc = "put"
      OBVIOUS
    <3>3. task' = [task EXCEPT ![t].at = i, ![t].pc = pc]
      BY <2>3, <3>2, <1>1, <1>5 DEF FindPlace
    <3>4. /\ \A u \in Task : u # t => task'[u] = task[u]
          /\ task'[t].pc = pc /\ task'[t].op = task[t].op /\ task'[t].map = task[t].map
          /\ task'[t].name = task[t].name /\ task'[t].kids = task[t].kids
          /\ task'[t].child = task[t].child /\ task'[t].at = i
      BY <3>3, <1>2, GoingAt
    <3>5. x.pc = "put" /\ x.op = o /\ x.kids = y.kids /\ x.child = y.child /\ x.at = i
          /\ y.op = o /\ o.child = c
      BY <3>2, <3>4, <1>1, <1>7
    <3>6. QED BY <3>1, <3>2, <3>5, <1>6 DEF Left
  <2>4. QED BY <2>1, <2>2, <2>3, <1>3
<1>9. /\ list'[task[t].kids] = s /\ \A n \in Name : n # task[t].kids => list'[n] = list[n]
      /\ task[t].pc # "adopt" /\ UNCHANGED <<blocks, object, want>>
  BY <1>2, <1>5
<1>10. QED BY <1>1, <1>3, <1>4, <1>5, <1>7, <1>8, <1>9, PairMoves

LEMMA MindCut ==
  ASSUME BlocksInv, BlocksInv', Arrays, Arrays', AsIs, NEW t \in Task, Writes(t), Clean(t), Cut(t)
  PROVE  Mine(t)
PROOF
<1>1. PICK b, c, o, s : b = task[t].op.block /\ c = task[t].op.child /\ o = task[t].op /\ s = Children(b)
  OBVIOUS
<1>2. Shape /\ UNCHANGED <<blocks, object, want>> /\ task[t].pc = "cut"
  BY DEF BlocksInv, Cut, Writes
<1>3. o.kind \in {"insert", "take"} /\ task[t].op.kind \in {"insert", "take"}
  BY <1>1, <1>2, Mind DEF KindOf
<1>4. Pair(t, b, c, s)
  BY <1>1, <1>3, MindPlacing
<1>5. /\ Placing(t) /\ s \in Seq(Block) /\ Distinct(s) /\ list[task[t].kids] = s /\ Kids(task[t].kids) = s
      /\ task[t].kids \in Name /\ Len(s) \in Nat
  BY <1>4 DEF Pair
<1>6. PICK i, a : i = task[t].at /\ a = task[t].kids
  OBVIOUS
<1>7. want[b].kids = Asked(o, Without(s, c)) /\ i \in 0..Len(s)-1 /\ s[i + 1] = c
  BY <1>1, <1>2, <1>5, <1>6 DEF Placing
<1>8. i \in Nat /\ i < Len(s) /\ i + 1 \in 1..Len(s)
  BY <1>5, <1>7
<1>9. PICK r : r = RemoveAt(s, i + 1)
  OBVIOUS
<1>10. list' = [list EXCEPT ![a] = r] /\ Go(t, "cutlog")
  BY <1>2, <1>5, <1>6, <1>8, <1>9 DEF Cut
<1>11. r \in Seq(Block) /\ Distinct(r) /\ ~Holds(r, c)
  <2>1. r \in Seq(Block) /\ Distinct(r) /\ ~Holds(r, s[i + 1])
    BY <1>5, <1>8, <1>9, Removed
  <2>2. QED BY <2>1, <1>7
<1>12. Without(s, c) = r
  BY <1>5, <1>7, <1>8, <1>9, WithoutAt
<1>13. PICK x, y : x = task'[t] /\ y = task[t]
  OBVIOUS
<1>14. Left(y, x, want[b].kids, r)
  <2>1. x.pc = "cutlog" /\ x.op = o /\ x.kids = y.kids /\ x.child = y.child /\ y.op = o /\ o.child = c
    BY <1>1, <1>2, <1>10, <1>13, Going
  <2>2. QED BY <2>1, <1>7, <1>11, <1>12 DEF Left
<1>15. /\ list'[task[t].kids] = r /\ \A n \in Name : n # task[t].kids => list'[n] = list[n]
       /\ task[t].pc # "adopt"
  BY <1>2, <1>5, <1>6, <1>10 DEF Arrays
<1>16. QED BY <1>1, <1>2, <1>3, <1>4, <1>11, <1>13, <1>14, <1>15, PairMoves

LEMMA MindPut ==
  ASSUME BlocksInv, BlocksInv', Arrays, Arrays', AsIs, NEW t \in Task, Writes(t), Clean(t), Put(t)
  PROVE  Mine(t)
PROOF
<1>1. PICK b, c, o, s : b = task[t].op.block /\ c = task[t].op.child /\ o = task[t].op /\ s = Children(b)
  OBVIOUS
<1>2. Shape /\ UNCHANGED <<blocks, object, want>> /\ task[t].pc = "put"
  BY DEF BlocksInv, Put, Writes
<1>3. o.kind \in {"insert", "take"} /\ task[t].op.kind \in {"insert", "take"}
  BY <1>1, <1>2, Mind DEF KindOf
<1>4. Pair(t, b, c, s)
  BY <1>1, <1>3, MindPlacing
<1>5. /\ Placing(t) /\ s \in Seq(Block) /\ Distinct(s) /\ list[task[t].kids] = s /\ Kids(task[t].kids) = s
      /\ task[t].kids \in Name /\ Len(s) \in Nat /\ LiveList(task[t].kids) /\ c \in Block
  BY <1>4 DEF Pair
<1>6. PICK i, a : i = task[t].at /\ a = task[t].kids
  OBVIOUS
<1>7. want[b].kids = Asked(o, s) /\ ~Holds(s, c) /\ i = Place(s, o.where) /\ o.kind = "insert"
  BY <1>1, <1>2, <1>5, <1>6 DEF Placing
<1>8. o.where \in Where
  BY <1>1, <1>7, Mind, OpWhere
<1>9. PICK r : r = InsertAt(s, i + 1, c)
  OBVIOUS
<1>10. i \in 0..Len(s) /\ PutAmong(s, c, o.where) = r
  BY <1>5, <1>7, <1>8, <1>9, PutIs
<1>11. list' = [list EXCEPT ![a] = r] /\ Go(t, "log")
  BY <1>1, <1>2, <1>5, <1>6, <1>9, <1>10 DEF Put
<1>12. r \in Seq(Block) /\ Distinct(r)
  BY <1>5, <1>7, <1>9, <1>10, Inserted
<1>13. want[b].kids = r
  <2>1. Asked(o, s) = PutAmong(s, o.child, o.where)
    BY <1>7 DEF Asked
  <2>2. o.child = c
    BY <1>1
  <2>3. QED BY <2>1, <2>2, <1>7, <1>10
<1>14. PICK x, y : x = task'[t] /\ y = task[t]
  OBVIOUS
<1>15. Left(y, x, want[b].kids, r)
  <2>1. x.pc = "log" /\ x.op = o /\ x.kids = y.kids /\ x.child = y.child /\ y.op = o /\ o.child = c
    BY <1>1, <1>2, <1>11, <1>14, Going
  <2>2. QED BY <2>1, <1>7, <1>13 DEF Left
<1>16. /\ list'[task[t].kids] = r /\ \A n \in Name : n # task[t].kids => list'[n] = list[n]
       /\ task[t].pc # "adopt"
  BY <1>2, <1>5, <1>6, <1>11 DEF Arrays
<1>17. QED BY <1>1, <1>2, <1>3, <1>4, <1>12, <1>14, <1>15, <1>16, PairMoves

LEMMA StepMine ==
  ASSUME BlocksInv, BlocksInv', Arrays, Arrays', AsIs, NEW t \in Task, Writes(t), Clean(t), Step(t)
  PROVE  Mine(t)
PROOF BY MindCreate, MindContent, MindLog, MindRemove, MindAdopt, MindFind, MindCut, MindCutLog, MindPut
      DEF Step

-----------------------------------------------------------------------------
(* An operation starts: what it was promised.                              *)

LEMMA MixingIs ==
  ASSUME NEW t \in Task, NEW o \in Op, Begin(t, o)
  PROVE  mixed' = IF Met(o) # {} \/ Touched(o) \cap mixed # {}
                  THEN (mixed \cup Touched(o)) \cup UNION {Touched(task[u].op) : u \in Met(o)}
                  ELSE mixed
PROOF BY DEF Begin, Met

IsMap(w) == w = [b \in Block |-> w[b]]

\* A promise is about the blocks that the operation touches.
LEMMA Promised ==
  ASSUME NEW o \in Op, NEW w, IsMap(w), NEW n, NEW v, v = Promise(w, o, n)
  PROVE  IsMap(v) /\ \A b \in Block : b \notin Touched(o) => v[b] = w[b]
PROOF
<1>0. w = [b \in Block |-> w[b]]
  BY DEF IsMap
<1>1. /\ o.block \in Block /\ o.block \in Touched(o) /\ o.kind \in {"set", "remove", "insert", "take"}
      /\ o.kind \in {"insert", "take"} => o.child \in Touched(o)
  BY Ops DEF Touched
<1>2. PICK r : r = w[o.block]
  OBVIOUS
<1>3. PICK c : c = w[o.child]
  OBVIOUS
<1>4. CASE o.kind = "set"
  <2>1. PICK x : x = IF r # None THEN [r EXCEPT !.content = n]
                     ELSE [flavour |-> o.flavour, parent |-> None, kids |-> <<>>, content |-> n]
    OBVIOUS
  <2>2. v = [w EXCEPT ![o.block] = x]
    BY <2>1, <1>2, <1>4 DEF Promise
  <2>3. v = [b \in Block |-> IF b = o.block THEN x ELSE w[b]]
    BY <1>0, <2>2
  <2>4. QED BY <2>3, <1>1 DEF IsMap
<1>5. CASE o.kind = "remove"
  <2>1. v = [w EXCEPT ![o.block] = None]
    BY <1>5 DEF Promise
  <2>2. v = [b \in Block |-> IF b = o.block THEN None ELSE w[b]]
    BY <1>0, <2>1
  <2>3. QED BY <2>2, <1>1 DEF IsMap
<1>6. CASE o.kind = "insert"
  <2>1. PICK x : x = [r EXCEPT !.kids = PutAmong(Without(@, o.child), o.child, o.where)]
    OBVIOUS
  <2>2. PICK y : y = [w EXCEPT ![o.block] = x]
    OBVIOUS
  <2>3. PICK z : z = [y[o.child] EXCEPT !.parent = o.block]
    OBVIOUS
  <2>4. v = IF r = None \/ c = None THEN w ELSE [y EXCEPT ![o.child] = z]
    BY <2>1, <2>2, <2>3, <1>2, <1>3, <1>6 DEF Promise
  <2>5. y = [b \in Block |-> IF b = o.block THEN x ELSE w[b]]
    BY <1>0, <2>2
  <2>6. [y EXCEPT ![o.child] = z] = [b \in Block |-> IF b = o.child THEN z ELSE y[b]]
    BY <2>5
  <2>7. CASE v = w
    BY <1>0, <2>7 DEF IsMap
  <2>8. CASE v = [b \in Block |-> IF b = o.child THEN z ELSE y[b]]
    BY <2>5, <2>8, <1>1, <1>6 DEF IsMap
  <2>9. QED BY <2>4, <2>6, <2>7, <2>8
<1>7. CASE o.kind = "take"
  <2>1. PICK x : x = [r EXCEPT !.kids = Without(@, o.child)]
    OBVIOUS
  <2>2. PICK y : y = [w EXCEPT ![o.block] = x]
    OBVIOUS
  <2>3. PICK z : z = [y[o.child] EXCEPT !.parent = o.block]
    OBVIOUS
  <2>4. v = IF r = None \/ c = None \/ \A i \in DOMAIN r.kids : r.kids[i] # o.child
            THEN w ELSE [y EXCEPT ![o.child] = z]
    BY <2>1, <2>2, <2>3, <1>2, <1>3, <1>7 DEF Promise
  <2>5. y = [b \in Block |-> IF b = o.block THEN x ELSE w[b]]
    BY <1>0, <2>2
  <2>6. [y EXCEPT ![o.child] = z] = [b \in Block |-> IF b = o.child THEN z ELSE y[b]]
    BY <2>5
  <2>7. CASE v = w
    BY <1>0, <2>7 DEF IsMap
  <2>8. CASE v = [b \in Block |-> IF b = o.child THEN z ELSE y[b]]
    BY <2>5, <2>8, <1>1, <1>7 DEF IsMap
  <2>9. QED BY <2>4, <2>6, <2>7, <2>8
<1>8. QED BY <1>1, <1>4, <1>5, <1>6, <1>7

\* What is promised of a block that is there.
LEMMA PromisedSet ==
  ASSUME NEW o \in Op, o.kind = "set", NEW w, IsMap(w), NEW n, NEW v, v = Promise(w, o, n),
         NEW r, r = w[o.block], r \in Record \cup {None}
  PROVE  v[o.block] = IF r = None
                      THEN [flavour |-> o.flavour, parent |-> None, kids |-> <<>>, content |-> n]
                      ELSE [flavour |-> r.flavour, parent |-> r.parent, kids |-> r.kids, content |-> n]
PROOF
<1>1. o.block \in Block
  BY Ops
<1>2. PICK x : x = IF r # None THEN [r EXCEPT !.content = n]
                   ELSE [flavour |-> o.flavour, parent |-> None, kids |-> <<>>, content |-> n]
  OBVIOUS
<1>3. v = [w EXCEPT ![o.block] = x]
  BY <1>2 DEF Promise
<1>4. v[o.block] = x
  BY <1>1, <1>3 DEF IsMap
<1>5. ASSUME r # None
      PROVE  [r EXCEPT !.content = n] = [flavour |-> r.flavour, parent |-> r.parent, kids |-> r.kids, content |-> n]
  <2>1. r \in Record
    BY <1>5
  <2>2. r = [flavour |-> r.flavour, parent |-> r.parent, kids |-> r.kids, content |-> r.content]
    BY <2>1 DEF Record
  <2>3. QED BY <2>2
<1>6. QED BY <1>2, <1>4, <1>5

LEMMA PromisedPair ==
  ASSUME NEW o \in Op, o.kind \in {"insert", "take"}, NEW w, IsMap(w), NEW n,
         NEW v, v = Promise(w, o, n),
         NEW r \in Record, r = w[o.block], NEW c \in Record, c = w[o.child],
         o.kind = "take" => Holds(r.kids, o.child)
  PROVE  /\ v[o.block] = [flavour |-> r.flavour, parent |-> r.parent,
                          kids |-> Asked(o, Without(r.kids, o.child)), content |-> r.content]
         /\ v[o.child] = [flavour |-> c.flavour, parent |-> o.block, kids |-> c.kids,
                          content |-> c.content]
PROOF
<1>1. o.block \in Block /\ o.child \in Block /\ o.child # o.block
  BY Ops
<1>2. r # None /\ c # None
  BY NoneAssumption
<1>3. PICK k : k = Asked(o, Without(r.kids, o.child))
  OBVIOUS
<1>4. PICK x : x = [r EXCEPT !.kids = k]
  OBVIOUS
<1>5. PICK z : z = [c EXCEPT !.parent = o.block]
  OBVIOUS
<1>6. v = [w EXCEPT ![o.block].kids = k, ![o.child].parent = o.block]
  <2>1. CASE o.kind = "insert"
    BY <2>1, <1>2, <1>3 DEF Promise, Asked
  <2>2. CASE o.kind = "take"
    BY <2>2, <1>2, <1>3 DEF Promise, Asked, Holds
  <2>3. QED BY <2>1, <2>2
<1>7. PICK y : y = [w EXCEPT ![o.block] = x]
  OBVIOUS
<1>8. y[o.child] = c /\ y[o.block] = x /\ y = [b \in Block |-> y[b]]
  BY <1>1, <1>7 DEF IsMap
<1>9. v = [y EXCEPT ![o.child] = z]
  BY <1>4, <1>5, <1>6, <1>7, <1>8
<1>10. v[o.block] = x /\ v[o.child] = z
  BY <1>1, <1>8, <1>9
<1>11. x = [flavour |-> r.flavour, parent |-> r.parent, kids |-> k, content |-> r.content]
  BY <1>4 DEF Record
<1>12. z = [flavour |-> c.flavour, parent |-> o.block, kids |-> c.kids, content |-> c.content]
  BY <1>5 DEF Record
<1>13. QED BY <1>3, <1>10, <1>11, <1>12

\* A block shows a record.
LEMMA ShownRecord ==
  ASSUME BlocksInv, Arrays, NEW b \in Block
  PROVE  /\ IsBlock(b) => Shown(b) \in Record /\ Shown(b) # None
         /\ ~IsBlock(b) => Shown(b) = None
PROOF
<1>1. CASE IsBlock(b)
  <2>1. blocks[b] # None /\ object[blocks[b]] \in Object /\ Children(b) \in Seq(Block)
        /\ Shown(b) = Showing(b, Children(b))
    <3>1. blocks[b] # None
      BY <1>1 DEF IsBlock
    <3>2. QED BY <3>1, <1>1, ShownIs
  <2>2. Showing(b, Children(b)) \in Record
    BY <2>1 DEF Showing, Record, Object
  <2>3. QED BY <2>1, <2>2, <1>1, NoneAssumption
<1>2. CASE ~IsBlock(b)
  BY <1>2 DEF Shown
<1>3. QED BY <1>1, <1>2

LEMMA BeginArrays ==
  ASSUME BlocksInv, Arrays, NEW t \in Task, NEW o \in Op, Begin(t, o)
  PROVE  Arrays'
PROOF
<1>1. /\ started < MaxOps /\ started' = started + 1 /\ UNCHANGED <<blocks, object, list>>
      /\ ~Active(t)
      /\ FirstStep(o) = "idle" => task' = task
  BY DEF Begin, Active
<1>2. PICK n : n = started + 1
  OBVIOUS
<1>3. /\ n \in 1..MaxOps /\ n \in Name /\ n \notin Old /\ n # None /\ None \notin Name
      /\ Old' = Old \cup {n}
  <2>1. started \in Nat /\ started + 1 \in 1..MaxOps /\ \A k \in Old \cup {None} : k # started + 1
    <3>1. None \in Old \cup {None}
      OBVIOUS
    <3>2. QED BY <3>1, <1>1, NextName
  <2>2. QED BY <2>1, <1>1, <1>2, Names DEF Old
<1>4. Unused(n) /\ Unmade(n) /\ \A b \in Block : blocks[b] # n
  BY <1>3 DEF Arrays, BlocksInv, Named
<1>5. /\ o.block \in Block /\ o.kind \in {"set", "remove", "insert", "take"}
      /\ o.kind \in {"insert", "take"} => o.child \in Block
      /\ blocks \in [Block -> Name \cup {None}] /\ object \in [Name -> Object]
  BY Ops DEF BlocksInv, Shape
<1>6. PICK x : x = task'[t]
  OBVIOUS
<1>7. /\ \A u \in Task : u # t => task'[u] = task[u]
      /\ \/ x = task[t] /\ task' = task /\ task[t] = Idle
         \/ /\ x.op = o /\ x.pc = FirstStep(o) /\ x.map = blocks[o.block] /\ x.name = n /\ x.at = 0
            /\ x.kids = IF IsBlock(o.block) THEN object[blocks[o.block]].kids ELSE None
            /\ x.child = IF o.kind \in {"insert", "take"} THEN blocks[o.child] ELSE None
  <2>1. CASE FirstStep(o) = "idle"
    BY <2>1, <1>1, <1>6 DEF BlocksInv, Kinds
  <2>2. CASE FirstStep(o) # "idle"
    BY <2>2, <1>2, <1>6, BeginMakes
  <2>3. QED BY <2>1, <2>2
<1>8. Idle.kids = None /\ Idle.child = None /\ Idle.pc = "idle" /\ Idle.at = 0
  BY DEF Idle
<1>9. IsBlock(o.block) => blocks[o.block] \in Name /\ object[blocks[o.block]].kids # None
  BY <1>5 DEF IsBlock
<1>10. \A k \in Name : Unused(k) => Unused(k)'
  <2> SUFFICES ASSUME NEW k \in Name, Unused(k) PROVE Unused(k)'
    OBVIOUS
  <2>1. x.kids # k
    BY <1>3, <1>7, <1>8, <1>9 DEF Unused
  <2>2. QED BY <2>1, <1>1, <1>6, <1>7 DEF Unused
<1>11. \A k \in Name : Unmade(k) /\ (\A b \in Block : blocks[b] # k) => Unmade(k)'
  <2> SUFFICES ASSUME NEW k \in Name, Unmade(k), \A b \in Block : blocks[b] # k PROVE Unmade(k)'
    OBVIOUS
  <2>1. x.child # k
    BY <1>3, <1>5, <1>7, <1>8
  <2>2. QED BY <2>1, <1>1, <1>6, <1>7 DEF Unmade
<1>12. \A k \in Name : k \notin Old' => Unused(k)' /\ Unmade(k)'
  <2> SUFFICES ASSUME NEW k \in Name, k \notin Old PROVE Unused(k)' /\ Unmade(k)'
    BY <1>3
  <2>1. Unused(k) /\ Unmade(k) /\ \A b \in Block : blocks[b] # k
    BY <1>3 DEF Arrays, BlocksInv, Named
  <2>2. QED BY <2>1, <1>10, <1>11
<1>13. FirstStep(o) \notin {"get", "flavour", "children", "again", "place", "put"}
       /\ (FirstStep(o) = "make" => ~IsBlock(o.block))
  BY <1>5, FirstSteps DEF FirstStep
<1>14. /\ \A m \in Name : object[m].kids = x.kids /\ m # x.map => x.kids = None
       /\ x.pc \in {"make", "get"} => x.kids = None
       /\ \A b \in Block : blocks[b] = x.child /\ blocks[b] # None =>
            x.op.kind \in {"insert", "take"} /\ b = x.op.child
       /\ x.pc \in {"make", "get", "flavour", "children"} => x.name = n /\ x.pc = "make"
       /\ x.at \in Nat
       /\ x.pc \in {"again", "place", "put"} => x.op.kind = "insert"
  <2>1. CASE x = Idle
    BY <2>1, <1>8
  <2>2. CASE x # Idle
    <3>1. /\ x.op = o /\ x.pc = FirstStep(o) /\ x.map = blocks[o.block] /\ x.name = n /\ x.at = 0
          /\ x.kids = IF IsBlock(o.block) THEN object[blocks[o.block]].kids ELSE None
          /\ x.child = IF o.kind \in {"insert", "take"} THEN blocks[o.child] ELSE None
      BY <2>2, <1>7
    <3>2. \A m \in Name : object[m].kids = x.kids /\ m # x.map => x.kids = None
      BY <3>1, <1>9 DEF Arrays
    <3>3. \A b \in Block : blocks[b] = x.child /\ blocks[b] # None =>
            x.op.kind \in {"insert", "take"} /\ b = x.op.child
      BY <3>1, <1>5 DEF BlocksInv, Owned
    <3>4. QED BY <3>1, <3>2, <3>3, <1>13
  <2>3. QED BY <2>1, <2>2
<1>15. ASSUME NEW u \in Task, u # t
       PROVE  /\ task'[u].pc \in {"make", "get", "flavour", "children"} => Unused(task[u].name)'
              /\ task'[u].pc = "make" => Unmade(task[u].name)'
  <2>1. task'[u] = task[u]
    BY <1>7, <1>15
  <2>2. PICK k : k = task[u].name
    OBVIOUS
  <2>3. task[u].pc # "idle" => k \in Name
    BY <2>2, Own, Names DEF Active
  <2>4. task[u].pc \in {"make", "get", "flavour", "children"} => Unused(k)
    BY <2>2 DEF Arrays
  <2>5. task[u].pc = "make" => Unmade(k) /\ \A b \in Block : blocks[b] # k
    BY <2>2 DEF Arrays, BlocksInv, Named
  <2>6. /\ task[u].pc \in {"make", "get", "flavour", "children"} => Unused(k)'
        /\ task[u].pc = "make" => Unmade(k)'
    BY <2>3, <2>4, <2>5, <1>10, <1>11
  <2>7. task'[u].name = k
    BY <2>1, <2>2
  <2>8. QED BY <2>1, <2>6, <2>7 DEF Unused, Unmade
<1>16. ASSUME x.pc \in {"make", "get", "flavour", "children"}
       PROVE  Unused(task[t].name)' /\ Unmade(task[t].name)'
  <2>1. Unused(n)' /\ Unmade(n)' /\ task'[t].name = n
    BY <1>3, <1>4, <1>6, <1>10, <1>11, <1>14, <1>16
  <2>2. QED BY <2>1 DEF Unused, Unmade
<1>17. list' \in [Name -> Seq(Block)]
       /\ \A m, k \in Name : object'[m].kids = object'[k].kids /\ m # k => object'[m].kids = None
  BY <1>1 DEF Arrays
<1>18. ASSUME NEW u \in Task
       PROVE  /\ \A m \in Name : object'[m].kids = task'[u].kids /\ m # task'[u].map => task'[u].kids = None
              /\ task'[u].pc \in {"make", "get"} => task'[u].kids = None
              /\ \A b \in Block : blocks'[b] = task'[u].child /\ blocks'[b] # None =>
                   task'[u].op.kind \in {"insert", "take"} /\ b = task'[u].op.child
              /\ task'[u].at \in Nat
              /\ task'[u].pc \in {"again", "place", "put"} => task'[u].op.kind = "insert"
  <2>1. CASE u = t
    BY <2>1, <1>1, <1>6, <1>14
  <2>2. CASE u # t
    BY <2>2, <1>1, <1>7 DEF Arrays
  <2>3. QED BY <2>1, <2>2
<1>19. ASSUME NEW u \in Task
       PROVE  /\ task'[u].pc \in {"make", "get", "flavour", "children"} => Unused(task[u].name)'
              /\ task'[u].pc = "make" => Unmade(task[u].name)'
  <2>1. CASE u = t
    BY <2>1, <1>6, <1>16
  <2>2. CASE u # t
    BY <2>2, <1>15
  <2>3. QED BY <2>1, <2>2
<1>20. QED BY <1>12, <1>17, <1>18, <1>19 DEF Arrays

\* What an operation starts from, which neither meets another nor comes upon blocks
\* that are open.
LEMMA BeginClean ==
  ASSUME BlocksInv, Arrays, AsIs, NEW t \in Task, NEW o \in Op, Begin(t, o), NEW d \in Touched(o),
         d \notin mixed'
  PROVE  /\ mixed' = mixed /\ Touched(o) \subseteq Block \ mixed
         /\ \A u \in Task : Active(u) => Touched(task[u].op) \cap Touched(o) = {}
         /\ \A b \in Touched(o) : /\ Untouched(b) /\ Shown(b) = want[b]
                                  /\ ~IsBlock(b) => blocks[b] = None
PROOF
<1>1. mixed' = IF Met(o) # {} \/ Touched(o) \cap mixed # {}
               THEN (mixed \cup Touched(o)) \cup UNION {Touched(task[u].op) : u \in Met(o)}
               ELSE mixed
  BY MixingIs
<1>2. mixed' = mixed /\ Met(o) = {} /\ Touched(o) \cap mixed = {}
  BY <1>1
<1>3. Touched(o) \subseteq Block
  BY Ops
<1>4. \A u \in Task : Active(u) => Touched(task[u].op) \cap Touched(o) = {}
  BY <1>2 DEF Met, Active
<1>5. ASSUME NEW b \in Touched(o)
      PROVE  Untouched(b) /\ Shown(b) = want[b] /\ (~IsBlock(b) => blocks[b] = None)
  <2>1. Untouched(b)
    BY <1>4 DEF Untouched, Active
  <2>2. Shown(b) = want[b]
    BY <2>1, <1>2, <1>3 DEF AsIs
  <2>3. ASSUME ~IsBlock(b), blocks[b] # None PROVE FALSE
    <3>1. PICK u \in Task : /\ task[u].op # None /\ task[u].op.kind = "set" /\ task[u].op.block = b
                            /\ \/ task[u].pc = "get"
                               \/ task[u].pc \in {"flavour", "children"} /\ task[u].map = blocks[b]
      BY <2>3, <1>3 DEF BlocksInv, NoHalfBlock
    <3>2. task[u].pc # "idle" /\ b \in Touched(task[u].op)
      BY <3>1 DEF Touched
    <3>3. QED BY <3>2, <2>1 DEF Untouched
  <2>4. QED BY <2>1, <2>2, <2>3
<1>6. QED BY <1>2, <1>3, <1>4, <1>5

\* Where it is after that.
LEMMA BeginDoing ==
  ASSUME BlocksInv, BlocksInv', Arrays, Arrays', AsIs, NEW t \in Task, NEW o \in Op, Begin(t, o),
         FirstStep(o) # "idle",
         \A b \in Touched(o) : Shown(b) = want[b] /\ (~IsBlock(b) => blocks[b] = None)
  PROVE  Doing(t)'
PROOF
<1>1. UNCHANGED <<blocks, object, list>> /\ started < MaxOps
  BY DEF Begin
<1>2. PICK n, x, b, v : n = started + 1 /\ x = task'[t] /\ b = o.block /\ v = want'
  OBVIOUS
<1>3. /\ x.op = o /\ x.pc = FirstStep(o) /\ x.map = blocks[b] /\ x.name = n /\ x.at = 0
      /\ x.kids = IF IsBlock(b) THEN object[blocks[b]].kids ELSE None
      /\ x.child = IF o.kind \in {"insert", "take"} THEN blocks[o.child] ELSE None
  BY <1>2, BeginMakes
<1>4. /\ b \in Block /\ b \in Touched(o) /\ o.kind \in {"set", "remove", "insert", "take"}
      /\ o.kind \in {"insert", "take"} => o.child \in Block /\ o.child \in Touched(o) /\ o.child # b
  BY <1>2, Ops DEF Touched
<1>5. IsMap(want) /\ v = Promise(want, o, n)
  BY <1>2 DEF AsIs, Begin, IsMap
<1>6. \A d \in Block : /\ IsBlock(d)' <=> IsBlock(d)
                       /\ Shown(d)' = Shown(d)
                       /\ IsBlock(d) => Children(d)' = Children(d)
  BY <1>1, StillShown
<1>7. \A d \in Touched(o) : /\ IsBlock(d) => /\ Shown(d) \in Record /\ Shown(d) # None
                                             /\ Shown(d) = Showing(d, Children(d))
                            /\ ~IsBlock(d) => Shown(d) = None
  <2> SUFFICES ASSUME NEW d \in Touched(o)
               PROVE  /\ IsBlock(d) => /\ Shown(d) \in Record /\ Shown(d) # None
                                       /\ Shown(d) = Showing(d, Children(d))
                      /\ ~IsBlock(d) => Shown(d) = None
    OBVIOUS
  <2>1. d \in Block
    BY Ops
  <2>2. QED BY <2>1, ShownRecord, ShownIs
<1>8. CASE o.kind = "set"
  <2>1. PICK r : r = want[b]
    OBVIOUS
  <2>2. r \in Record \cup {None} /\ (r = None <=> ~IsBlock(b)) /\ r = Shown(b)
    BY <2>1, <1>4, <1>7
  <2>3. v[b] = IF r = None
               THEN [flavour |-> o.flavour, parent |-> None, kids |-> <<>>, content |-> n]
               ELSE [flavour |-> r.flavour, parent |-> r.parent, kids |-> r.kids, content |-> n]
    <3>1. r = want[o.block] /\ r \in Record \cup {None}
      BY <2>1, <2>2, <1>2
    <3>2. v[o.block] = IF r = None
               THEN [flavour |-> o.flavour, parent |-> None, kids |-> <<>>, content |-> n]
               ELSE [flavour |-> r.flavour, parent |-> r.parent, kids |-> r.kids, content |-> n]
      BY <3>1, <1>5, <1>8, PromisedSet
    <3>3. QED BY <3>2, <1>2
  <2>4. CASE IsBlock(b)
    <3>1. x.pc = "content"
      BY <2>4, <1>2, <1>3, <1>8 DEF FirstStep
    <3>2. r = Showing(b, Children(b)) /\ r # None
      BY <2>2, <2>4, <1>4, <1>7
    <3>3. v[b] = [flavour |-> object[blocks[b]].flavour, parent |-> object[blocks[b]].parent,
                  kids |-> Children(b), content |-> n]
      BY <2>3, <3>2 DEF Showing
    <3>4. IsBlock(b)' /\ Children(b)' = Children(b)
      BY <2>4, <1>4, <1>6
    <3>5. Setting(t)'
      BY <3>1, <3>3, <3>4, <1>1, <1>2, <1>3 DEF Setting
    <3>6. QED BY <3>5, <1>2, <1>3, <1>8 DEF Doing
  <2>5. CASE ~IsBlock(b)
    <3>1. x.pc = "make" /\ blocks[b] = None
      BY <2>5, <1>2, <1>3, <1>4, <1>8 DEF FirstStep
    <3>2. v[b] = [flavour |-> o.flavour, parent |-> None, kids |-> <<>>, content |-> n]
      BY <2>2, <2>3, <2>5
    <3>3. Setting(t)'
      BY <3>1, <3>2, <1>1, <1>2, <1>3 DEF Setting
    <3>4. QED BY <3>3, <1>2, <1>3, <1>8 DEF Doing
  <2>6. QED BY <2>4, <2>5
<1>9. CASE o.kind = "remove"
  <2>1. v = [want EXCEPT ![b] = None] /\ x.pc = "drop"
    BY <1>2, <1>3, <1>5, <1>9 DEF Promise, FirstStep
  <2>2. v[b] = None
    BY <2>1, <1>4, <1>5 DEF IsMap
  <2>3. Removing(t)'
    BY <2>1, <2>2, <1>2, <1>3 DEF Removing
  <2>4. QED BY <2>3, <1>2, <1>3, <1>9 DEF Doing
<1>10. CASE o.kind \in {"insert", "take"}
  <2>1. PICK c, s : c = o.child /\ s = Children(b)
    OBVIOUS
  <2>2. /\ IsBlock(b) /\ IsBlock(c) /\ x.pc = "adopt"
        /\ o.kind = "take" => PositionIn(Kids(object[blocks[b]].kids), c) >= 0
    BY <2>1, <1>2, <1>3, <1>10 DEF FirstStep
  <2>3. /\ c \in Block /\ c \in Touched(o) /\ c # b
    BY <2>1, <1>4, <1>10
  <2>4. Kids(object[blocks[b]].kids) = s /\ s \in Seq(Block)
    BY <2>1, <2>2, <1>4, ShownIs
  <2>5. o.kind = "take" => Holds(s, c)
    BY <2>2, <2>4, PositionIs
  <2>6. PICK r, q : r = want[b] /\ q = want[c]
    OBVIOUS
  <2>7. r \in Record /\ q \in Record /\ r = Showing(b, s) /\ q = Showing(c, Children(c))
    BY <2>1, <2>2, <2>3, <2>6, <1>4, <1>7
  <2>8. r.kids = s
    BY <2>7 DEF Showing
  <2>9. /\ v[o.block] = [flavour |-> r.flavour, parent |-> r.parent,
                         kids |-> Asked(o, Without(r.kids, o.child)), content |-> r.content]
        /\ v[o.child] = [flavour |-> q.flavour, parent |-> o.block, kids |-> q.kids,
                         content |-> q.content]
    <3>1. r = want[o.block] /\ q = want[o.child] /\ r \in Record /\ q \in Record
      BY <2>1, <2>6, <2>7, <1>2
    <3>2. o.kind = "take" => Holds(r.kids, o.child)
      BY <2>1, <2>5, <2>8
    <3>3. QED BY <3>1, <3>2, <1>5, <1>10, PromisedPair
  <2>10. PICK k : k = Asked(o, Without(s, c))
    OBVIOUS
  <2>11. /\ v[b] = [flavour |-> object[blocks[b]].flavour, parent |-> object[blocks[b]].parent,
                    kids |-> k, content |-> object[blocks[b]].content]
         /\ v[c] = [flavour |-> object[blocks[c]].flavour, parent |-> b,
                    kids |-> Children(c), content |-> object[blocks[c]].content]
    BY <2>1, <2>7, <2>8, <2>9, <2>10, <1>2 DEF Showing
  <2>12. v[b].kids = k /\ v[c].parent = b /\ v[b] = Showing(b, k)
    BY <2>11 DEF Showing
  <2>13. /\ IsBlock(b)' /\ IsBlock(c)' /\ Children(b)' = s /\ Children(c)' = Children(c)
    BY <2>1, <2>2, <2>3, <1>4, <1>6
  <2>14. (want[b] = Showing(b, want[b].kids))'
    BY <2>12, <1>1, <1>2 DEF Showing
  <2>15. Placing(t)'
    BY <2>1, <2>2, <2>5, <2>10, <2>11, <2>12, <2>13, <2>14, <1>1, <1>2, <1>3, <1>10 DEF Placing
  <2>16. QED BY <2>15, <1>2, <1>3, <1>10 DEF Doing
<1>11. QED BY <1>4, <1>8, <1>9, <1>10

LEMMA BeginAsIs ==
  ASSUME BlocksInv, BlocksInv', Arrays, Arrays', AsIs, NEW t \in Task, NEW o \in Op, Begin(t, o)
  PROVE  AsIs'
PROOF
<1>1. /\ UNCHANGED <<blocks, object, list>> /\ ~Active(t)
      /\ FirstStep(o) = "idle" => task' = task
  BY DEF Begin, Active
<1>2. mixed' = IF Met(o) # {} \/ Touched(o) \cap mixed # {}
               THEN (mixed \cup Touched(o)) \cup UNION {Touched(task[u].op) : u \in Met(o)}
               ELSE mixed
  BY MixingIs
<1>3. /\ mixed \subseteq mixed'
      /\ Met(o) # {} => Touched(o) \subseteq mixed'
      /\ \A u \in Met(o) : Touched(task[u].op) \subseteq mixed'
  BY Mixing
<1>4. \A u \in Task : u # t => task'[u] = task[u]
  BY <1>1, BeginMakes
<1>5. FirstStep(o) # "idle" => task'[t].op = o /\ task'[t].pc = FirstStep(o)
  BY BeginMakes
<1>6. IsMap(want') /\ \A b \in Block : b \notin Touched(o) => want'[b] = want[b]
  <2>1. PICK n, v : n = started + 1 /\ v = want'
    OBVIOUS
  <2>2. v = Promise(want, o, n) /\ IsMap(want)
    BY <2>1 DEF Begin, AsIs, IsMap
  <2>3. IsMap(v) /\ \A b \in Block : b \notin Touched(o) => v[b] = want[b]
    BY <2>2, Promised
  <2>4. QED BY <2>1, <2>3
<1>7. \A b \in Block : /\ IsBlock(b)' <=> IsBlock(b)
                       /\ Shown(b)' = Shown(b)
                       /\ IsBlock(b) => Children(b)' = Children(b)
  BY <1>1, StillShown
<1>8. ASSUME NEW u \in Task, Active(u)', ~Clean(u)'
      PROVE  Touched(task'[u].op) \subseteq mixed'
  <2>1. Touched(task'[u].op) \cap mixed' # {}
    BY <1>8 DEF Clean
  <2>2. CASE u = t
    <3>1. task'[t].op = o
      BY <2>2, <1>1, <1>5, <1>8 DEF Active
    <3>2. CASE mixed' = mixed
      <4>1. Touched(o) \cap mixed # {}
        BY <2>1, <2>2, <3>1, <3>2
      <4>2. QED BY <4>1, <3>1, <2>2, <1>2
    <3>3. CASE mixed' # mixed
      BY <3>1, <3>3, <2>2, <1>2
    <3>4. QED BY <3>2, <3>3
  <2>3. CASE u # t
    <3>1. task'[u] = task[u] /\ Active(u)
      BY <2>3, <1>4, <1>8 DEF Active
    <3>2. CASE ~Clean(u)
      BY <3>1, <3>2, <1>3 DEF AsIs
    <3>3. CASE Clean(u)
      <4>1. PICK b \in Touched(task[u].op) : b \in mixed' /\ b \notin mixed
        BY <2>1, <3>1, <3>3 DEF Clean
      <4>2. CASE b \in Touched(o)
        <5>1. u \in Met(o)
          BY <3>1, <4>2 DEF Met, Active
        <5>2. QED BY <5>1, <3>1, <1>3
      <4>3. CASE b \notin Touched(o)
        <5>1. PICK v \in Met(o) : b \in Touched(task[v].op)
          BY <4>1, <4>3, <1>2
        <5>2. v = u \/ Touched(task[u].op) \subseteq mixed
          BY <5>1, <3>1 DEF Met, BlocksInv, Meeting, Active
        <5>3. QED BY <5>1, <5>2, <3>1, <1>3
      <4>4. QED BY <4>2, <4>3
    <3>4. QED BY <3>2, <3>3
  <2>4. QED BY <2>2, <2>3
<1>9. ASSUME NEW b \in Block, b \notin mixed'
      PROVE  /\ IsBlock(b)' => Distinct(Children(b))'
             /\ Untouched(b)' => Shown(b)' = want'[b]
  <2>1. b \notin mixed
    BY <1>3, <1>9
  <2>2. IsBlock(b)' => Distinct(Children(b))'
    <3>1. IsBlock(b) => Distinct(Children(b))
      BY <2>1 DEF AsIs
    <3>2. QED BY <3>1, <1>7 DEF Distinct
  <2>3. ASSUME Untouched(b)' PROVE Shown(b)' = want'[b]
    <3>1. CASE b \notin Touched(o)
      <4>1. Untouched(b)
        BY <2>3, <1>1, <1>4 DEF Untouched, Active
      <4>2. QED BY <4>1, <2>1, <3>1, <1>6, <1>7 DEF AsIs
    <3>2. CASE b \in Touched(o)
      <4>1. FirstStep(o) = "idle"
        BY <2>3, <3>2, <1>5 DEF Untouched
      <4>2. /\ \A d \in Touched(o) : Shown(d) = want[d]
        BY <3>2, <1>9, BeginClean
      <4>3. want' = want
        <5>1. o.kind \in {"insert", "take"} /\ o.block \in Touched(o) /\ o.child \in Touched(o)
              /\ o.block \in Block /\ o.child \in Block
          BY <4>1, Ops, FirstSteps DEF Touched
        <5>2. want' = Promise(want, o, started + 1)
          BY DEF Begin
        <5>3. CASE ~IsBlock(o.block)
          <6>1. want[o.block] = None
            BY <5>1, <5>3, <4>2, ShownRecord
          <6>2. QED BY <6>1, <5>1, <5>2 DEF Promise
        <5>4. CASE ~IsBlock(o.child)
          <6>1. want[o.child] = None
            BY <5>1, <5>4, <4>2, ShownRecord
          <6>2. QED BY <6>1, <5>1, <5>2 DEF Promise
        <5>5. CASE IsBlock(o.block) /\ IsBlock(o.child)
          <6>1. o.kind = "take" /\ ~(PositionIn(Kids(object[blocks[o.block]].kids), o.child) >= 0)
            BY <5>1, <5>5, <4>1 DEF FirstStep
          <6>2. PICK s : s = Children(o.block)
            OBVIOUS
          <6>3. Kids(object[blocks[o.block]].kids) = s /\ s \in Seq(Block)
                /\ Shown(o.block) = Showing(o.block, s)
            BY <6>2, <5>1, <5>5, ShownIs
          <6>4. ~Holds(s, o.child)
            <7>1. Holds(s, o.child) => PositionIn(s, o.child) \in 0..Len(s) - 1
              BY <6>3, PositionIs
            <7>2. Len(s) \in Nat
              BY <6>3
            <7>3. QED BY <7>1, <7>2, <6>1, <6>3
          <6>5. want[o.block].kids = s
            BY <6>3, <4>2, <5>1 DEF Showing
          <6>6. QED BY <6>1, <6>4, <6>5, <5>2 DEF Promise, Holds
        <5>6. QED BY <5>3, <5>4, <5>5
      <4>4. QED BY <4>2, <4>3, <3>2, <1>7
    <3>3. QED BY <3>1, <3>2
  <2>4. QED BY <2>2, <2>3
<1>10. ASSUME NEW u \in Task, Clean(u)' PROVE Doing(u)'
  <2>1. task'[u].pc # "idle" /\ Touched(task'[u].op) \cap mixed' = {}
    BY <1>10 DEF Clean, Active
  <2>2. CASE u = t
    <3>1. FirstStep(o) # "idle" /\ task'[t].op = o
      BY <2>1, <2>2, <1>1, <1>5 DEF Active
    <3>2. PICK d : d \in Touched(o) /\ d \notin mixed'
      BY <2>1, <2>2, <3>1, Ops
    <3>3. \A b \in Touched(o) : Shown(b) = want[b] /\ (~IsBlock(b) => blocks[b] = None)
      BY <3>2, BeginClean
    <3>4. QED BY <3>1, <3>3, <2>2, BeginDoing
  <2>3. CASE u # t
    <3>1. task'[u] = task[u] /\ Active(u) /\ Clean(u)
      BY <2>1, <2>3, <1>3, <1>4 DEF Clean, Active
    <3>2. Touched(task[u].op) \cap Touched(o) = {} /\ Touched(task[u].op) \subseteq Block
      <4>1. u \notin Met(o)
        <5>1. u \in Met(o) => Touched(task[u].op) \subseteq mixed'
          BY <1>3
        <5>2. task[u].op \in Op
          BY <3>1, Own
        <5>3. task[u].op.block \in Touched(task[u].op)
          BY <5>2, Ops
        <5>4. QED BY <5>1, <5>3, <2>1, <3>1
      <4>2. task[u].op \in Op
        BY <3>1, Own
      <4>3. QED BY <4>1, <4>2, <3>1, Ops DEF Met, Active
    <3>3. \A b \in Touched(task[u].op) : want'[b] = want[b] /\ Stays(b)
      BY <3>2, <1>1, <1>6 DEF Stays
    <3>4. Doing(u)
      BY <3>1 DEF AsIs
    <3>5. QED BY <3>1, <3>3, <3>4, DoingStays
  <2>4. QED BY <2>2, <2>3
<1>11. want' = [b \in Block |-> want'[b]]
  BY <1>6 DEF IsMap
<1>12. \A b \in Block \ mixed' : /\ IsBlock(b)' => Distinct(Children(b))'
                                 /\ Untouched(b)' => Shown(b)' = want'[b]
  BY <1>9
<1>13. QED BY <1>8, <1>10, <1>11, <1>12 DEF AsIs

LEMMA InitAsIs ==
  ASSUME Init, \A b \in Loaded : Distinct(FirstKids[b])
  PROVE  Arrays /\ AsIs
PROOF
<1>1. /\ Loaded \subseteq Block /\ None \notin Name /\ Block \subseteq Name /\ MaxOps \in Nat
      /\ FirstKids \in [Loaded -> Seq(Block)] /\ None \notin Block
  BY Names, BlocksAssumption
<1>2. /\ blocks = [b \in Block |-> IF b \in Loaded THEN b ELSE None]
      /\ object = [n \in Name |-> IF n \in Loaded
                     THEN [flavour |-> FirstFlavour, parent |-> None, kids |-> n, content |-> 0]
                     ELSE NewObject]
      /\ list = [n \in Name |-> IF n \in Loaded THEN FirstKids[n] ELSE <<>>]
      /\ task = [t \in Task |-> Idle]
      /\ started = 0 /\ mixed = {}
      /\ want = [b \in Block |-> Shown(b)]
  BY DEF Init
<1>3. /\ Idle.pc = "idle" /\ Idle.kids = None /\ Idle.child = None /\ Idle.at = 0 /\ Idle.map = None
      /\ NewObject.kids = None
  BY DEF Idle, NewObject
<1>4. \A n \in Name : object[n].kids = IF n \in Loaded THEN n ELSE None
  BY <1>2, <1>3
<1>5. \A t \in Task : task[t] = Idle
  BY <1>2
<1>6. list \in [Name -> Seq(Block)]
  <2>1. \A n \in Name : (IF n \in Loaded THEN FirstKids[n] ELSE <<>>) \in Seq(Block)
    BY <1>1
  <2>2. QED BY <2>1, <1>2
<1>7. \A n \in Name : n \notin Old => Unused(n) /\ Unmade(n)
  <2> SUFFICES ASSUME NEW n \in Name, n \notin Old PROVE Unused(n) /\ Unmade(n)
    OBVIOUS
  <2>1. n \notin Loaded /\ n # None
    BY <1>1 DEF Old
  <2>2. \A m \in Name : object[m].kids # n
    BY <2>1, <1>4
  <2>3. list[n] = <<>> /\ object[n] = NewObject
    BY <2>1, <1>2
  <2>4. QED BY <2>1, <2>2, <2>3, <1>3, <1>5 DEF Unused, Unmade
<1>8. Arrays
  <2>1. \A m, k \in Name : object[m].kids = object[k].kids /\ m # k => object[m].kids = None
    BY <1>4
  <2>2. QED BY <2>1, <1>3, <1>5, <1>6, <1>7 DEF Arrays
<1>9. \A b \in Block : IsBlock(b) => Distinct(Children(b))
  <2> SUFFICES ASSUME NEW b \in Block, IsBlock(b) PROVE Distinct(Children(b))
    OBVIOUS
  <2>1. b \in Loaded /\ blocks[b] = b
    BY <1>2 DEF IsBlock
  <2>2. object[b].kids = b /\ list[b] = FirstKids[b]
    BY <2>1, <1>1, <1>2, <1>4
  <2>3. Children(b) = FirstKids[b]
    BY <2>1, <2>2 DEF Children
  <2>4. Distinct(FirstKids[b])
    BY <2>1
  <2>5. QED BY <2>3, <2>4
<1>10. \A b \in Block : want[b] = Shown(b)
  BY <1>2
<1>11. AsIs
  <2>1. want = [b \in Block |-> want[b]]
    BY <1>2
  <2>2. QED BY <2>1, <1>3, <1>5, <1>9, <1>10 DEF AsIs, Clean, Active
<1>12. QED BY <1>8, <1>11

LEMMA NextAsIs ==
  ASSUME BlocksInv, BlocksInv', Arrays, AsIs, [Next]_vars
  PROVE  Arrays' /\ AsIs'
PROOF
<1>1. ASSUME NEW t \in Task, Step(t) PROVE Arrays' /\ AsIs'
  <2>1. Writes(t)
    BY <1>1, StepWrites
  <2>2. Arrays'
    BY <2>1, WritesArrays
  <2>3. Clean(t) => Mine(t)
    BY <1>1, <2>1, <2>2, StepMine
  <2>4. QED BY <2>1, <2>2, <2>3, StepAsIs DEF Mine
<1>2. ASSUME NEW t \in Task, NEW o \in Op, Begin(t, o) PROVE Arrays' /\ AsIs'
  BY <1>2, BeginArrays, BeginAsIs
<1>3. ASSUME UNCHANGED <<blocks, object, list, task, started, want, mixed>> PROVE Arrays' /\ AsIs'
  <2>1. \A n : (Unused(n)' <=> Unused(n)) /\ (Unmade(n)' <=> Unmade(n))
    BY <1>3 DEF Unused, Unmade
  <2>2. Old' = Old
    BY <1>3 DEF Old
  <2>3. Arrays'
    BY <1>3 DEF Arrays, Old, Unused, Unmade
  <2>4. \A t \in Task : /\ Active(t)' <=> Active(t)
                        /\ Clean(t)' <=> Clean(t)
    BY <1>3 DEF Active, Clean
  <2>5. \A b \in Block : /\ IsBlock(b)' <=> IsBlock(b)
                         /\ Shown(b)' = Shown(b)
                         /\ IsBlock(b) => Children(b)' = Children(b)
                         /\ Untouched(b)' <=> Untouched(b)
    BY <1>3, <2>3, StillShown DEF Untouched
  <2>6. ASSUME NEW u \in Task, Clean(u) PROVE Doing(u)'
    <3>1. Active(u) /\ Doing(u) /\ task'[u] = task[u] /\ Touched(task[u].op) \subseteq Block
      BY <1>3, <2>6, Own, Ops DEF AsIs, Clean
    <3>2. \A b \in Touched(task[u].op) : want'[b] = want[b] /\ Stays(b)
      BY <1>3, <3>1 DEF Stays
    <3>3. QED BY <3>1, <3>2, <2>3, DoingStays
  <2>7. \A b \in Block \ mixed : /\ IsBlock(b)' => Distinct(Children(b))'
                                 /\ Untouched(b)' => Shown(b)' = want[b]
    <3> SUFFICES ASSUME NEW b \in Block \ mixed
                 PROVE  /\ IsBlock(b)' => Distinct(Children(b))'
                        /\ Untouched(b)' => Shown(b)' = want[b]
      OBVIOUS
    <3>1. /\ IsBlock(b) => Distinct(Children(b))
          /\ Untouched(b) => Shown(b) = want[b]
      BY DEF AsIs
    <3>2. IsBlock(b)' => Distinct(Children(b))'
      BY <3>1, <2>5 DEF Distinct
    <3>3. QED BY <3>1, <3>2, <2>5
  <2>8. AsIs'
    BY <1>3, <2>4, <2>6, <2>7 DEF AsIs
  <2>9. QED BY <2>3, <2>8
<1>4. CASE ReadAll
  BY <1>3, <1>4 DEF ReadAll
<1>5. CASE UNCHANGED vars
  BY <1>3, <1>5 DEF vars
<1>6. QED BY <1>1, <1>2, <1>4, <1>5 DEF Next

\* A block on which operations did not meet is as they asked, whatever ran on
\* other blocks in between (Space::create, Space::remove, Block::insert_children_*
\* and Block::remove_children): provided that no list of children the space is
\* loaded with names a child twice.
THEOREM BlocksAsAsked ==
  ASSUME \A b \in Loaded : Distinct(FirstKids[b])
  PROVE  Spec => []AsAsked
PROOF
<1>1. Init => Arrays /\ AsIs
  BY InitAsIs
<1>2. BlocksInv /\ BlocksInv' /\ (Arrays /\ AsIs) /\ [Next]_vars => (Arrays /\ AsIs)'
  BY NextAsIs
<1>3. Arrays /\ AsIs => AsAsked
  BY DEF AsIs, AsAsked
<1>4. QED BY <1>1, <1>2, <1>3, InvHolds, PTL DEF Spec

=============================================================================
