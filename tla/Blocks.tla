------------------------------- MODULE Blocks -------------------------------
(***************************************************************************)
(* The blocks of a space (jwst-core, block/mod.rs and space/mod.rs), as    *)
(* the REST handlers and the bindings use them.  A block is a map in the   *)
(* root map "space:blocks"; its children are an array of block ids in that *)
(* map; the root map "space:updated" logs when a block last changed.       *)
(*                                                                         *)
(* Every operation on a map or an array takes the locks of the document    *)
(* for itself, and an operation on blocks is several of them: handlers run *)
(* in parallel, so another operation may run between any two.  A step here *)
(* is one operation on a map or an array.  A handle (Block) holds the map  *)
(* and the array it found; when the block is removed or replaced they are  *)
(* deleted with it, reads of them find nothing and writes to them are      *)
(* lost.                                                                   *)
(***************************************************************************)
EXTENDS Integers, FiniteSets, Sequences, SequencesExt

CONSTANTS
  Block,       \* ids of blocks
  Flavour,     \* flavours a block is created with
  Task,        \* handlers, bindings: what works on the space at the same time
  Holder,      \* the blocks that are asked to hold children (bounds the inputs)
  Mark,        \* the blocks children are asked to go beside (bounds the inputs)
  Position,    \* the positions children are asked to go to (bounds the inputs)
  Loaded,      \* the blocks of the space at the start
  FirstKids,   \* the children of each of them then
  FirstFlavour,\* and their flavour
  MaxOps,      \* bound on the operations of a run
  None         \* no object, no flavour, no parent

ASSUME BlocksAssumption ==
  /\ Holder \subseteq Block /\ Mark \subseteq Block /\ Loaded \subseteq Block
  /\ Position \subseteq Nat /\ MaxOps \in Nat
  /\ Block \cap 1..MaxOps = {} /\ None \notin Block \cup 1..MaxOps
  /\ FirstKids \in [Loaded -> Seq(Block)]

VARIABLES
  blocks,      \* "space:blocks": the map object of each block, or None
  updated,     \* "space:updated": the blocks it has an entry for
  object,      \* the map objects: flavour, parent, and the children array's name
  list,        \* the array objects: the children they hold
  task,        \* what each task is doing
  started,     \* operations started so far; the n-th names the objects it makes
  panicked,    \* a handler panicked
  want,        \* ghost: the blocks as they would be were each operation one step
  mixed        \* ghost: blocks that operations touched at the same time

vars == <<blocks, updated, object, list, task, started, panicked, want, mixed>>

-----------------------------------------------------------------------------
(* Operations and objects.                                                 *)

\* The operations of the handlers: what set_block, delete_block,
\* insert_block_children and remove_block_children ask of the space.
Where == [at : {"push"}] \cup [at : {"index"}, index : Position]
         \cup [at : {"before", "after"}, ref : Mark]
Op == [kind : {"set"}, block : Block, flavour : Flavour]
      \cup [kind : {"remove"}, block : Block]
      \cup {o \in [kind : {"insert"}, block : Holder, child : Block, where : Where] :
              o.block # o.child}
      \cup {o \in [kind : {"take"}, block : Holder, child : Block] : o.block # o.child}

\* What a block shows: its flavour, the parent and the content last set, its children.
Record == [flavour : Flavour \cup {FirstFlavour, None}, parent : Block \cup {None},
           kids : Seq(Block), content : Nat]

ASSUME NoneAssumption == None \notin Op /\ None \notin Record

Touched(o) == {o.block} \cup IF o.kind \in {"insert", "take"} THEN {o.child} ELSE {}

\* The names of maps and arrays: those of the blocks loaded, and one for
\* every operation, which makes at most one of each.
Name == Block \cup 1..MaxOps

NewObject == [flavour |-> None, parent |-> None, kids |-> None, content |-> 0]
Idle == [op |-> None, pc |-> "idle", map |-> None, kids |-> None, child |-> None,
         name |-> 0, at |-> 0]

\* A map is part of the document while a block holds it, an array while such
\* a map holds it.
LiveMap(m) == \E b \in Block : blocks[b] = m /\ m # None
LiveList(a) == \E m \in Name : LiveMap(m) /\ object[m].kids = a /\ a # None

\* What an array reads as: nothing once it was deleted.
Kids(a) == IF LiveList(a) THEN list[a] ELSE <<>>

\* Writing a key of a block's map: the new item of a deleted map is deleted
\* at once.
Write(m, key, v) == IF LiveMap(m) THEN [object EXCEPT ![m][key] = v] ELSE object

\* Block::from: a block is one whose map has its children array.
IsBlock(b) == blocks[b] # None /\ object[blocks[b]].kids # None

PositionIn(s, x) == IF \E i \in DOMAIN s : s[i] = x
                    THEN (CHOOSE i \in DOMAIN s : s[i] = x /\ \A j \in 1..(i-1) : s[j] # x) - 1
                    ELSE -1

\* insert_children_at, _before, _after and push_children: where the child
\* goes in a list that no longer holds it.
PlaceAtRef(s, w) ==
  CASE w.at = "push"  -> Len(s)
    [] w.at = "index" -> IF Len(s) > w.index THEN w.index ELSE Len(s)
    [] OTHER -> IF PositionIn(s, w.ref) >= 0 THEN PositionIn(s, w.ref) ELSE Len(s)

Place(s, w) ==
  CASE w.at = "push"  -> Len(s)
    [] w.at = "index" -> IF Len(s) > w.index THEN w.index ELSE Len(s)
    [] w.at = "before" -> IF PositionIn(s, w.ref) >= 0 THEN PositionIn(s, w.ref) ELSE Len(s)
    [] w.at = "after" -> IF PositionIn(s, w.ref) >= 0 THEN PositionIn(s, w.ref) + 1 ELSE Len(s)

-----------------------------------------------------------------------------
(* What an operation promises, were it one step.                           *)

\* The sequence without x, wherever it stands.
Without(s, x) ==
  LET rest[i \in 0..Len(s)] == IF i = 0 THEN <<>>
                               ELSE IF s[i] = x THEN rest[i-1]
                               ELSE Append(rest[i-1], s[i])
  IN rest[Len(s)]

\* The child is put where it was asked to go among the others, which are `rest`:
\* at an index, before or after another one, or else at the end.
PutAmong(rest, child, where) ==
  LET k == CASE where.at = "index" /\ where.index < Len(rest) -> where.index
             [] where.at \in {"before", "after"} /\ (\E i \in DOMAIN rest : rest[i] = where.ref) ->
                  LET i == CHOOSE i \in DOMAIN rest : rest[i] = where.ref
                  IN IF where.at = "after" THEN i ELSE i - 1
             [] OTHER -> Len(rest)
  IN SubSeq(rest, 1, k) \o <<child>> \o SubSeq(rest, k + 1, Len(rest))

\* `w` is the function of block records, None where there is no block.
\* `n` stands for the content the n-th operation sets.
Promise(w, o, n) ==
  CASE o.kind = "set" ->
         IF w[o.block] # None THEN [w EXCEPT ![o.block].content = n]
         ELSE [w EXCEPT ![o.block] = [flavour |-> o.flavour, parent |-> None, kids |-> <<>>,
                                      content |-> n]]
    [] o.kind = "remove" -> [w EXCEPT ![o.block] = None]
    [] o.kind = "insert" ->
         IF w[o.block] = None \/ w[o.child] = None THEN w
         ELSE [w EXCEPT ![o.block].kids = PutAmong(Without(@, o.child), o.child, o.where),
                        ![o.child].parent = o.block]
    [] o.kind = "take" ->
         IF \/ w[o.block] = None \/ w[o.child] = None
            \/ \A i \in DOMAIN w[o.block].kids : w[o.block].kids[i] # o.child THEN w
         ELSE [w EXCEPT ![o.block].kids = Without(@, o.child), ![o.child].parent = o.block]

\* The block as the space shows it now.
Shown(b) == IF IsBlock(b)
            THEN LET m == blocks[b] IN [flavour |-> object[m].flavour, parent |-> object[m].parent,
                                        kids |-> Kids(object[m].kids), content |-> object[m].content]
            ELSE None

-----------------------------------------------------------------------------
Init ==
  /\ blocks = [b \in Block |-> IF b \in Loaded THEN b ELSE None]
  /\ updated = Loaded
  /\ object = [n \in Name |-> IF n \in Loaded
                 THEN [flavour |-> FirstFlavour, parent |-> None, kids |-> n, content |-> 0]
                 ELSE NewObject]
  /\ list = [n \in Name |-> IF n \in Loaded THEN FirstKids[n] ELSE <<>>]
  /\ task = [t \in Task |-> Idle]
  /\ started = 0 /\ panicked = FALSE /\ mixed = {}
  /\ want = [b \in Block |-> Shown(b)]

\* The next step of a task, or the end of its operation.
Go(t, pc) == task' = [task EXCEPT ![t].pc = pc]
End(t) == task' = [task EXCEPT ![t] = Idle]

-----------------------------------------------------------------------------
(* An operation starts: the handles it needs are looked up.                *)

\* Where an operation goes after the lookup.  insert_block_children and
\* remove_block_children do nothing when a block is not there, create
\* returns the block that is, whose content set_block then sets.
FirstStep(o) ==
  CASE o.kind = "set" -> IF IsBlock(o.block) THEN "content" ELSE "make"
    [] o.kind = "remove" -> "drop"
    [] o.kind = "insert" -> IF IsBlock(o.block) /\ IsBlock(o.child) THEN "adopt" ELSE "idle"
    [] o.kind = "take"   -> IF IsBlock(o.block) /\ IsBlock(o.child)
                               /\ PositionIn(Kids(object[blocks[o.block]].kids), o.child) >= 0
                            THEN "adopt" ELSE "idle"

\* The lookup of an operation, Space::get and Space::create, and the ghosts:
\* operations under way that touch a common block are mixed, and so is what
\* touches a block whose state mixed operations left open.
Begin(t, o) ==
  /\ task[t].pc = "idle" /\ started < MaxOps
  /\ started' = started + 1
  /\ LET others == {u \in Task : task[u].pc # "idle" /\ Touched(task[u].op) \cap Touched(o) # {}}
         clash == others # {} \/ Touched(o) \cap mixed # {}
     IN mixed' = IF clash THEN mixed \cup Touched(o)
                               \cup UNION {Touched(task[u].op) : u \in others}
                 ELSE mixed
  /\ want' = Promise(want, o, started + 1)
  /\ task' = IF FirstStep(o) = "idle" THEN task
             ELSE [task EXCEPT ![t] =
                    [op |-> o, pc |-> FirstStep(o), map |-> blocks[o.block],
                     kids |-> IF IsBlock(o.block) THEN object[blocks[o.block]].kids ELSE None,
                     child |-> IF o.kind \in {"insert", "take"} THEN blocks[o.child] ELSE None,
                     name |-> started + 1, at |-> 0]]
  /\ UNCHANGED <<blocks, updated, object, list, panicked>>

-----------------------------------------------------------------------------
(* set_block: Space::create, of a block that is not there, then its         *)
(* content.                                                                *)

\* An empty map is put under the block's id, over what is there by now.
CreateMap(t) ==
  /\ task[t].pc = "make"
  /\ blocks' = [blocks EXCEPT ![task[t].op.block] = task[t].name]
  /\ Go(t, "get")
  /\ UNCHANGED <<updated, object, list, started, panicked, want, mixed>>

\* It is read back, and `unwrap` panics if it was removed in between.
CreateGet(t) ==
  /\ task[t].pc = "get"
  /\ LET m == blocks[task[t].op.block]
     IN IF m = None THEN panicked' = TRUE /\ End(t)
        ELSE /\ task' = [task EXCEPT ![t].pc = "flavour", ![t].map = m]
             /\ UNCHANGED panicked
  /\ UNCHANGED <<blocks, updated, object, list, started, want, mixed>>

CreateFlavourOnly(t) ==
  /\ task[t].pc = "flavour"
  /\ object' = Write(task[t].map, "flavour", task[t].op.flavour)
  /\ Go(t, "newlog")
  /\ UNCHANGED <<blocks, updated, list, started, panicked, want, mixed>>

CreateFlavour(t) ==
  /\ task[t].pc = "flavour"
  /\ object' = Write(task[t].map, "flavour", task[t].op.flavour)
  /\ Go(t, "children")
  /\ UNCHANGED <<blocks, updated, list, started, panicked, want, mixed>>

CreateChildren(t) ==
  /\ task[t].pc = "children"
  /\ object' = Write(task[t].map, "kids", task[t].name)
  /\ Go(t, "handle")
  /\ UNCHANGED <<blocks, updated, list, started, panicked, want, mixed>>

\* The handle takes the children array from the map, and `unwrap` panics if
\* the block was removed or replaced meanwhile.
CreateHandle(t) ==
  /\ task[t].pc = "handle"
  /\ IF LiveMap(task[t].map) THEN Go(t, "newlog") /\ UNCHANGED panicked
     ELSE panicked' = TRUE /\ End(t)
  /\ UNCHANGED <<blocks, updated, object, list, started, want, mixed>>

\* Block::set, of what set_block writes into the block.
SetContent(t) ==
  /\ task[t].pc = "content"
  /\ object' = Write(task[t].map, "content", task[t].name)
  /\ Go(t, "log")
  /\ UNCHANGED <<blocks, updated, list, started, panicked, want, mixed>>

\* log_update: of a new block, and at the end of what writes to one.
Log(t) ==
  /\ task[t].pc \in {"newlog", "log"}
  /\ updated' = updated \cup {task[t].op.block}
  /\ IF task[t].pc = "newlog" THEN Go(t, "content") ELSE End(t)
  /\ UNCHANGED <<blocks, object, list, started, panicked, want, mixed>>

-----------------------------------------------------------------------------
(* Space::remove: the block, then its log entry.  The lists that name it    *)
(* are left alone.                                                         *)

Drop(t) ==
  /\ task[t].pc = "drop"
  /\ blocks' = [blocks EXCEPT ![task[t].op.block] = None]
  /\ Go(t, "unlog")
  /\ UNCHANGED <<updated, object, list, started, panicked, want, mixed>>

UnlogNot(t) ==
  /\ task[t].pc = "unlog"
  /\ End(t)
  /\ UNCHANGED <<blocks, updated, object, list, started, panicked, want, mixed>>

Unlog(t) ==
  /\ task[t].pc = "unlog"
  /\ updated' = updated \ {task[t].op.block}
  /\ End(t)
  /\ UNCHANGED <<blocks, object, list, started, panicked, want, mixed>>

-----------------------------------------------------------------------------
(* remove_children: the first half of every insertion, and all of a        *)
(* removal.                                                                *)

\* set_parent, which a removal calls too.
Adopt(t) ==
  /\ task[t].pc \in {"adopt", "again"}
  /\ object' = Write(task[t].child, "parent", task[t].op.block)
  /\ Go(t, IF task[t].pc = "adopt" THEN "find" ELSE "place")
  /\ UNCHANGED <<blocks, updated, list, started, panicked, want, mixed>>

\* The position of the child among the children, before they are unlocked.
Find(t) ==
  /\ task[t].pc = "find"
  /\ LET i == PositionIn(Kids(task[t].kids), task[t].op.child)
     IN IF i >= 0 THEN task' = [task EXCEPT ![t].at = i, ![t].pc = "cut"]
        ELSE IF task[t].op.kind = "take" THEN End(t)
        ELSE Go(t, "again")
  /\ UNCHANGED <<blocks, updated, object, list, started, panicked, want, mixed>>

\* What is at that position now is removed; a position beyond the end is an
\* error, or, when the list shrinks inside remove_at, nothing.
Cut(t) ==
  /\ task[t].pc = "cut"
  /\ LET a == task[t].kids IN
       IF task[t].at < Len(Kids(a))
       THEN list' = [list EXCEPT ![a] = RemoveAt(@, task[t].at + 1)] /\ Go(t, "cutlog")
       ELSE UNCHANGED list /\ (End(t) \/ Go(t, "cutlog"))
  /\ UNCHANGED <<blocks, updated, object, started, panicked, want, mixed>>

CutLog(t) ==
  /\ task[t].pc = "cutlog"
  /\ updated' = updated \cup {task[t].op.block}
  /\ IF task[t].op.kind = "take" THEN End(t) ELSE Go(t, "again")
  /\ UNCHANGED <<blocks, object, list, started, panicked, want, mixed>>

-----------------------------------------------------------------------------
(* The second half of an insertion.                                        *)

FindPlace(t) ==
  /\ task[t].pc = "place"
  /\ task' = [task EXCEPT ![t].at = Place(Kids(task[t].kids), task[t].op.where), ![t].pc = "put"]
  /\ UNCHANGED <<blocks, updated, object, list, started, panicked, want, mixed>>

\* Array::insert at the place found.  Beyond the end it is an error, or,
\* when the list shrinks inside insert_at, nothing is inserted and no error
\* is told; what goes into a deleted array is deleted.
Put(t) ==
  /\ task[t].pc = "put"
  /\ LET a == task[t].kids IN
       IF task[t].at <= Len(Kids(a))
       THEN /\ list' = IF LiveList(a)
                       THEN [list EXCEPT ![a] = InsertAt(@, task[t].at + 1, task[t].op.child)]
                       ELSE list
            /\ Go(t, "log")
       ELSE UNCHANGED list /\ (End(t) \/ Go(t, "log"))
  /\ UNCHANGED <<blocks, updated, object, started, panicked, want, mixed>>

-----------------------------------------------------------------------------
\* get_blocks_by_flavour and the other readers of all blocks: from_raw_parts
\* panics on a block that has no children array yet.
ReadAll ==
  /\ \E b \in Block : blocks[b] # None /\ ~IsBlock(b)
  /\ panicked' = TRUE
  /\ UNCHANGED <<blocks, updated, object, list, task, started, want, mixed>>

Step(t) ==
  \/ CreateMap(t) \/ CreateGet(t) \/ CreateFlavour(t) \/ CreateChildren(t) \/ CreateHandle(t)
  \/ SetContent(t) \/ Log(t) \/ Drop(t) \/ Unlog(t)
  \/ Adopt(t) \/ Find(t) \/ Cut(t) \/ CutLog(t) \/ FindPlace(t) \/ Put(t)

Next == \/ \E t \in Task : Step(t) \/ \E o \in Op : Begin(t, o)
        \/ ReadAll

Spec == Init /\ [][Next]_vars

-----------------------------------------------------------------------------
\* The type invariant: what each variable holds (block/mod.rs and
\* space/mod.rs keep exactly these maps and arrays).
TypeOK ==
  /\ blocks \in [Block -> Name \cup {None}]
  /\ updated \subseteq Block /\ mixed \subseteq Block
  /\ \A n \in Name : /\ object[n].flavour \in Flavour \cup {FirstFlavour, None}
                     /\ object[n].parent \in Block \cup {None}
                     /\ object[n].kids \in Name \cup {None}
                     /\ object[n].content \in 0..MaxOps
                     /\ \A i \in DOMAIN list[n] : list[n][i] \in Block
  /\ started \in 0..MaxOps /\ panicked \in BOOLEAN

Untouched(b) == \A t \in Task : task[t].pc # "idle" => b \notin Touched(task[t].op)

\* However operations interleave, a map without its children array is that
\* of an operation that is about to put the array into that very map: two
\* creations and a removal of one block never leave half a block behind, on
\* which every reader of all blocks would panic (Space::blocks) and which no
\* operation could complete.
NoHalfBlock ==
  \A b \in Block : blocks[b] # None /\ ~IsBlock(b) =>
    \E t \in Task : /\ task[t].op # None /\ task[t].op.kind = "set" /\ task[t].op.block = b
                    /\ \/ task[t].pc = "get"
                       \/ task[t].pc \in {"flavour", "children"} /\ task[t].map = blocks[b]

\* A block is as the operations on it asked, whatever operations on other
\* blocks ran in between: it is there unless it was removed, it keeps the
\* flavour it was created with and the content set last, and its children are those that were put
\* there, each once and where it was asked to go.
AsAsked == \A b \in Block \ mixed : Untouched(b) => Shown(b) = want[b]

\* "space:updated" has an entry for exactly the blocks there are, operations
\* that met on one block aside: a removal takes the entry along, and no
\* operation on other blocks brings one back.
LoggedAsThere == \A b \in Block \ mixed : Untouched(b) => (b \in updated <=> IsBlock(b))

=============================================================================
