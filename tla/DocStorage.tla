----------------------------- MODULE DocStorage -----------------------------
(***************************************************************************)
(* The documents of jwst-storage (storage/docs, storage/mod.rs): the rows  *)
(* of one workspace in the docs table, the cache of loaded workspaces, and *)
(* the locks between them.  An operation is the sequence of its awaited    *)
(* steps; a task runs them in the order of its todo, to which a step may   *)
(* add.  A row is the set of entries its update carries.                   *)
(***************************************************************************)
EXTENDS Integers, Sequences, FiniteSets

CONSTANTS Tasks,      \* requests served at the same time
          TrimLimit,  \* rows at which an update merges them (500 in the code)
          Permits     \* holders of the bucket: 1 for SQLite, else 5

NoTask == "none"

ASSUME StorageAssumption ==
  /\ TrimLimit \in Nat \ {0} /\ Permits \in Nat \ {0}
  /\ IsFiniteSet(Tasks) /\ NoTask \notin Tasks

VARIABLES
  rows,       \* the rows of the workspace [ops, main]
  inst,       \* contents of every instance loaded so far
  cache,      \* workspaces: the cached instance, 0 for none
  loc,        \* each task: what it has to do, its instance and its variables
  bucket,     \* tasks holding the bucket
  owner,      \* the task holding the cache's write lock
  migrating,  \* the task holding last_migrate
  overlap     \* history: two replacements of the rows overlapped

storageVars == <<rows, inst, cache, loc, bucket, owner, migrating, overlap>>
locks == <<bucket, owner, migrating>>

Idle == [req |-> 0, wrote |-> {}, todo |-> <<>>, ws |-> 0, ops |-> {}, data |-> {},
         main |-> FALSE]

At(t, step) == loc[t].todo # <<>> /\ Head(loc[t].todo) = step
Ahead(t, step) == \E i \in DOMAIN loc[t].todo : loc[t].todo[i] = step

\* The task goes on, with more to do first; at the end of its path it is idle.
Then(t, steps) == [loc[t] EXCEPT !.todo = steps \o Tail(@)]
Becomes(t, l) == loc' = [loc EXCEPT ![t] = IF l.todo = <<>> THEN Idle ELSE l]
Goes(t) == Becomes(t, Then(t, <<>>))
\* ... and what it read and wrote is of no more use.
Done(t) == Becomes(t, [Then(t, <<>>) EXCEPT !.ops = {}, !.data = {}, !.main = FALSE])

Contents(rs) == UNION {rs[i].ops : i \in DOMAIN rs}
MainRows == {i \in DOMAIN rows : rows[i].main}

----------------------------------------------------------------------------
(* The operations as the steps they await. *)

replace_with == <<"is_workspace", "clear", "merged">>
update_doc == <<"lock", "count", "insert">>
get_or_create_workspace == <<"cache">>
\* Mutant: the bucket is taken before the cache.
delete_locked_first == <<"lock", "uncache", "drop">>
delete_workspace == <<"uncache", "lock", "drop">>
flush_workspace == <<"load", "is_workspace", "clear", "full">>
full_migrate == <<"migrate">> \o get_or_create_workspace \o delete_workspace
                \o flush_workspace \o <<"migrated">>

----------------------------------------------------------------------------
(* Locks. *)

Take(t) ==
  /\ At(t, "lock") /\ Cardinality(bucket) < Permits
  /\ bucket' = bucket \cup {t}
  /\ Goes(t)
  /\ UNCHANGED <<rows, inst, cache, owner, migrating>>

StartMigrate(t) ==
  /\ At(t, "migrate") /\ migrating = NoTask
  /\ migrating' = t
  /\ Goes(t)
  /\ UNCHANGED <<rows, inst, cache, bucket, owner>>

EndMigrate(t) ==
  /\ At(t, "migrated")
  /\ migrating' = NoTask
  /\ Goes(t)
  /\ UNCHANGED <<rows, inst, cache, bucket, owner>>

----------------------------------------------------------------------------
(* Writing and merging rows. *)

Count(t) ==
  /\ At(t, "count")
  /\ Becomes(t, Then(t, IF Len(rows) >= TrimLimit THEN <<"doc_all">> \o replace_with ELSE <<>>))
  /\ UNCHANGED <<rows, inst, cache, locks>>

\* Mutant: one record is read where all are.
DocOne(t) ==
  /\ At(t, "doc_all")
  /\ Becomes(t, [Then(t, <<>>) EXCEPT !.data = rows[1].ops])
  /\ UNCHANGED <<rows, inst, cache, locks>>

DocAll(t) ==
  /\ At(t, "doc_all")
  /\ Becomes(t, [Then(t, <<>>) EXCEPT !.data = Contents(rows)])
  /\ UNCHANGED <<rows, inst, cache, locks>>

\* Any row is asked; without one the answer is FALSE.
IsWorkspace(t) ==
  /\ At(t, "is_workspace")
  /\ \E main \in IF rows = <<>> THEN {FALSE} ELSE {rows[i].main : i \in DOMAIN rows} :
       Becomes(t, [Then(t, <<>>) EXCEPT !.main = main])
  /\ UNCHANGED <<rows, inst, cache, locks>>

Clear(t) ==
  /\ At(t, "clear")
  /\ rows' = <<>>
  /\ Goes(t)
  /\ UNCHANGED <<inst, cache, locks>>

Row(ops, main) == [ops |-> ops, main |-> main]

\* Mutant: the merged row is taken for one of another document.
MergedElsewhere(t) ==
  /\ At(t, "merged")
  /\ rows' = Append(rows, Row(loc[t].data, FALSE))
  /\ Goes(t)
  /\ UNCHANGED <<inst, cache, locks>>

Merged(t) ==
  /\ At(t, "merged")
  /\ rows' = Append(rows, Row(loc[t].data, loc[t].main))
  /\ Goes(t)
  /\ UNCHANGED <<inst, cache, locks>>

Full(t) ==
  /\ At(t, "full")
  /\ rows' = Append(rows, Row(loc[t].ops, loc[t].main))
  /\ Done(t)
  /\ UNCHANGED <<inst, cache, locks>>

\* The end of update_doc: one guid, so the new row is the workspace's.
Insert(t) ==
  /\ At(t, "insert")
  /\ rows' = Append(rows, Row(loc[t].ops, TRUE))
  /\ bucket' = bucket \ {t}
  /\ Done(t)
  /\ UNCHANGED <<inst, cache, owner, migrating>>

----------------------------------------------------------------------------
(* Loading and deleting a workspace. *)

\* The write lock of the cache is kept while the workspace is loaded.
Lookup(t) ==
  /\ At(t, "cache") /\ owner = NoTask
  /\ IF cache # 0
     THEN Becomes(t, [Then(t, <<>>) EXCEPT !.ws = cache]) /\ UNCHANGED owner
     ELSE Becomes(t, Then(t, <<"lock", "load", "cached">>)) /\ owner' = t
  /\ UNCHANGED <<rows, inst, cache, bucket, migrating>>

(* init_workspace: no row of the workspace, one, or several that are merged. *)
Load(t) ==
  /\ At(t, "load")
  /\ Becomes(t, [Then(t, CASE MainRows = {}                -> <<"insert_empty">>
                           [] Cardinality(MainRows) = 1   -> <<>>
                           [] OTHER                       -> replace_with)
                 EXCEPT !.data = UNION {rows[i].ops : i \in MainRows}])
  /\ UNCHANGED <<rows, inst, cache, locks>>

InsertEmpty(t) ==
  /\ At(t, "insert_empty")
  /\ rows' = Append(rows, Row({}, TRUE))
  /\ Goes(t)
  /\ UNCHANGED <<inst, cache, locks>>

Cached(t) ==
  /\ At(t, "cached")
  /\ inst' = Append(inst, loc[t].data)
  /\ cache' = Len(inst')
  /\ Becomes(t, [Then(t, <<>>) EXCEPT !.ws = cache', !.data = {}, !.main = FALSE])
  /\ bucket' = bucket \ {t} /\ owner' = NoTask
  /\ UNCHANGED <<rows, migrating>>

Uncache(t) ==
  /\ At(t, "uncache") /\ owner = NoTask
  /\ cache' = 0
  /\ Goes(t)
  /\ UNCHANGED <<rows, inst, locks>>

Drop(t) ==
  /\ At(t, "drop")
  /\ rows' = <<>>
  /\ bucket' = bucket \ {t}
  /\ Goes(t)
  /\ UNCHANGED <<inst, cache, owner, migrating>>

\* detect_workspace: the cache, else the rows under the bucket, in one step.
Detected(r) ==
  /\ owner = NoTask
  /\ \/ cache # 0 /\ r
     \/ cache = 0 /\ Cardinality(bucket) < Permits /\ r = (rows # <<>>)

----------------------------------------------------------------------------
StorageInit ==
  /\ inst = <<>> /\ cache = 0
  /\ loc = [t \in Tasks |-> Idle]
  /\ bucket = {} /\ owner = NoTask /\ migrating = NoTask
  /\ overlap = FALSE

StorageStep(t) ==
  \/ Take(t) \/ StartMigrate(t) \/ EndMigrate(t)
  \/ Count(t) \/ DocAll(t) \/ IsWorkspace(t) \/ Clear(t) \/ Merged(t) \/ Full(t) \/ Insert(t)
  \/ Lookup(t) \/ Load(t) \/ InsertEmpty(t) \/ Cached(t) \/ Uncache(t) \/ Drop(t)

\* Tasks that replace or drop the rows.
Replacing ==
  {t \in Tasks : \E s \in {"is_workspace", "clear", "merged", "full", "drop"} : At(t, s)}

\* The task waits for a lock.
Waiting(t) ==
  \/ At(t, "lock") /\ Cardinality(bucket) >= Permits
  \/ (At(t, "cache") \/ At(t, "uncache")) /\ owner # NoTask
  \/ At(t, "migrate") /\ migrating # NoTask

(* The refinement of DurableDoc. *)
Held == UNION {loc[t].data : t \in {s \in Tasks : At(s, "merged")}}
Replaced == overlap \/ \E t \in Tasks : Ahead(t, "full") \/ Ahead(t, "drop")

Durable == INSTANCE DurableDoc WITH stored <- Contents(rows), held <- Held,
                                    replacing <- Replaced
=============================================================================
