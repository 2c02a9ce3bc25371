-------------------------------- MODULE Keck --------------------------------
(***************************************************************************)
(* The REST side of the keck server (apps/keck/src/server) over DocStorage:*)
(* the handlers of one workspace's blocks, maps and arrays, its import,    *)
(* export and deletion, and what is done to it when a WebSocket connects,  *)
(* up to the connection itself (SaveUpdate).  No connection is open, so    *)
(* nothing but the handlers writes rows.                                   *)
(*                                                                         *)
(* A handler is the path of its awaited steps.  Entries of the document    *)
(* are tuples <<kind, request, writer>>: "obj" and "str" are plain values  *)
(* of root maps, "map" nested types (the blocks), "pages" the array of     *)
(* pages in the metadata and "flat" its plain value, "arr" elements of     *)
(* root arrays, "del" the deletion of what a request wrote.  The writer is *)
(* the instance whose client id the entry carries, 0 for data made         *)
(* elsewhere.                                                              *)
(***************************************************************************)
EXTENDS DocStorage

CONSTANT MaxRequests   \* requests in all

VARIABLES
  rebuilt,     \* plain_yjs_rebuilt has the workspace
  rebuilder,   \* the task holding the write lock of plain_yjs_rebuilt
  count,       \* requests so far
  acked,       \* history: <<request, entry>> persisted and answered
  wiped,       \* history: requests up to this one may have been taken away
  rebuilds     \* history: rebuilds since the workspace was last forgotten

keckVars == <<rebuilt, rebuilder, count, acked, wiped, rebuilds>>
vars == <<storageVars, keckVars>>

Kind(e) == e[1]
Req(e) == e[2]
Writer(e) == e[3]
OfKind(S, kinds) == {e \in S : Kind(e) \in kinds}
Deletes(S) == OfKind(S, {"del"})
\* Requests whose own value is among the entries.
Reqs(S) == {Req(e) : e \in OfKind(S, {"obj", "str", "arr", "map"})}

\* An instance writes the array of pages before the entry of the same request.
Before(d, e) ==
  /\ Writer(d) = Writer(e)
  /\ Req(d) < Req(e) \/ (Req(d) = Req(e) /\ Kind(d) = "pages" /\ Kind(e) # "pages")

\* What is loaded from entries S: the others are pending until the earlier ones
\* of their writer arrive.
Ready(S) ==
  {e \in S : Writer(e) # 0 => \A d \in inst[Writer(e)] : Before(d, e) => d \in S}
\* ... and what a reader sees of it.
Visible(S) ==
  {e \in Ready(S) : /\ Kind(e) # "del"
                    /\ Kind(e) \in {"pages", "flat"} \/ <<"del", Req(e), 0>> \notin S}

----------------------------------------------------------------------------
(* utils.rs: making a workspace readable for other Yjs clients. *)

\* Entries of one kind that have not been given a plain value.
Nested(S, kind, plain) ==
  {Req(e) : e \in OfKind(Visible(S), {kind})} \ {Req(e) : e \in OfKind(S, {plain})}

\* Nested entries get a plain value, written by the instance itself.
Normalized(S, ws) ==
  S \cup {<<"obj", n, ws>> : n \in Nested(S, "map", "obj")}
    \cup {<<"flat", n, ws>> : n \in Nested(S, "pages", "flat")}

\* Only root maps, with at least one object or array among their values.
Rebuildable(S) ==
  OfKind(Visible(S), {"arr"}) = {} /\ OfKind(Visible(S), {"obj", "flat"}) # {}

Rebuilt(S) ==
  {<<Kind(e), Req(e), 0>> : e \in OfKind(Visible(S), {"obj", "str", "flat"})}

----------------------------------------------------------------------------
(* The handlers. *)

get_workspace == <<"find">> \o get_or_create_workspace
persist_and_broadcast == <<"persist", "ack">>

get_map == get_workspace
get_map_key == get_workspace
get_array == get_workspace
get_array_element == get_workspace
get_doc_keys == get_workspace
subscribe_sse == get_workspace
workspace_client == get_workspace
workspace_clients == get_workspace
history_workspace == get_workspace
\* Handlers of blocks make the array of pages if there is none.
get_block == get_workspace \o <<"blocks">>
get_block_by_flavour == get_workspace \o <<"blocks">>
get_block_children == get_workspace \o <<"blocks">>
get_workspace_block == get_workspace \o <<"blocks">>
set_workspace == get_or_create_workspace
export_workspace == <<"export">>

Reads == {get_workspace, get_map, get_map_key, get_array, get_array_element,
          get_doc_keys, subscribe_sse, get_block, get_block_by_flavour,
          get_block_children, get_workspace_block, workspace_client,
          workspace_clients, history_workspace, set_workspace, export_workspace}

set_map(kind) == get_workspace \o <<kind>> \o persist_and_broadcast
modify_array == get_workspace \o <<"arr">> \o persist_and_broadcast
set_block == get_workspace \o <<"map">> \o persist_and_broadcast
delete_map_key == get_workspace \o <<"del">> \o persist_and_broadcast
delete_array_element == get_workspace \o <<"del">> \o persist_and_broadcast
\* These three change the document in memory and persist nothing.
delete_block == get_workspace \o <<"unmap">>
insert_block_children == get_workspace \o <<"map">>
remove_block_children == get_workspace \o <<"map">>

Writes == {set_map("obj"), set_map("str"), modify_array, set_block, delete_map_key,
           delete_array_element, delete_block, insert_block_children,
           remove_block_children}

delete_handler == <<"forget">> \o delete_workspace
upgrade_handler == get_or_create_workspace \o get_workspace \o <<"normalize">>

init_workspace(force) ==
  <<force>> \o flush_workspace \o <<"look", "open", "look", "export", "ack">>

----------------------------------------------------------------------------
(* Serving a request. *)

Begin(t, path, data) ==
  /\ loc[t] = Idle
  /\ count < MaxRequests /\ count' = count + 1
  /\ loc' = [loc EXCEPT ![t] = [Idle EXCEPT !.req = count', !.todo = path, !.ops = data,
                                    !.wrote = data]]
  /\ UNCHANGED <<rows, inst, cache, locks, rebuilt, rebuilder, acked, wiped, rebuilds>>

Request(t) ==
  \/ \E path \in Reads \cup Writes \cup {delete_handler, upgrade_handler} : Begin(t, path, {})
  \/ \E force \in {"vacant", "force"}, kind \in {"map", "str"} :
       Begin(t, init_workspace(force), {<<kind, count + 1, 0>>})

\* The handler gives up.
Answer(t) ==
  /\ loc[t] # Idle
  /\ \/ \E kind \in {"obj", "str", "arr", "map"} : At(t, kind)          \* 400, 404, 500
     \/ At(t, "find") /\ Detected(FALSE)                              \* 404
     \/ At(t, "vacant") /\ Detected(TRUE)                             \* 304
     \/ At(t, "again") /\ Detected(TRUE)                              \* 500
     \/ At(t, "export") /\ rows = <<>>                                \* 404
  /\ loc' = [loc EXCEPT ![t] = Idle]
  /\ UNCHANGED <<rows, inst, cache, locks, keckVars>>

\* Checks that let the handler go on.
Pass(t) ==
  /\ \/ At(t, "find") /\ Detected(TRUE)
     \/ \E s \in {"vacant", "force", "again"} : At(t, s) /\ Detected(FALSE)
     \/ At(t, "export") /\ rows # <<>>
  /\ Goes(t)
  /\ UNCHANGED <<rows, inst, cache, locks, keckVars>>

\* init_workspace with force: the workspace is forgotten, deleted and made anew.
Forced(t) ==
  /\ At(t, "force") /\ Detected(TRUE)
  /\ Becomes(t, Then(t, delete_handler \o <<"again">>))
  /\ UNCHANGED <<rows, inst, cache, locks, keckVars>>

\* After an import the workspace is opened to be logged, and once to be
\* normalised; one that is gone is only logged.
Reopen(t, step, steps) ==
  /\ At(t, step)
  /\ \E found \in BOOLEAN :
       /\ Detected(found)
       /\ Becomes(t, Then(t, IF found THEN get_or_create_workspace \o steps ELSE <<>>))
  /\ UNCHANGED <<rows, inst, cache, locks, keckVars>>

----------------------------------------------------------------------------
(* Writing through the REST API. *)

\* get_blocks: Workspace::pages makes the array where the metadata has none.
WithPages(t) ==
  LET S == inst[loc[t].ws] IN
  IF Nested(S, "pages", "flat") # {} THEN S ELSE S \cup {<<"pages", loc[t].req, loc[t].ws>>}

\* The deletions of one entry of some kinds, and the one that finds nothing.
Deletion(S, kinds) == {{}} \cup {{<<"del", Req(e), 0>>} : e \in OfKind(Visible(S), kinds)}

\* The document is changed, and its state vector taken before: for blocks, when
\* the array of pages is there already.
Put(t) ==
  \E kind \in {"obj", "str", "arr", "map", "del", "unmap", "blocks"} :
    LET before == IF kind \in {"map", "unmap", "blocks"} THEN WithPages(t) ELSE inst[loc[t].ws] IN
    /\ At(t, kind)
    /\ \E new \in CASE kind = "blocks" -> {{}}
                    [] kind = "del"    -> Deletion(before, {"obj", "str", "arr"})
                    [] kind = "unmap"  -> Deletion(before, {"map"})
                    [] OTHER           -> {{<<kind, loc[t].req, loc[t].ws>>}} :
         /\ inst' = [inst EXCEPT ![loc[t].ws] = before \cup new]
         /\ Becomes(t, [Then(t, <<>>) EXCEPT !.data = before, !.wrote = new])
    /\ UNCHANGED <<rows, cache, locks, keckVars>>

\* Mutant: only what is new to the state vector, without the deletions.
DiffStructs(S, before) == (S \ before) \ Deletes(S)

\* encode_update_since: the new entries, and all deletions.
Diff(S, before) == (S \ before) \cup Deletes(S)

Persist(t) ==
  /\ At(t, "persist")
  /\ LET update == Diff(inst[loc[t].ws], loc[t].data) IN
     Becomes(t, [Then(t, IF update = {} THEN <<>> ELSE update_doc)
                 EXCEPT !.ops = update, !.data = {}, !.ws = 0])
  /\ UNCHANGED <<rows, inst, cache, locks, keckVars>>

Ack(t) ==
  /\ At(t, "ack")
  /\ acked' = acked \cup {<<loc[t].req, e>> : e \in loc[t].wrote}
  /\ Goes(t)
  /\ UNCHANGED <<rows, inst, cache, locks, rebuilt, rebuilder, count, wiped, rebuilds>>

----------------------------------------------------------------------------
(* Normalising and rebuilding a workspace. *)

Forget(t) ==
  /\ At(t, "forget") /\ rebuilder = NoTask
  /\ rebuilt' = FALSE /\ rebuilds' = 0
  /\ Goes(t)
  /\ UNCHANGED <<rows, inst, cache, locks, rebuilder, count, acked, wiped>>

Mark(t) ==
  /\ At(t, "mark") /\ rebuilder = NoTask
  /\ rebuilt' = TRUE
  /\ Goes(t)
  /\ UNCHANGED <<rows, inst, cache, locks, rebuilder, count, acked, wiped, rebuilds>>

\* A connection or an import normalises the instance it got, then persists the
\* rebuilt document, the normalised one, or nothing.
Normalize(t, step, rebuild) ==
  /\ At(t, step)
  /\ LET ws == loc[t].ws
         S == Normalized(inst[ws], ws)
     IN /\ inst' = [inst EXCEPT ![ws] = S]
        /\ Becomes(t, [Then(t, CASE Rebuildable(S)   -> rebuild
                                 [] S # inst[ws]     -> full_migrate
                                 [] OTHER            -> <<>>)
                       EXCEPT !.ops = IF Rebuildable(S) THEN Rebuilt(S) ELSE S, !.ws = 0])
  /\ UNCHANGED <<rows, cache, locks, keckVars>>

\* Mutant: the set is asked without the lock being kept over the migration.
RebuildUnlocked(t) ==
  /\ At(t, "rebuild")
  /\ Becomes(t, Then(t, IF rebuilt THEN <<>> ELSE full_migrate \o <<"rebuilt">>))
  /\ UNCHANGED <<rows, inst, cache, locks, keckVars>>

(* persist_plain_yjs_rebuild_once *)
Rebuild(t) ==
  /\ At(t, "rebuild") /\ rebuilder = NoTask
  /\ Becomes(t, Then(t, IF rebuilt THEN <<>> ELSE full_migrate \o <<"rebuilt">>))
  /\ rebuilder' = IF rebuilt THEN rebuilder ELSE t
  /\ UNCHANGED <<rows, inst, cache, locks, rebuilt, count, acked, wiped, rebuilds>>

RebuildDone(t) ==
  /\ At(t, "rebuilt")
  /\ rebuilt' = TRUE /\ rebuilder' = NoTask
  /\ rebuilds' = rebuilds + 1
  /\ Goes(t)
  /\ UNCHANGED <<rows, inst, cache, locks, count, acked, wiped>>

----------------------------------------------------------------------------
\* The server stops and starts again: the rows are what is left.
Crash ==
  /\ cache # 0 \/ \E t \in Tasks : loc[t] # Idle
  /\ loc' = [t \in Tasks |-> Idle]
  /\ cache' = 0 /\ bucket' = {} /\ owner' = NoTask /\ migrating' = NoTask
  /\ rebuilt' = FALSE /\ rebuilder' = NoTask /\ rebuilds' = 0
  /\ wiped' = IF \E t \in Tasks : At(t, "merged") \/ At(t, "full") THEN count ELSE wiped
  /\ UNCHANGED <<rows, inst, acked, count>>

\* There is no workspace yet, or one with a block.
Init ==
  /\ rows \in {<<>>, <<Row({<<"map", 0, 0>>, <<"pages", 0, 0>>}, TRUE)>>}
  /\ StorageInit
  /\ rebuilt = FALSE /\ rebuilder = NoTask
  /\ count = 0 /\ acked = {} /\ wiped = 0 /\ rebuilds = 0

\* A deletion, and a replacement by a snapshot, take the rows away.
Wipes(t) == At(t, "drop") \/ (At(t, "clear") /\ Ahead(t, "full"))

ServerStep(t) ==
  \/ Answer(t) \/ Pass(t) \/ Forced(t) \/ Put(t) \/ Persist(t) \/ Ack(t)
  \/ Forget(t) \/ Mark(t) \/ Rebuild(t) \/ RebuildDone(t)
  \/ Reopen(t, "look", <<>>) \/ Reopen(t, "open", <<"import">>)
  \/ Normalize(t, "normalize", <<"rebuild">>)
  \/ Normalize(t, "import", full_migrate \o <<"mark">>)
  \/ /\ StorageStep(t)
     /\ wiped' = IF Wipes(t) THEN count ELSE wiped
     /\ UNCHANGED <<rebuilt, rebuilder, count, acked, rebuilds>>

Next ==
  \/ /\ \E t \in Tasks : Request(t) \/ ServerStep(t)
     /\ overlap' = (overlap \/ Cardinality(Replacing') > 1)
  \/ Crash /\ UNCHANGED overlap

Spec == Init /\ [][Next]_vars

----------------------------------------------------------------------------
(* Properties *)

Kinds == {"obj", "str", "arr", "map", "pages", "flat", "del"}
IsEntry(e) == Kind(e) \in Kinds /\ Req(e) \in 0..MaxRequests /\ Writer(e) \in 0..Len(inst)

(* Every variable holds a value of its kind; a lock is held only by a task that
   still has the step ahead at which its guard is dropped. *)
TypeOK ==
  /\ \A i \in DOMAIN rows : rows[i].main \in BOOLEAN
  /\ \A e \in Contents(rows) \cup UNION {inst[i] : i \in DOMAIN inst} : IsEntry(e)
  /\ cache \in 0..Len(inst)
  /\ \A t \in bucket : \E s \in {"insert", "cached", "drop"} : Ahead(t, s)
  /\ owner # NoTask => Ahead(owner, "cached")
  /\ migrating # NoTask => Ahead(migrating, "migrated")
  /\ rebuilder # NoTask => Ahead(rebuilder, "rebuilt")
  /\ count \in 0..MaxRequests /\ wiped \in 0..count
  /\ \A a \in acked : a[1] \in 1..count /\ IsEntry(a[2])

\* The entry, or what a rebuild made of it, is among the entries S.
Kept(e, S) == IF Kind(e) = "del" THEN e \in S \/ Req(e) \notin Reqs(S)
              ELSE Req(e) \in Reqs(S)

\* What the rows hold, and what a running merge will put back.
OnRecord == Contents(rows) \cup Held

(* What a handler has persisted and answered stays on record through merges of
   the rows (update, init_workspace), loads by other requests and restarts,
   unless the workspace was deleted or replaced as a whole after the request
   began, or the server stopped between the two halves of replace_with.  After
   two replacements at once a row may belong to no document, and a merge of the
   others deletes what it took in. *)
AckedKept == overlap \/ \A a \in acked : a[1] > wiped => Kept(a[2], OnRecord)

(* Every row is a row of the workspace's root document, so that init_workspace
   finds them all: replace_with carries is_workspace over from the rows it
   deletes.  Only two replacements at once can break it. *)
RowsAreFound == overlap \/ \A i \in DOMAIN rows : rows[i].main

(* Connections that arrive together rebuild a workspace of plain maps once
   (persist_plain_yjs_rebuild_once): the set is asked and extended under one
   lock, or a later rebuild would replace what was written since the first. *)
RebuiltOnce == rebuilds <= 1

(* Handlers take plain_yjs_rebuilt, last_migrate, the cache and the bucket in
   one order, and none keeps one of them when it returns: some request can
   always go on. *)
Stalled(t) ==
  \/ Waiting(t)
  \/ \E s \in {"forget", "mark", "rebuild"} : At(t, s) /\ rebuilder # NoTask
  \/ \E s \in {"find", "vacant", "force", "again", "look", "open"} :
       At(t, s) /\ ~\E found \in BOOLEAN : Detected(found)
NoneStuck == (\E t \in Tasks : loc[t] # Idle) => \E t \in Tasks : loc[t] # Idle /\ ~Stalled(t)

(* The docs table under these handlers implements DurableDoc: no step but a
   replacement, a deletion or a crash in the middle of a merge takes an entry
   off the record. *)
StorageIsDurable == Durable!Spec

(* persist_and_broadcast makes a REST write durable: what it stored is read
   again when the workspace is loaded from the rows. *)
RestWritesDurable ==
  \A a \in acked : a[1] > wiped => Kept(a[2], Ready(OnRecord))
=============================================================================
