------------------------------- MODULE BlobApi -------------------------------
(****************************************************************************)
(* The HTTP handlers for blobs, on the storages of BlobStore: those of keck *)
(* (server/api/blobs.rs, server/sync/blobs.rs) and those of the cloud       *)
(* server (api/blobs.rs, application/blob_service.rs).  A handler is a      *)
(* request in one of Tasks; between two awaited calls other requests run.   *)
(*                                                                          *)
(* The workspace belongs to "owner", "member" may read it, "guest" may not  *)
(* (the Cloud module has the permissions themselves).  Every blob has size  *)
(* one.  A broken upload is a body whose stream ends in an error: what was  *)
(* received is stored under its own hash and then deleted again.            *)
(****************************************************************************)
EXTENDS BlobStore

CONSTANTS MaxUsage,      \* MAX_USAGE of blob_service.rs
          MaxRequests    \* bound: requests of a behaviour

ASSUME QuotaAssumption == MaxUsage \in Nat /\ MaxRequests \in Nat

Servers == {"keck", "cloud"}
Users == {"owner", "member", "guest"}

VARIABLES
  server,    \* which of the two servers runs
  req,       \* the request of each task
  status,    \* the last response, until the next request
  count,     \* requests so far
  kept,      \* contents acknowledged and not asked to be deleted since
  by,        \* who made the row of a content live
  crossed    \* contents deleted while a copy of them was being made

apiVars == <<server, req, status, count, kept, by, crossed>>
vars == <<deploy, storeVars, apiVars>>

Idle == [stage |-> "idle", user |-> "guest", broken |-> FALSE, head |-> FALSE,
         fail |-> 0, clean |-> FALSE]

\* Requests that will delete content h, or everything.
Deleting(t, h) ==
  \/ call[t].op = "drop"
  \/ call[t].h = h /\ (call[t].op = "delete" \/ req[t].broken)

----------------------------------------------------------------------------
(* Starting a request and answering it. *)

Start(t, r, c) ==
  /\ req[t].stage = "idle"
  /\ count < MaxRequests
  /\ count' = count + 1
  /\ req' = [u \in Tasks |->
       IF u = t THEN [r EXCEPT !.clean = ~ \E v \in Tasks \ {t} : Deleting(v, c.h)]
       ELSE IF (c.op \in {"delete", "drop"} \/ r.broken) /\ (call[u].h = c.h \/ c.op = "drop")
            THEN [req[u] EXCEPT !.clean = FALSE] ELSE req[u]]
  /\ call' = [call EXCEPT ![t] = c]
  /\ kept' = CASE c.op = "drop"                 -> {}
               [] c.op = "delete" \/ r.broken   -> kept \ {c.h}
               [] OTHER                         -> kept
  /\ status' = 0
  /\ UNCHANGED <<deploy, rows, copies, objects, holders, server, by, crossed>>

Answer(t, code) ==
  /\ req' = [req EXCEPT ![t] = Idle]
  /\ call' = [call EXCEPT ![t] = NoCall]
  /\ status' = code

Goto(t, stage, c) ==
  /\ req' = [req EXCEPT ![t].stage = stage]
  /\ call' = [call EXCEPT ![t] = c]
  /\ UNCHANGED status

Refuse(t, code) ==
  /\ req[t].stage = "idle" /\ count < MaxRequests
  /\ count' = count + 1
  /\ status' = code
  /\ UNCHANGED <<deploy, storeVars, server, req, kept, by, crossed>>

\* The answer, or the next call, after a call returned.
After(t, stage, A) ==
  /\ req[t].stage = stage /\ Done(t)
  /\ A
  /\ UNCHANGED <<deploy, rows, copies, objects, holders, server, count, by, crossed>>

Request(stage) == [Idle EXCEPT !.stage = stage]

\* An upload, by whom, and the status of a put that fails.
Upload(stage, user, broken, fail) ==
  [Request(stage) EXCEPT !.user = user, !.broken = broken, !.fail = fail]

----------------------------------------------------------------------------
(* keck *)

check_blob(t, h) ==
  /\ server = "keck"
  /\ Start(t, Request("check"), Begin("check", h, FALSE))

get_blob(t, h) ==
  /\ server = "keck"
  /\ Start(t, Request("get"), Begin("get", h, FALSE))

set_blob(t, h, broken) ==
  /\ server = "keck"
  /\ Start(t, Upload("put", "guest", broken, 404), Begin("put", h, FALSE))

delete_blob(t, h) ==
  /\ server = "keck"
  /\ Start(t, Request("delete"), Begin("delete", h, FALSE))

\* An entity tag that matches answers 304 before the storage is asked.
sync_get_blob(t, h, head) ==
  /\ server = "keck"
  /\ \/ Refuse(t, 304)
     \/ Start(t, [Request("meta") EXCEPT !.head = head], Begin("meta", h, FALSE))

\* More than ten megabytes are refused, the rest is uploaded as set_blob does.
sync_upload_blob(t, h, broken) ==
  /\ server = "keck"
  /\ \/ Refuse(t, 413)
     \/ Start(t, Upload("put", "guest", broken, 500), Begin("put", h, FALSE))

(* the cloud server *)

CanRead(u) == u \in {"owner", "member"}

get_blob_in_workspace(t, u, h, conv, head) ==
  /\ server = "cloud"
  /\ \/ ~CanRead(u) /\ Refuse(t, 403)
     \/ CanRead(u) /\ Refuse(t, 304)
     \/ /\ CanRead(u)
        /\ Start(t, [Request("meta") EXCEPT !.head = head], Begin("meta", h, conv))

\* The usage is asked for first, the permission after it.
upload_blob_in_workspace(t, u, h, broken) ==
  /\ server = "cloud"
  /\ \/ Refuse(t, 413)
     \/ Start(t, Upload("usage", u, broken, 500), Begin("size", h, FALSE))

get_user_resource_usage(t, u) ==
  /\ server = "cloud"
  /\ Start(t, Request("ask"), Begin("size", NoHash, FALSE))

\* The end of the cloud's delete_workspace; the result is ignored.
delete_workspace(t) ==
  /\ server = "cloud"
  /\ Start(t, Request("drop"), Begin("drop", NoHash, FALSE))

----------------------------------------------------------------------------
(* What follows the calls. *)

\* Mutant: the new blob is not counted.
OverLimitBefore(u, size) == (IF u = "owner" THEN size ELSE 0) > MaxUsage

\* The usage of a user is that of the workspaces he owns.
OverLimit(u, size) == (IF u = "owner" THEN size ELSE 0) + 1 > MaxUsage

\* Modified since: 304; a HEAD is answered from the metadata alone.
MetaDone(t) == After(t, "meta",
  /\ \/ call[t].result # "ok" /\ Answer(t, 404)
     \/ call[t].result = "ok" /\ Answer(t, 304)
     \/ call[t].result = "ok" /\ req[t].head /\ Answer(t, 200)
     \/ /\ call[t].result = "ok" /\ ~req[t].head
        /\ Goto(t, "get", Begin("get", call[t].h, call[t].conv))
  /\ UNCHANGED kept)

GetDone(t) == After(t, "get",
  /\ Answer(t, IF call[t].result = "ok" THEN 200 ELSE 404)
  /\ UNCHANGED kept)

CheckDone(t) == After(t, "check",
  /\ Answer(t, IF call[t].result = "ok" THEN 200 ELSE 404)
  /\ UNCHANGED kept)

DeleteDone(t) == After(t, "delete",
  /\ Answer(t, IF call[t].result = "ok" THEN 204 ELSE 404)
  /\ UNCHANGED kept)

DropDone(t) == After(t, "drop", Answer(t, 200) /\ UNCHANGED kept)

AskDone(t) == After(t, "ask", Answer(t, 200) /\ UNCHANGED kept)

\* The sum was taken by the call; check and store are separate steps.
UsageDone(t) == After(t, "usage",
  /\ \/ OverLimit(req[t].user, call[t].size) /\ Answer(t, 413)
     \/ ~OverLimit(req[t].user, call[t].size) /\ ~CanRead(req[t].user) /\ Answer(t, 403)
     \/ /\ ~OverLimit(req[t].user, call[t].size) /\ CanRead(req[t].user)
        /\ Goto(t, "put", Begin("put", call[t].h, FALSE))
  /\ UNCHANGED kept)

\* A failed put is 404 in set_blob and 500 elsewhere; a broken stream deletes
\* what was stored under the hash of the part that arrived.
PutDone(t) == After(t, "put",
  \/ /\ call[t].result # "ok"
     /\ Answer(t, req[t].fail)
     /\ UNCHANGED kept
  \/ /\ call[t].result = "ok" /\ req[t].broken
     /\ Goto(t, "cleanup", Begin("delete", call[t].h, FALSE))
     /\ UNCHANGED kept
  \/ /\ call[t].result = "ok" /\ ~req[t].broken
     /\ Answer(t, 200)
     /\ kept' = IF req[t].clean THEN kept \cup {call[t].h} ELSE kept)

CleanupDone(t) == After(t, "cleanup", Answer(t, 500) /\ UNCHANGED kept)

----------------------------------------------------------------------------

Init ==
  /\ StoreInit
  /\ server \in Servers
  /\ deploy.kind \in IF server = "keck" THEN {"raw", "auto"} ELSE {"auto", "bucket"}
  /\ req = [t \in Tasks |-> Idle]
  /\ status = 0
  /\ count = 0
  /\ kept = {}
  /\ by = [h \in Hashes |-> "guest"]
  /\ crossed = {}

\* Copies of h on their way when the copies of h are deleted.
Crossing(t) ==
  IF At(t, "delete_copies") \/ At(t, "drop_copies")
  THEN {h \in Hashes : h = call[t].h \/ At(t, "drop_copies")} \cap
       {call[u].h : u \in {v \in Tasks : \E s \in {"optimize", "find_copy", "store_copy"} : At(v, s)}}
  ELSE {}

Serve(t) ==
  /\ StoreStep(t)
  /\ by' = [h \in Hashes |-> IF rows'[h] = "live" /\ rows[h] # "live"
                             THEN req[t].user ELSE by[h]]
  /\ crossed' = crossed \cup Crossing(t)
  /\ UNCHANGED <<deploy, server, req, status, count, kept>>

Respond(t) ==
  \/ MetaDone(t) \/ GetDone(t) \/ CheckDone(t) \/ DeleteDone(t) \/ DropDone(t)
  \/ AskDone(t) \/ UsageDone(t) \/ PutDone(t) \/ CleanupDone(t)

Arrive(t) ==
  \/ \E h \in Hashes :
       \/ check_blob(t, h) \/ get_blob(t, h) \/ delete_blob(t, h)
       \/ \E b \in BOOLEAN : set_blob(t, h, b) \/ sync_upload_blob(t, h, b) \/ sync_get_blob(t, h, b)
       \/ \E u \in Users, b \in BOOLEAN : upload_blob_in_workspace(t, u, h, b)
       \/ \E u \in Users, conv, head \in BOOLEAN : get_blob_in_workspace(t, u, h, conv, head)
  \/ \E u \in Users : get_user_resource_usage(t, u)
  \/ delete_workspace(t)

Next == \E t \in Tasks : Arrive(t) \/ Serve(t) \/ Respond(t)

Spec == Init /\ [][Next]_vars

----------------------------------------------------------------------------
TypeOK ==
  /\ deploy \in [kind : Kinds, sqlite : BOOLEAN]
  /\ rows \in [Hashes -> RowStates] /\ copies \in [Hashes -> RowStates]
  /\ objects \subseteq Hashes /\ holders \subseteq Tasks /\ kept \subseteq Hashes
  /\ \A t \in Tasks : /\ call[t].op \in Ops \cup {"none"}
                      /\ call[t].op = "none" <=> req[t].stage = "idle"
                      /\ t \in holders => call[t].todo # <<>>
  /\ server \in Servers /\ count \in 0..MaxRequests
  /\ by \in [Hashes -> Users] /\ crossed \subseteq Hashes

(* A blob whose upload was answered 200, and that no later or overlapping
   request deletes, can be read: put_blob_stream, the delete that follows a
   broken stream, delete_blob and delete_workspace, in any order.  Not claimed
   for a bucket without SQLite's lock: of two uploads of one content the one
   whose insert fails takes the object away. *)
AckedReadable == (deploy.kind = "bucket" => deploy.sqlite) => \A h \in kept : Readable(h)

(* An optimized copy does not outlive its origin, once the delete is through
   its two steps, unless the copy was being made while they ran. *)
CopiesFollow ==
  \A h \in Hashes \ crossed :
    copies[h] = "live" => \/ rows[h] = "live"
                          \/ \E t \in Tasks : call[t].todo # <<>> /\ Deleting(t, h)

(* The quota is checked before the upload and nothing is reserved: what an
   owner stores himself exceeds MAX_USAGE at most by the uploads that were
   checked at the same time, one per further request. *)
OwnerQuota ==
  Cardinality({h \in Hashes : rows[h] = "live" /\ by[h] = "owner"})
    <= MaxUsage + Cardinality(Tasks) - 1

(* No request is stuck: no cleanup waits for the lock its own request holds, and
   no lock outlives its call.  A call runs at most five steps and a request two
   calls, so a request that is never stuck is answered. *)
NoneStuck == (\E t \in Tasks : req[t].stage # "idle") =>
               ENABLED \E t \in Tasks : Serve(t) \/ Respond(t)

=============================================================================
