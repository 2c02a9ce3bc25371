------------------------------ MODULE BlobStore ------------------------------
(****************************************************************************)
(* The blob storages of jwst-storage: blobs in the database ("raw"), in the *)
(* database with optimized copies of images ("auto"), and in an object      *)
(* store with a row per blob in the database ("bucket").  A blob is named   *)
(* by the hash of its content, so a hash stands for the bytes.              *)
(*                                                                          *)
(* A call of a storage method is the sequence of its awaited steps still    *)
(* to run; every query of the database or of the object store is atomic,    *)
(* and the steps of different calls interleave wherever the lock of the     *)
(* rate limiter allows it.  One workspace; see BlobApi for the handlers.    *)
(****************************************************************************)
EXTENDS Naturals, Sequences, FiniteSets

CONSTANTS Tasks,     \* requests served at the same time
          Hashes,    \* contents of blobs
          NoHash,    \* no content, in calls that name none
          Permits    \* permits of the semaphore (get_bucket)

ASSUME PermitsAssumption == Permits \in Nat \ {0} /\ NoHash \notin Hashes

Kinds == {"raw", "auto", "bucket"}
Ops == {"put", "delete", "drop", "get", "meta", "check", "size"}
RowStates == {"none", "live", "deleted"}

VARIABLES
  deploy,     \* [kind, sqlite]: the storage and lock chosen at start-up
  rows,       \* rows of blobs (or bucket_blobs): absent, live or soft-deleted
  copies,     \* rows of optimized_blobs, one per hash
  objects,    \* objects of the bucket
  holders,    \* tasks that hold the lock for writing
  call        \* the storage call of each task

storeVars == <<rows, copies, objects, holders, call>>

NoCall == [op |-> "none", h |-> NoHash, conv |-> FALSE, todo |-> <<>>,
           found |-> "none", size |-> 0, result |-> "none"]

(* The lock of the rate limiter: SQLite has one writer at a time, any other
   database a semaphore with several permits, for readers and writers alike. *)
Free == IF deploy.sqlite THEN holders = {}
                         ELSE Cardinality(holders) < Permits

----------------------------------------------------------------------------
(* The steps of each method, storage by storage. *)

RawPath(op) ==
  CASE op = "put"    -> <<"lock", "stream", "find", "store">>
    [] op = "delete" -> <<"lock", "delete">>
    [] op = "drop"   -> <<"lock", "drop">>
    [] op = "size"   -> <<"read">>
    [] OTHER         -> <<"locked_read">>

\* Mutant: the optimized copies go before the origin.
AutoPathCopiesFirst(op, conv) ==
  CASE op = "delete"         -> <<"delete_copies", "lock", "delete">>
    [] op = "drop"           -> <<"lock", "drop", "unlock", "drop_copies">>
    [] op = "get" /\ conv    -> <<"get_copy", "get_origin", "optimize", "find_copy", "store_copy">>
    [] op = "meta" /\ conv   -> <<"meta_copy">>
    [] op \in {"get", "meta"} -> <<"read">>
    [] OTHER                 -> RawPath(op)

\* The optimized copies go after the origin, and outside its lock.
AutoPath(op, conv) ==
  CASE op = "delete"         -> <<"lock", "delete", "unlock", "delete_copies">>
    [] op = "drop"           -> <<"lock", "drop", "unlock", "drop_copies">>
    [] op = "get" /\ conv    -> <<"get_copy", "get_origin", "optimize", "find_copy", "store_copy">>
    [] op = "meta" /\ conv   -> <<"meta_copy">>
    [] op \in {"get", "meta"} -> <<"read">>
    [] OTHER                 -> RawPath(op)

\* put_blob_stream writes the object before it asks for the lock.
BucketPath(op) ==
  CASE op = "put"    -> <<"stream", "put_object", "lock", "find", "store">>
    [] op = "delete" -> <<"delete_object", "lock", "delete">>
    [] op = "drop"   -> <<"remove_all", "lock", "drop">>
    [] op = "get"    -> <<"get_object">>
    [] OTHER         -> <<"locked_read">>

(* JwstBlobStorage hands every call to the storage it was built with. *)
Path(op, conv) == CASE deploy.kind = "raw"  -> RawPath(op)
                    [] deploy.kind = "auto" -> AutoPath(op, conv)
                    [] OTHER                -> BucketPath(op)

Begin(op, h, conv) == [NoCall EXCEPT !.op = op, !.h = h, !.conv = conv, !.todo = Path(op, conv)]

At(t, step) == call[t].todo # <<>> /\ Head(call[t].todo) = step
Done(t) == call[t].op # "none" /\ call[t].todo = <<>>

\* Mutant: a put forgets to give the lock back.
ReturnLocked(t, r) ==
  /\ call' = [call EXCEPT ![t].todo = <<>>, ![t].found = "none", ![t].result = r]
  /\ holders' = IF call[t].op = "put" THEN holders ELSE holders \ {t}

\* The guard of the lock lives until the method returns.
Return(t, r) ==
  /\ call' = [call EXCEPT ![t].todo = <<>>, ![t].found = "none", ![t].result = r]
  /\ holders' = holders \ {t}

Advance(t) == call' = [call EXCEPT ![t].todo = Tail(@)]

----------------------------------------------------------------------------
(* Steps every storage takes. *)

Lock(t) ==
  /\ At(t, "lock") /\ Free
  /\ holders' = holders \cup {t}
  /\ Advance(t)
  /\ UNCHANGED <<rows, copies, objects>>

\* The client's body is read to its end; the database storages hold the lock.
ReadStream(t) ==
  /\ At(t, "stream")
  /\ Advance(t)
  /\ UNCHANGED <<rows, copies, objects, holders>>

Unlock(t) ==
  /\ At(t, "unlock")
  /\ holders' = holders \ {t}
  /\ Advance(t)
  /\ UNCHANGED <<rows, copies, objects>>

(* A query of the rows: exists, metadata and get skip what is soft-deleted. *)
ReadRows(t) ==
  /\ At(t, "read") \/ (At(t, "locked_read") /\ Free)
  /\ call[t].op # "size"
  /\ Return(t, IF rows[call[t].h] = "live" THEN "ok" ELSE "missing")
  /\ UNCHANGED <<rows, copies, objects>>

(* get_blobs_size sums the lengths of the live rows; every blob has length one. *)
SumRows(t) ==
  /\ At(t, "read") \/ (At(t, "locked_read") /\ Free)
  /\ call[t].op = "size"
  /\ call' = [call EXCEPT ![t].todo = <<>>, ![t].result = "ok",
                         ![t].size = Cardinality({h \in Hashes : rows[h] = "live"})]
  /\ UNCHANGED <<rows, copies, objects, holders>>

----------------------------------------------------------------------------
(* BlobDBStorage and BlobBucketStorage: the rows. *)

FindRow(t) ==
  /\ At(t, "find")
  /\ call' = [call EXCEPT ![t].found = rows[call[t].h], ![t].todo = Tail(@)]
  /\ UNCHANGED <<rows, copies, objects, holders>>

\* Mutant: a soft-deleted row is taken for a stored one.
InsertRowSeen(found, now) ==
  IF found # "none" THEN now ELSE IF now = "none" THEN "live" ELSE "error"

(* What insert makes of the row it found and the row there is now: "error"
   stands for the violated primary key or the update of a vanished row. *)
InsertRow(found, now) ==
  CASE found = "live"    -> now
    [] found = "deleted" -> IF now = "none" THEN "error" ELSE "live"
    [] OTHER             -> IF now = "none" THEN "live" ELSE "error"

BucketInsert(found, now) ==
  IF found = "live" THEN now ELSE IF now = "none" THEN "live" ELSE "error"

(* The second half of a put; a bucket's failed insert takes the object back. *)
StoreRow(t) ==
  LET c   == call[t]
      row == IF deploy.kind = "bucket" THEN BucketInsert(c.found, rows[c.h])
                                       ELSE InsertRow(c.found, rows[c.h])
  IN /\ At(t, "store")
     /\ \/ /\ row # "error"
           /\ rows' = [rows EXCEPT ![c.h] = row]
           /\ Return(t, "ok")
        \/ /\ row = "error"
           /\ IF deploy.kind = "bucket"
              THEN call' = [call EXCEPT ![t].todo = <<"undo_object">>] /\ UNCHANGED holders
              ELSE Return(t, "error")
           /\ UNCHANGED rows
     /\ UNCHANGED <<copies, objects>>

\* Soft delete of a live row.
DeletedRow(row) == IF row = "live" THEN "deleted" ELSE row

\* The bucket's rows are deleted for good.
BucketDeleted(row) == "none"

DeleteRow(t) ==
  LET h == call[t].h  hit == rows[h] = "live"
  IN /\ At(t, "delete")
     /\ rows' = [rows EXCEPT ![h] = IF deploy.kind = "bucket" THEN BucketDeleted(@)
                                                              ELSE DeletedRow(@)]
     /\ IF hit /\ Len(call[t].todo) > 1
        THEN Advance(t) /\ UNCHANGED holders
        ELSE Return(t, IF hit THEN "ok" ELSE "missing")
     /\ UNCHANGED <<copies, objects>>

DropRows(t) ==
  /\ At(t, "drop")
  /\ rows' = [h \in Hashes |-> "none"]
  /\ IF Len(call[t].todo) > 1 THEN Advance(t) /\ UNCHANGED holders
                              ELSE Return(t, "ok")
  /\ UNCHANGED <<copies, objects>>

----------------------------------------------------------------------------
(* BucketStorage: the object store.  A write may fail and leaves nothing. *)

PutObject(t) ==
  /\ At(t, "put_object")
  /\ \/ objects' = objects \cup {call[t].h} /\ Advance(t) /\ UNCHANGED holders
     \/ Return(t, "error") /\ UNCHANGED objects
  /\ UNCHANGED <<rows, copies>>

GetObject(t) ==
  /\ At(t, "get_object")
  /\ Return(t, IF call[t].h \in objects THEN "ok" ELSE "missing")
  /\ UNCHANGED <<rows, copies, objects>>

DeleteObject(t) ==
  /\ At(t, "delete_object") \/ At(t, "undo_object")
  /\ objects' = objects \ {call[t].h}
  /\ IF At(t, "undo_object") THEN Return(t, "error")
                             ELSE Advance(t) /\ UNCHANGED holders
  /\ UNCHANGED <<rows, copies>>

RemoveAll(t) ==
  /\ At(t, "remove_all")
  /\ objects' = {}
  /\ Advance(t)
  /\ UNCHANGED <<rows, copies, holders>>

----------------------------------------------------------------------------
(* BlobAutoStorage: optimized copies, made by the first reader. *)

MetaCopy(t) ==
  /\ At(t, "meta_copy")
  /\ Return(t, IF "live" \in {copies[call[t].h], rows[call[t].h]} THEN "ok" ELSE "missing")
  /\ UNCHANGED <<rows, copies, objects>>

GetCopy(t) ==
  /\ At(t, "get_copy")
  /\ IF copies[call[t].h] = "live" THEN Return(t, "ok") ELSE Advance(t) /\ UNCHANGED holders
  /\ UNCHANGED <<rows, copies, objects>>

GetOrigin(t) ==
  /\ At(t, "get_origin")
  /\ IF rows[call[t].h] = "live" THEN Advance(t) /\ UNCHANGED holders ELSE Return(t, "missing")
  /\ UNCHANGED <<rows, copies, objects>>

\* optimize_image runs on a blocking thread and fails on what is no image.
OptimizeImage(t) ==
  /\ At(t, "optimize")
  /\ \/ Advance(t) /\ UNCHANGED holders
     \/ Return(t, "error")
  /\ UNCHANGED <<rows, copies, objects>>

FindCopy(t) ==
  /\ At(t, "find_copy")
  /\ call' = [call EXCEPT ![t].found = copies[call[t].h], ![t].todo = Tail(@)]
  /\ UNCHANGED <<rows, copies, objects, holders>>

StoreCopy(t) ==
  LET h == call[t].h  copy == InsertRow(call[t].found, copies[h])
  IN /\ At(t, "store_copy")
     /\ copies' = IF copy = "error" THEN copies ELSE [copies EXCEPT ![h] = copy]
     /\ Return(t, IF copy = "error" THEN "error" ELSE "ok")
     /\ UNCHANGED <<rows, objects>>

DeleteCopies(t) ==
  /\ At(t, "delete_copies")
  /\ copies' = [copies EXCEPT ![call[t].h] = DeletedRow(@)]
  /\ IF Len(call[t].todo) > 1 THEN Advance(t) /\ UNCHANGED holders
                              ELSE Return(t, "ok")
  /\ UNCHANGED <<rows, objects>>

DropCopies(t) ==
  /\ At(t, "drop_copies")
  /\ copies' = [h \in Hashes |-> "none"]
  /\ Return(t, "ok")
  /\ UNCHANGED <<rows, objects>>

StoreInit ==
  /\ deploy \in [kind : Kinds, sqlite : BOOLEAN]
  /\ rows = [h \in Hashes |-> "none"]
  /\ copies = [h \in Hashes |-> "none"]
  /\ objects = {}
  /\ holders = {}
  /\ call = [t \in Tasks |-> NoCall]

StoreStep(t) ==
  \/ Lock(t) \/ ReadStream(t) \/ Unlock(t) \/ ReadRows(t) \/ SumRows(t)
  \/ FindRow(t) \/ StoreRow(t) \/ DeleteRow(t) \/ DropRows(t)
  \/ PutObject(t) \/ GetObject(t) \/ DeleteObject(t) \/ RemoveAll(t)
  \/ MetaCopy(t) \/ GetCopy(t) \/ GetOrigin(t) \/ OptimizeImage(t)
  \/ FindCopy(t) \/ StoreCopy(t) \/ DeleteCopies(t) \/ DropCopies(t)

\* What a GET of the content needs.
Readable(h) == IF deploy.kind = "bucket" THEN h \in objects ELSE rows[h] = "live"

=============================================================================
