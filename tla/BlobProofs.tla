------------------------------ MODULE BlobProofs ------------------------------
(****************************************************************************)
(* Proofs about BlobApi, for any contents, requests and permits: what was   *)
(* acknowledged stays readable, optimized copies go with their origin, and  *)
(* the quota is overrun only by checks that ran at the same time, and the   *)
(* requests never wait in a circle for the lock.                            *)
(****************************************************************************)
EXTENDS BlobApi, FiniteSetTheorems, TLAPS

\* What is left of the steps of a call, by storage.
Puts == {<<"lock", "stream", "find", "store">>, <<"stream", "find", "store">>,
         <<"find", "store">>, <<"store">>, <<>>}
BucketPuts == {<<"stream", "put_object", "lock", "find", "store">>,
               <<"put_object", "lock", "find", "store">>, <<"lock", "find", "store">>,
               <<"find", "store">>, <<"store">>, <<"undo_object">>, <<>>}
RawDeletes == {<<"lock", "delete">>, <<"delete">>, <<>>}
AutoDeletes == {<<"lock", "delete", "unlock", "delete_copies">>,
                <<"delete", "unlock", "delete_copies">>, <<"unlock", "delete_copies">>,
                <<"delete_copies">>, <<>>}
BucketDeletes == {<<"delete_object", "lock", "delete">>} \cup RawDeletes
RawDrops == {<<"lock", "drop">>, <<"drop">>, <<>>}
AutoDrops == {<<"lock", "drop", "unlock", "drop_copies">>, <<"drop", "unlock", "drop_copies">>,
              <<"unlock", "drop_copies">>, <<"drop_copies">>, <<>>}
BucketDrops == {<<"remove_all", "lock", "drop">>} \cup RawDrops
Reads == {<<"read">>, <<"locked_read">>, <<"get_object">>, <<"meta_copy">>, <<>>}
Gets == {<<"get_copy", "get_origin", "optimize", "find_copy", "store_copy">>,
         <<"get_origin", "optimize", "find_copy", "store_copy">>,
         <<"optimize", "find_copy", "store_copy">>, <<"find_copy", "store_copy">>,
         <<"store_copy">>, <<>>}

Ways(op) ==
  CASE op = "put"    -> IF deploy.kind = "bucket" THEN BucketPuts ELSE Puts
    [] op = "delete" -> CASE deploy.kind = "raw"  -> RawDeletes
                          [] deploy.kind = "auto" -> AutoDeletes
                          [] OTHER                -> BucketDeletes
    [] op = "drop"   -> CASE deploy.kind = "raw"  -> RawDrops
                          [] deploy.kind = "auto" -> AutoDrops
                          [] OTHER                -> BucketDrops
    [] op = "get"    -> IF deploy.kind = "auto" THEN Gets \cup Reads ELSE Reads
    [] op = "size"   -> {<<"read">>, <<"locked_read">>, <<>>}
    [] op = "none"   -> {<<>>}
    [] OTHER         -> Reads

Stages == {"idle", "check", "get", "put", "delete", "meta", "usage", "ask", "drop", "cleanup"}
OpOf == [idle |-> "none", check |-> "check", get |-> "get", put |-> "put", delete |-> "delete",
         meta |-> "meta", usage |-> "size", ask |-> "size", drop |-> "drop", cleanup |-> "delete"]

Calls == [op : Ops \cup {"none"}, h : Hashes \cup {NoHash}, conv : BOOLEAN,
          todo : UNION {Ways(op) : op \in Ops \cup {"none"}},
          found : RowStates, size : Nat, result : {"none", "ok", "missing", "error"}]
Reqs == [stage : Stages, user : Users, broken : BOOLEAN, head : BOOLEAN, fail : Nat,
         clean : BOOLEAN]

Shape ==
  /\ deploy \in [kind : Kinds, sqlite : BOOLEAN]
  /\ rows \in [Hashes -> RowStates] /\ copies \in [Hashes -> RowStates]
  /\ IsFiniteSet({h \in Hashes : rows[h] = "live"})
  /\ objects \subseteq Hashes /\ holders \subseteq Tasks /\ kept \subseteq Hashes
  /\ call \in [Tasks -> Calls] /\ req \in [Tasks -> Reqs]
  /\ by \in [Hashes -> Users]

\* A call is on the way of its method, and the method that of its request's stage.
OnWay ==
  \A t \in Tasks :
    /\ call[t].todo \in Ways(call[t].op)
    /\ call[t].op = OpOf[req[t].stage]
    /\ req[t].stage = "cleanup" => req[t].broken
    /\ req[t].stage \notin {"idle", "ask", "drop"} => call[t].h \in Hashes

\* What was kept, or will be, nobody deletes.
Undeleted ==
  /\ \A t \in Tasks : \A h \in kept : ~Deleting(t, h)
  /\ \A t \in Tasks : req[t].clean =>
       /\ req[t].stage # "idle"
       /\ \A s \in Tasks \ {t} : ~Deleting(s, call[t].h)

Locking == deploy.kind = "bucket" => deploy.sqlite
(* With SQLite's lock a bucket's row is as it was found when it is stored, and
   no object is taken back. *)
OneHolder ==
  deploy.kind = "bucket" /\ deploy.sqlite =>
    /\ \A s, t \in holders : s = t
    /\ \A t \in Tasks :
         /\ At(t, "find") \/ At(t, "store") \/ At(t, "delete") \/ At(t, "drop") => t \in holders
         /\ At(t, "store") => call[t].found = rows[call[t].h]
         /\ ~At(t, "undo_object")
    /\ \A h \in Hashes : rows[h] # "deleted"

\* How far a put is when its content can be read.
Stored(t) ==
  /\ call[t].op = "put"
  /\ \/ Done(t) /\ call[t].result = "ok"
     \/ deploy.kind # "bucket" /\ At(t, "store") /\ call[t].found = "live"
     \/ deploy.kind = "bucket" /\ call[t].todo \in {<<"lock", "find", "store">>, <<"find", "store">>, <<"store">>}
Kept ==
  Locking =>
    /\ \A h \in kept : Readable(h)
    /\ \A t \in Tasks : req[t].clean /\ Stored(t) => Readable(call[t].h)

\* A copy, or one in the making, has its origin, or a delete of the copies to come.
Copying(t, h) ==
  call[t].h = h /\ (At(t, "optimize") \/ At(t, "find_copy") \/ At(t, "store_copy"))
Uncopies(t, h) ==
  \/ call[t].todo \in {<<"unlock", "delete_copies">>, <<"delete_copies">>} /\ call[t].h = h
  \/ call[t].todo \in {<<"unlock", "drop_copies">>, <<"drop_copies">>}
Copied ==
  /\ deploy.kind # "auto" => \A h \in Hashes : copies[h] # "live"
  /\ \A h \in Hashes \ crossed :
       copies[h] = "live" \/ (\E t \in Tasks : Copying(t, h)) =>
         rows[h] = "live" \/ \E t \in Tasks : Uncopies(t, h)

\* Who has measured room for one more blob of the owner and has not stored it.
Live == {h \in Hashes : rows[h] = "live"}
Owned == {h \in Hashes : rows[h] = "live" /\ by[h] = "owner"}
Measured(t) ==
  /\ req[t].user = "owner"
  /\ \/ req[t].stage = "usage" /\ Done(t) /\ call[t].size + 1 <= MaxUsage
     \/ req[t].stage = "put" /\ call[t].todo # <<>>
Room ==
  Cardinality(Owned) + Cardinality({t \in Tasks : Measured(t)})
    <= MaxUsage + Cardinality(Tasks) - 1

-----------------------------------------------------------------------------
(* What is left of a call, step by step. *)

\* The steps left of a put.
LEMMA PutEnds ==
  /\ Head(<<"lock", "stream", "find", "store">>) = "lock"
  /\ Tail(<<"lock", "stream", "find", "store">>) = <<"stream", "find", "store">>
  /\ Head(<<"stream", "find", "store">>) = "stream"
  /\ Tail(<<"stream", "find", "store">>) = <<"find", "store">>
  /\ Head(<<"find", "store">>) = "find"
  /\ Tail(<<"find", "store">>) = <<"store">>
  /\ Head(<<"store">>) = "store"
  /\ Tail(<<"store">>) = <<>>
  /\ Head(<<"stream", "put_object", "lock", "find", "store">>) = "stream"
  /\ Tail(<<"stream", "put_object", "lock", "find", "store">>)
       = <<"put_object", "lock", "find", "store">>
  /\ Head(<<"put_object", "lock", "find", "store">>) = "put_object"
  /\ Tail(<<"put_object", "lock", "find", "store">>) = <<"lock", "find", "store">>
  /\ Head(<<"lock", "find", "store">>) = "lock"
  /\ Tail(<<"lock", "find", "store">>) = <<"find", "store">>
  /\ Head(<<"undo_object">>) = "undo_object"
  /\ Tail(<<"undo_object">>) = <<>>
  OBVIOUS

\* The steps left of a delete.
LEMMA DeleteEnds ==
  /\ Head(<<"lock", "delete">>) = "lock"
  /\ Tail(<<"lock", "delete">>) = <<"delete">>
  /\ Head(<<"delete">>) = "delete"
  /\ Tail(<<"delete">>) = <<>>
  /\ Head(<<"lock", "delete", "unlock", "delete_copies">>) = "lock"
  /\ Tail(<<"lock", "delete", "unlock", "delete_copies">>)
       = <<"delete", "unlock", "delete_copies">>
  /\ Head(<<"delete", "unlock", "delete_copies">>) = "delete"
  /\ Tail(<<"delete", "unlock", "delete_copies">>) = <<"unlock", "delete_copies">>
  /\ Head(<<"unlock", "delete_copies">>) = "unlock"
  /\ Tail(<<"unlock", "delete_copies">>) = <<"delete_copies">>
  /\ Head(<<"delete_copies">>) = "delete_copies"
  /\ Tail(<<"delete_copies">>) = <<>>
  /\ Head(<<"delete_object", "lock", "delete">>) = "delete_object"
  /\ Tail(<<"delete_object", "lock", "delete">>) = <<"lock", "delete">>
  OBVIOUS

\* The steps left of a drop of a workspace.
LEMMA DropEnds ==
  /\ Head(<<"lock", "drop">>) = "lock"
  /\ Tail(<<"lock", "drop">>) = <<"drop">>
  /\ Head(<<"drop">>) = "drop"
  /\ Tail(<<"drop">>) = <<>>
  /\ Head(<<"lock", "drop", "unlock", "drop_copies">>) = "lock"
  /\ Tail(<<"lock", "drop", "unlock", "drop_copies">>) = <<"drop", "unlock", "drop_copies">>
  /\ Head(<<"drop", "unlock", "drop_copies">>) = "drop"
  /\ Tail(<<"drop", "unlock", "drop_copies">>) = <<"unlock", "drop_copies">>
  /\ Head(<<"unlock", "drop_copies">>) = "unlock"
  /\ Tail(<<"unlock", "drop_copies">>) = <<"drop_copies">>
  /\ Head(<<"drop_copies">>) = "drop_copies"
  /\ Tail(<<"drop_copies">>) = <<>>
  /\ Head(<<"remove_all", "lock", "drop">>) = "remove_all"
  /\ Tail(<<"remove_all", "lock", "drop">>) = <<"lock", "drop">>
  OBVIOUS

\* The steps of the calls that read only.
LEMMA ReadEnds ==
  /\ Head(<<"read">>) = "read"
  /\ Tail(<<"read">>) = <<>>
  /\ Head(<<"locked_read">>) = "locked_read"
  /\ Tail(<<"locked_read">>) = <<>>
  /\ Head(<<"get_object">>) = "get_object"
  /\ Tail(<<"get_object">>) = <<>>
  /\ Head(<<"meta_copy">>) = "meta_copy"
  /\ Tail(<<"meta_copy">>) = <<>>
  OBVIOUS

\* The steps left of a get of the storage that optimises images.
LEMMA GetEnds ==
  /\ Head(<<"get_copy", "get_origin", "optimize", "find_copy", "store_copy">>) = "get_copy"
  /\ Tail(<<"get_copy", "get_origin", "optimize", "find_copy", "store_copy">>)
       = <<"get_origin", "optimize", "find_copy", "store_copy">>
  /\ Head(<<"get_origin", "optimize", "find_copy", "store_copy">>) = "get_origin"
  /\ Tail(<<"get_origin", "optimize", "find_copy", "store_copy">>)
       = <<"optimize", "find_copy", "store_copy">>
  /\ Head(<<"optimize", "find_copy", "store_copy">>) = "optimize"
  /\ Tail(<<"optimize", "find_copy", "store_copy">>) = <<"find_copy", "store_copy">>
  /\ Head(<<"find_copy", "store_copy">>) = "find_copy"
  /\ Tail(<<"find_copy", "store_copy">>) = <<"store_copy">>
  /\ Head(<<"store_copy">>) = "store_copy"
  /\ Tail(<<"store_copy">>) = <<>>
  OBVIOUS

\* The first step of every way, and what is left after it.
LEMMA Ends ==
  /\ Head(<<"lock", "stream", "find", "store">>) = "lock"
  /\ Tail(<<"lock", "stream", "find", "store">>) = <<"stream", "find", "store">>
  /\ Head(<<"stream", "find", "store">>) = "stream"
  /\ Tail(<<"stream", "find", "store">>) = <<"find", "store">>
  /\ Head(<<"find", "store">>) = "find"
  /\ Tail(<<"find", "store">>) = <<"store">>
  /\ Head(<<"store">>) = "store"
  /\ Tail(<<"store">>) = <<>>
  /\ Head(<<"stream", "put_object", "lock", "find", "store">>) = "stream"
  /\ Tail(<<"stream", "put_object", "lock", "find", "store">>)
       = <<"put_object", "lock", "find", "store">>
  /\ Head(<<"put_object", "lock", "find", "store">>) = "put_object"
  /\ Tail(<<"put_object", "lock", "find", "store">>) = <<"lock", "find", "store">>
  /\ Head(<<"lock", "find", "store">>) = "lock"
  /\ Tail(<<"lock", "find", "store">>) = <<"find", "store">>
  /\ Head(<<"undo_object">>) = "undo_object"
  /\ Tail(<<"undo_object">>) = <<>>
  /\ Head(<<"lock", "delete">>) = "lock"
  /\ Tail(<<"lock", "delete">>) = <<"delete">>
  /\ Head(<<"delete">>) = "delete"
  /\ Tail(<<"delete">>) = <<>>
  /\ Head(<<"lock", "delete", "unlock", "delete_copies">>) = "lock"
  /\ Tail(<<"lock", "delete", "unlock", "delete_copies">>)
       = <<"delete", "unlock", "delete_copies">>
  /\ Head(<<"delete", "unlock", "delete_copies">>) = "delete"
  /\ Tail(<<"delete", "unlock", "delete_copies">>) = <<"unlock", "delete_copies">>
  /\ Head(<<"unlock", "delete_copies">>) = "unlock"
  /\ Tail(<<"unlock", "delete_copies">>) = <<"delete_copies">>
  /\ Head(<<"delete_copies">>) = "delete_copies"
  /\ Tail(<<"delete_copies">>) = <<>>
  /\ Head(<<"delete_object", "lock", "delete">>) = "delete_object"
  /\ Tail(<<"delete_object", "lock", "delete">>) = <<"lock", "delete">>
  /\ Head(<<"lock", "drop">>) = "lock"
  /\ Tail(<<"lock", "drop">>) = <<"drop">>
  /\ Head(<<"drop">>) = "drop"
  /\ Tail(<<"drop">>) = <<>>
  /\ Head(<<"lock", "drop", "unlock", "drop_copies">>) = "lock"
  /\ Tail(<<"lock", "drop", "unlock", "drop_copies">>) = <<"drop", "unlock", "drop_copies">>
  /\ Head(<<"drop", "unlock", "drop_copies">>) = "drop"
  /\ Tail(<<"drop", "unlock", "drop_copies">>) = <<"unlock", "drop_copies">>
  /\ Head(<<"unlock", "drop_copies">>) = "unlock"
  /\ Tail(<<"unlock", "drop_copies">>) = <<"drop_copies">>
  /\ Head(<<"drop_copies">>) = "drop_copies"
  /\ Tail(<<"drop_copies">>) = <<>>
  /\ Head(<<"remove_all", "lock", "drop">>) = "remove_all"
  /\ Tail(<<"remove_all", "lock", "drop">>) = <<"lock", "drop">>
  /\ Head(<<"read">>) = "read"
  /\ Tail(<<"read">>) = <<>>
  /\ Head(<<"locked_read">>) = "locked_read"
  /\ Tail(<<"locked_read">>) = <<>>
  /\ Head(<<"get_object">>) = "get_object"
  /\ Tail(<<"get_object">>) = <<>>
  /\ Head(<<"meta_copy">>) = "meta_copy"
  /\ Tail(<<"meta_copy">>) = <<>>
  /\ Head(<<"get_copy", "get_origin", "optimize", "find_copy", "store_copy">>) = "get_copy"
  /\ Tail(<<"get_copy", "get_origin", "optimize", "find_copy", "store_copy">>)
       = <<"get_origin", "optimize", "find_copy", "store_copy">>
  /\ Head(<<"get_origin", "optimize", "find_copy", "store_copy">>) = "get_origin"
  /\ Tail(<<"get_origin", "optimize", "find_copy", "store_copy">>)
       = <<"optimize", "find_copy", "store_copy">>
  /\ Head(<<"optimize", "find_copy", "store_copy">>) = "optimize"
  /\ Tail(<<"optimize", "find_copy", "store_copy">>) = <<"find_copy", "store_copy">>
  /\ Head(<<"find_copy", "store_copy">>) = "find_copy"
  /\ Tail(<<"find_copy", "store_copy">>) = <<"store_copy">>
  /\ Head(<<"store_copy">>) = "store_copy"
  /\ Tail(<<"store_copy">>) = <<>>
  BY PutEnds, DeleteEnds, DropEnds, ReadEnds, GetEnds

\* What follows the first step of a long way is not empty.
LEMMA NonEmpty ==
  /\ <<"stream", "find", "store">> # <<>> /\ <<"find", "store">> # <<>> /\ <<"delete">> # <<>>
  /\ <<"delete", "unlock", "delete_copies">> # <<>> /\ <<"drop">> # <<>>
  /\ <<"drop", "unlock", "drop_copies">> # <<>>
  /\ <<"put_object", "lock", "find", "store">> # <<>>
  /\ <<"unlock", "delete_copies">> # <<>> /\ <<"delete_copies">> # <<>>
  /\ <<"unlock", "drop_copies">> # <<>> /\ <<"drop_copies">> # <<>>
  OBVIOUS

\* The ways of each storage, one after the other.
LEMMA WayPuts ==
  ASSUME NEW x \in Puts, x # <<>>
  PROVE  /\ Head(x) \in {"lock", "stream", "find", "store"} /\ Tail(x) \in Puts
         /\ Head(x) = "lock" => x = <<"lock", "stream", "find", "store">>
         /\ Head(x) = "stream" => x = <<"stream", "find", "store">>
         /\ Head(x) = "find" => x = <<"find", "store">>
         /\ Head(x) = "store" => x = <<"store">>
  BY PutEnds DEF Puts

LEMMA WayBucketPuts ==
  ASSUME NEW x \in BucketPuts, x # <<>>
  PROVE  /\ Head(x) \in {"lock", "stream", "find", "store", "put_object", "undo_object"}
         /\ Tail(x) \in BucketPuts
         /\ Head(x) = "find" => x = <<"find", "store">>
         /\ Head(x) = "store" => x = <<"store">>
         /\ Head(x) = "lock" => x = <<"lock", "find", "store">>
         /\ Head(x) = "stream" => x = <<"stream", "put_object", "lock", "find", "store">>
         /\ Head(x) = "put_object" => x = <<"put_object", "lock", "find", "store">>
<1>1. Head(x) \in {"lock", "stream", "find", "store", "put_object", "undo_object"}
  BY PutEnds DEF BucketPuts
<1>2. Tail(x) \in BucketPuts
  BY PutEnds DEF BucketPuts
<1>3. /\ Head(x) = "find" => x = <<"find", "store">>
      /\ Head(x) = "store" => x = <<"store">>
  BY PutEnds DEF BucketPuts
<1>4. /\ Head(x) = "lock" => x = <<"lock", "find", "store">>
      /\ Head(x) = "stream" => x = <<"stream", "put_object", "lock", "find", "store">>
      /\ Head(x) = "put_object" => x = <<"put_object", "lock", "find", "store">>
  BY PutEnds DEF BucketPuts
<1>5. QED  BY <1>1, <1>2, <1>3, <1>4

LEMMA WayDeletes ==
  ASSUME NEW x, x # <<>>
  PROVE  /\ x \in RawDeletes => /\ Head(x) \in {"lock", "delete"} /\ Tail(x) \in RawDeletes
                                /\ Head(x) = "lock" => x = <<"lock", "delete">>
                                /\ Head(x) = "delete" => x = <<"delete">>
         /\ x \in BucketDeletes => \/ x = <<"delete_object", "lock", "delete">>
                                   \/ x \in RawDeletes
         /\ x \in AutoDeletes =>
              /\ Head(x) \in {"lock", "delete", "unlock", "delete_copies"}
              /\ Tail(x) \in AutoDeletes
              /\ Head(x) = "delete" => x = <<"delete", "unlock", "delete_copies">>
              /\ Head(x) = "lock" => x = <<"lock", "delete", "unlock", "delete_copies">>
              /\ Head(x) = "unlock" => x = <<"unlock", "delete_copies">>
              /\ Head(x) = "delete_copies" => x = <<"delete_copies">>
<1>1. x \in RawDeletes => /\ Head(x) \in {"lock", "delete"} /\ Tail(x) \in RawDeletes
                          /\ Head(x) = "lock" => x = <<"lock", "delete">>
                          /\ Head(x) = "delete" => x = <<"delete">>
  BY DeleteEnds DEF RawDeletes
<1>2. x \in BucketDeletes => x = <<"delete_object", "lock", "delete">> \/ x \in RawDeletes
  BY DEF BucketDeletes
<1>3. x \in AutoDeletes =>
        /\ Head(x) \in {"lock", "delete", "unlock", "delete_copies"}
        /\ Tail(x) \in AutoDeletes
  BY DeleteEnds DEF AutoDeletes
<1>4. x \in AutoDeletes =>
        /\ Head(x) = "delete" => x = <<"delete", "unlock", "delete_copies">>
        /\ Head(x) = "lock" => x = <<"lock", "delete", "unlock", "delete_copies">>
        /\ Head(x) = "unlock" => x = <<"unlock", "delete_copies">>
        /\ Head(x) = "delete_copies" => x = <<"delete_copies">>
  BY DeleteEnds DEF AutoDeletes
<1>5. QED  BY <1>1, <1>2, <1>3, <1>4

LEMMA WayDrops ==
  ASSUME NEW x, x # <<>>
  PROVE  /\ x \in RawDrops => /\ Head(x) \in {"lock", "drop"} /\ Tail(x) \in RawDrops
                              /\ Head(x) = "lock" => x = <<"lock", "drop">>
                              /\ Head(x) = "drop" => x = <<"drop">>
         /\ x \in BucketDrops => x = <<"remove_all", "lock", "drop">> \/ x \in RawDrops
         /\ x \in AutoDrops =>
              /\ Head(x) \in {"lock", "drop", "unlock", "drop_copies"}
              /\ Tail(x) \in AutoDrops
              /\ Head(x) = "drop" => x = <<"drop", "unlock", "drop_copies">>
              /\ Head(x) = "lock" => x = <<"lock", "drop", "unlock", "drop_copies">>
              /\ Head(x) = "unlock" => x = <<"unlock", "drop_copies">>
              /\ Head(x) = "drop_copies" => x = <<"drop_copies">>
<1>1. x \in RawDrops => /\ Head(x) \in {"lock", "drop"} /\ Tail(x) \in RawDrops
                        /\ Head(x) = "lock" => x = <<"lock", "drop">>
                        /\ Head(x) = "drop" => x = <<"drop">>
  BY DropEnds DEF RawDrops
<1>2. x \in BucketDrops => x = <<"remove_all", "lock", "drop">> \/ x \in RawDrops
  BY DEF BucketDrops
<1>3. x \in AutoDrops =>
        /\ Head(x) \in {"lock", "drop", "unlock", "drop_copies"}
        /\ Tail(x) \in AutoDrops
  BY DropEnds DEF AutoDrops
<1>4. x \in AutoDrops =>
        /\ Head(x) = "drop" => x = <<"drop", "unlock", "drop_copies">>
        /\ Head(x) = "lock" => x = <<"lock", "drop", "unlock", "drop_copies">>
        /\ Head(x) = "unlock" => x = <<"unlock", "drop_copies">>
        /\ Head(x) = "drop_copies" => x = <<"drop_copies">>
  BY DropEnds DEF AutoDrops
<1>5. QED  BY <1>1, <1>2, <1>3, <1>4

ReadSteps == {"read", "locked_read", "get_object", "meta_copy"}
CopySteps == {"get_copy", "get_origin", "optimize", "find_copy", "store_copy"}

LEMMA WayReads ==
  ASSUME NEW x, x # <<>>
  PROVE  /\ x \in Reads => Head(x) \in ReadSteps /\ Tail(x) = <<>>
         /\ x \in Gets =>
              /\ Head(x) \in CopySteps /\ Tail(x) \in Gets
              /\ Head(x) = "get_copy" =>
                   x = <<"get_copy", "get_origin", "optimize", "find_copy", "store_copy">>
              /\ Head(x) = "get_origin" =>
                   x = <<"get_origin", "optimize", "find_copy", "store_copy">>
              /\ Head(x) = "store_copy" => x = <<"store_copy">>
<1>1. x \in Reads => Head(x) \in ReadSteps /\ Tail(x) = <<>>
  BY ReadEnds DEF Reads, ReadSteps
<1>2. x \in Gets => Head(x) \in CopySteps /\ Tail(x) \in Gets
  BY GetEnds DEF Gets, CopySteps
<1>3. x \in Gets =>
        /\ Head(x) = "get_copy" =>
             x = <<"get_copy", "get_origin", "optimize", "find_copy", "store_copy">>
        /\ Head(x) = "get_origin" =>
             x = <<"get_origin", "optimize", "find_copy", "store_copy">>
        /\ Head(x) = "store_copy" => x = <<"store_copy">>
  BY GetEnds DEF Gets
<1>4. QED  BY <1>1, <1>2, <1>3

(* All of it: what the next step says of the method, the storage and what is
   left of the call. *)
HeadOf(op, x) ==
  /\ op = "put" => Head(x) \in {"lock", "stream", "find", "store", "put_object", "undo_object"}
  /\ op = "delete" => Head(x) \in {"lock", "delete", "unlock", "delete_copies", "delete_object"}
  /\ op = "drop" => Head(x) \in {"lock", "drop", "unlock", "drop_copies", "remove_all"}
  /\ op \notin {"put", "delete", "drop"} => Head(x) \in ReadSteps \cup CopySteps
  /\ Head(x) \in CopySteps => op = "get"
  /\ op = "size" => Head(x) \in {"read", "locked_read"}
  /\ Head(x) \in CopySteps \cup {"unlock", "delete_copies", "drop_copies"} => deploy.kind = "auto"
  /\ Head(x) \in {"put_object", "undo_object", "delete_object", "remove_all"} =>
       deploy.kind = "bucket"
BucketHeadOf(x) ==
  deploy.kind = "bucket" =>
    /\ Head(x) = "lock" => x \in {<<"lock", "find", "store">>, <<"lock", "delete">>,
                                  <<"lock", "drop">>}
    /\ Head(x) = "stream" => x = <<"stream", "put_object", "lock", "find", "store">>
    /\ Head(x) = "put_object" => x = <<"put_object", "lock", "find", "store">>
    /\ Head(x) = "delete_object" => x = <<"delete_object", "lock", "delete">>
    /\ Head(x) = "remove_all" => x = <<"remove_all", "lock", "drop">>
    /\ Head(x) = "delete" => x = <<"delete">>
    /\ Head(x) = "drop" => x = <<"drop">>
AnyHeadOf(op, x) ==
  /\ Head(x) = "find" => x = <<"find", "store">>
  /\ Head(x) = "store" => x = <<"store">>
  /\ Head(x) = "delete" => x \in {<<"delete">>, <<"delete", "unlock", "delete_copies">>}
  /\ Head(x) = "drop" => x \in {<<"drop">>, <<"drop", "unlock", "drop_copies">>}
  /\ Head(x) = "unlock" => x = IF op = "delete" THEN <<"unlock", "delete_copies">>
                                               ELSE <<"unlock", "drop_copies">>
  /\ Head(x) = "delete_copies" => x = <<"delete_copies">>
  /\ Head(x) = "drop_copies" => x = <<"drop_copies">>
  /\ Head(x) = "get_origin" => x = <<"get_origin", "optimize", "find_copy", "store_copy">>
  /\ Head(x) = "store_copy" => x = <<"store_copy">>
AutoHeadOf(x) ==
  deploy.kind = "auto" =>
    /\ Head(x) = "delete" => x = <<"delete", "unlock", "delete_copies">>
    /\ Head(x) = "drop" => x = <<"drop", "unlock", "drop_copies">>
DatabaseHeadOf(x) ==
  deploy.kind # "bucket" =>
    /\ Head(x) = "stream" => x = <<"stream", "find", "store">>
    /\ Head(x) = "lock" => x \in {<<"lock", "stream", "find", "store">>, <<"lock", "delete">>,
         <<"lock", "delete", "unlock", "delete_copies">>, <<"lock", "drop">>,
         <<"lock", "drop", "unlock", "drop_copies">>}

LEMMA Heads ==
  ASSUME NEW op \in Ops \cup {"none"}, NEW x \in Ways(op), x # <<>>, deploy.kind \in Kinds
  PROVE  /\ Tail(x) \in Ways(op) /\ HeadOf(op, x) /\ AnyHeadOf(op, x)
         /\ BucketHeadOf(x) /\ AutoHeadOf(x) /\ DatabaseHeadOf(x)
<1> DEFINE Goal == /\ Tail(x) \in Ways(op) /\ HeadOf(op, x) /\ AnyHeadOf(op, x)
                   /\ BucketHeadOf(x) /\ AutoHeadOf(x) /\ DatabaseHeadOf(x)
<1> USE DEF Kinds
<1>1. CASE op = "put" /\ deploy.kind = "bucket"
  <2>1. x \in BucketPuts /\ BucketPuts = Ways(op)
    BY <1>1 DEF Ways
  <2>2. QED  BY <1>1, <2>1, WayBucketPuts
             DEF HeadOf, AnyHeadOf, BucketHeadOf, AutoHeadOf, DatabaseHeadOf, CopySteps, ReadSteps
<1>2. CASE op = "put" /\ deploy.kind # "bucket"
  <2>1. x \in Puts /\ Puts = Ways(op)
    BY <1>2 DEF Ways
  <2>2. QED  BY <1>2, <2>1, WayPuts
             DEF HeadOf, AnyHeadOf, BucketHeadOf, AutoHeadOf, DatabaseHeadOf, CopySteps, ReadSteps
<1>3. CASE op = "delete" /\ deploy.kind = "raw"
  <2>1. x \in RawDeletes /\ RawDeletes = Ways(op)
    BY <1>3 DEF Ways
  <2>2. QED  BY <1>3, <2>1, WayDeletes
             DEF HeadOf, AnyHeadOf, BucketHeadOf, AutoHeadOf, DatabaseHeadOf, CopySteps, ReadSteps
<1>4. CASE op = "delete" /\ deploy.kind = "auto"
  <2>1. x \in AutoDeletes /\ AutoDeletes = Ways(op)
    BY <1>4 DEF Ways
  <2>2. QED  BY <1>4, <2>1, WayDeletes
             DEF HeadOf, AnyHeadOf, BucketHeadOf, AutoHeadOf, DatabaseHeadOf, CopySteps, ReadSteps
<1>5. CASE op = "delete" /\ deploy.kind = "bucket"
  <2>1. x \in BucketDeletes /\ BucketDeletes = Ways(op)
    BY <1>5 DEF Ways
  <2>2. Tail(x) \in BucketDeletes
    BY <2>1, WayDeletes, Ends DEF BucketDeletes, RawDeletes
  <2>3. QED  BY <1>5, <2>1, <2>2, WayDeletes, Ends
             DEF HeadOf, AnyHeadOf, BucketHeadOf, AutoHeadOf, DatabaseHeadOf, CopySteps, ReadSteps
<1>6. CASE op = "drop" /\ deploy.kind = "raw"
  <2>1. x \in RawDrops /\ RawDrops = Ways(op)
    BY <1>6 DEF Ways
  <2>2. QED  BY <1>6, <2>1, WayDrops
             DEF HeadOf, AnyHeadOf, BucketHeadOf, AutoHeadOf, DatabaseHeadOf, CopySteps, ReadSteps
<1>7. CASE op = "drop" /\ deploy.kind = "auto"
  <2>1. x \in AutoDrops /\ AutoDrops = Ways(op)
    BY <1>7 DEF Ways
  <2>2. QED  BY <1>7, <2>1, WayDrops
             DEF HeadOf, AnyHeadOf, BucketHeadOf, AutoHeadOf, DatabaseHeadOf, CopySteps, ReadSteps
<1>8. CASE op = "drop" /\ deploy.kind = "bucket"
  <2>1. x \in BucketDrops /\ BucketDrops = Ways(op)
    BY <1>8 DEF Ways
  <2>2. Tail(x) \in BucketDrops
    BY <2>1, WayDrops, Ends DEF BucketDrops, RawDrops
  <2>3. QED  BY <1>8, <2>1, <2>2, WayDrops, Ends
             DEF HeadOf, AnyHeadOf, BucketHeadOf, AutoHeadOf, DatabaseHeadOf, CopySteps, ReadSteps
<1>9. CASE op \notin {"put", "delete", "drop", "size"}
  <2>1. op # "none"
    BY <1>9 DEF Ways
  <2>2. x \in Reads \/ (x \in Gets /\ op = "get" /\ deploy.kind = "auto")
    BY <1>9, <2>1 DEF Ways
  <2>3. Tail(x) \in Ways(op)
    BY <1>9, <2>1, <2>2, WayReads DEF Ways, Reads
  <2>4. QED  BY <1>9, <2>2, <2>3, WayReads
             DEF HeadOf, AnyHeadOf, BucketHeadOf, AutoHeadOf, DatabaseHeadOf, CopySteps, ReadSteps
<1>10. CASE op = "size"
  <2>1. x \in {<<"read">>, <<"locked_read">>} /\ Ways(op) = {<<"read">>, <<"locked_read">>, <<>>}
    BY <1>10 DEF Ways
  <2>2. Tail(x) \in Ways(op) /\ Head(x) \in {"read", "locked_read"}
    BY <2>1, ReadEnds
  <2>3. QED  BY <1>10, <2>2
             DEF HeadOf, AnyHeadOf, BucketHeadOf, AutoHeadOf, DatabaseHeadOf, CopySteps, ReadSteps
<1>11. QED  BY <1>1, <1>2, <1>3, <1>4, <1>5, <1>6, <1>7, <1>8, <1>9, <1>10

-----------------------------------------------------------------------------
(* What a step of a storage leaves alone. *)

Same(t) ==
  /\ call' \in [Tasks -> Calls]
  /\ \A u \in Tasks \ {t} : call'[u] = call[u]
  /\ call'[t].op = call[t].op /\ call'[t].h = call[t].h
  /\ call'[t].todo \in Ways(call[t].op)

LEMMA WayEnds ==
  ASSUME NEW op \in Ops \cup {"none"}
  PROVE  <<>> \in Ways(op)
<1>1. /\ <<>> \in Puts /\ <<>> \in BucketPuts /\ <<>> \in RawDeletes /\ <<>> \in AutoDeletes
      /\ <<>> \in BucketDeletes /\ <<>> \in RawDrops /\ <<>> \in AutoDrops
      /\ <<>> \in BucketDrops /\ <<>> \in Reads /\ <<>> \in Gets
  BY DEF Puts, BucketPuts, RawDeletes, AutoDeletes, BucketDeletes, RawDrops, AutoDrops,
         BucketDrops, Reads, Gets
<1>2. CASE op \in {"put", "delete"}
  BY <1>1, <1>2 DEF Ways
<1>3. CASE op \in {"drop", "get"}
  BY <1>1, <1>3 DEF Ways
<1>4. CASE op \notin {"put", "delete", "drop", "get"}
  BY <1>1, <1>4 DEF Ways, Ops
<1>5. QED  BY <1>2, <1>3, <1>4

\* A call is typed: what the facts below ask of Shape and OnWay.
LEMMA CallTyped ==
  ASSUME Shape, OnWay, NEW t \in Tasks
  PROVE  /\ call \in [Tasks -> Calls] /\ call[t] \in Calls
         /\ call[t].op \in Ops \cup {"none"}
         /\ call[t].todo \in Ways(call[t].op)
         /\ call[t].found \in RowStates
         /\ deploy.kind \in Kinds
  BY DEF Shape, OnWay, Calls

\* The kinds of step, one for each way a storage method goes on.
LEMMA ReturnKeeps ==
  ASSUME Shape, OnWay, NEW t \in Tasks, NEW r \in {"ok", "missing", "error"}, Return(t, r)
  PROVE  /\ Same(t) /\ call'[t].todo = <<>> /\ call'[t].result = r
         /\ holders' = holders \ {t} /\ call'[t].size = call[t].size
<1>1. /\ call[t] \in Calls /\ call \in [Tasks -> Calls] /\ call[t].op \in Ops \cup {"none"}
  BY CallTyped
<1>2. PICK c : c = [call[t] EXCEPT !.todo = <<>>, !.found = "none", !.result = r]
  OBVIOUS
<1>3. <<>> \in Ways(call[t].op)
  BY <1>1, WayEnds
<1>4. /\ c \in Calls /\ c.op = call[t].op /\ c.h = call[t].h /\ c.todo = <<>>
      /\ c.result = r /\ c.size = call[t].size
  <2>1. <<>> \in UNION {Ways(op) : op \in Ops \cup {"none"}} /\ "none" \in RowStates
    BY <1>1, <1>3 DEF RowStates
  <2>2. c \in Calls
    BY <1>1, <1>2, <2>1 DEF Calls
  <2>3. QED  BY <1>1, <1>2, <2>2 DEF Calls
<1>5. call' = [call EXCEPT ![t] = c]
  BY <1>1, <1>2 DEF Return
<1>6. call' \in [Tasks -> Calls] /\ call'[t] = c /\ \A u \in Tasks \ {t} : call'[u] = call[u]
  BY <1>1, <1>4, <1>5
<1>7. QED  BY <1>3, <1>4, <1>6 DEF Same, Return

LEMMA FoundKeeps ==
  ASSUME Shape, OnWay, NEW t \in Tasks, call[t].todo # <<>>, NEW f \in RowStates,
         call' = [call EXCEPT ![t].found = f, ![t].todo = Tail(@)]
  PROVE  /\ Same(t) /\ call'[t].todo = Tail(call[t].todo) /\ call'[t].found = f
         /\ call'[t].result = call[t].result
<1>1. /\ call[t] \in Calls /\ call \in [Tasks -> Calls] /\ call[t].op \in Ops \cup {"none"}
      /\ call[t].todo \in Ways(call[t].op) /\ deploy.kind \in Kinds
  BY CallTyped
<1>2. PICK c : c = [call[t] EXCEPT !.found = f, !.todo = Tail(@)]
  OBVIOUS
<1>3. Tail(call[t].todo) \in Ways(call[t].op)
  BY <1>1, Heads
<1>4. c \in Calls /\ c.op = call[t].op /\ c.h = call[t].h /\ c.todo = Tail(call[t].todo)
      /\ c.found = f /\ c.result = call[t].result
  BY <1>1, <1>2, <1>3 DEF Calls
<1>5. call' = [call EXCEPT ![t] = c]
  BY <1>1, <1>2
<1>6. call' \in [Tasks -> Calls] /\ call'[t] = c /\ \A u \in Tasks \ {t} : call'[u] = call[u]
  BY <1>1, <1>4, <1>5
<1>7. QED  BY <1>3, <1>4, <1>6 DEF Same

LEMMA AdvanceKeeps ==
  ASSUME Shape, OnWay, NEW t \in Tasks, call[t].todo # <<>>, Advance(t)
  PROVE  /\ Same(t) /\ call'[t].todo = Tail(call[t].todo)
         /\ call'[t].found = call[t].found /\ call'[t].result = call[t].result
<1>1. call[t].found \in RowStates /\ call \in [Tasks -> Calls] /\ call[t] \in Calls
  BY CallTyped
<1>2. call' = [call EXCEPT ![t].found = call[t].found, ![t].todo = Tail(@)]
  <2>1. [call[t] EXCEPT !.todo = Tail(@)]
          = [call[t] EXCEPT !.found = call[t].found, !.todo = Tail(@)]
    BY <1>1 DEF Calls
  <2>2. QED  BY <2>1 DEF Advance
<1>3. QED  BY <1>1, <1>2, FoundKeeps

\* The method of a call gives its request's stage, and names a content.
LEMMA Names ==
  ASSUME Shape, OnWay, NEW t \in Tasks
  PROVE  /\ call[t].op \in {"put", "delete", "get", "check", "meta"} => call[t].h \in Hashes
         /\ call[t].op = "put" => req[t].stage = "put"
         /\ call[t].op = "size" => req[t].stage \in {"usage", "ask"}
         /\ call[t].op = "none" <=> req[t].stage = "idle"
         /\ req[t].stage = "put" => call[t].op = "put"
<1>1. req[t].stage \in Stages /\ call[t].op = OpOf[req[t].stage]
  BY DEF Shape, Reqs, OnWay
<1>2. req[t].stage \notin {"idle", "ask", "drop"} => call[t].h \in Hashes
  BY DEF OnWay
<1>3. QED  BY <1>1, <1>2 DEF Stages, OpOf

\* The next step of a call, with all that Heads says of it.
LEMMA Next1 ==
  ASSUME Shape, OnWay, NEW t \in Tasks, call[t].todo # <<>>
  PROVE  /\ HeadOf(call[t].op, call[t].todo) /\ AnyHeadOf(call[t].op, call[t].todo)
         /\ BucketHeadOf(call[t].todo) /\ AutoHeadOf(call[t].todo)
         /\ DatabaseHeadOf(call[t].todo)
  BY CallTyped, Heads

\* Steps of an upload, and of a copy, are about a content.
LEMMA About ==
  ASSUME Shape, OnWay, NEW t \in Tasks,
         NEW s \in {"find", "store", "put_object", "undo_object", "delete", "delete_object",
                    "delete_copies"} \cup CopySteps, At(t, s)
  PROVE  /\ call[t].h \in Hashes
         /\ s \in {"find", "store", "put_object", "undo_object"} => call[t].op = "put"
         /\ s \in {"delete", "delete_object", "delete_copies"} => call[t].op = "delete"
         /\ s \in CopySteps => call[t].op = "get"
<1>1. HeadOf(call[t].op, call[t].todo) /\ call[t].todo # <<>> /\ Head(call[t].todo) = s
  BY Next1 DEF At
<1>2. call[t].op \in Ops \cup {"none"}
  BY CallTyped
<1>3. /\ s \in {"find", "store", "put_object", "undo_object"} => call[t].op = "put"
      /\ s \in {"delete", "delete_object", "delete_copies"} => call[t].op = "delete"
      /\ s \in CopySteps => call[t].op = "get"
  BY <1>1, <1>2 DEF HeadOf, ReadSteps, CopySteps, Ops
<1>4. call[t].op \in {"put", "delete", "get"}
  BY <1>3
<1>5. QED  BY <1>3, <1>4, Names

LEMMA FoundStep ==
  ASSUME Shape, OnWay, NEW t \in Tasks, FindRow(t) \/ FindCopy(t)
  PROVE  /\ Same(t) /\ call'[t].todo = Tail(call[t].todo)
         /\ FindRow(t) => call'[t].found = rows[call[t].h]
<1>1. CASE FindRow(t)
  <2>1. call[t].h \in Hashes /\ call[t].todo # <<>>
    BY <1>1, About DEF FindRow, At
  <2>2. PICK f \in RowStates : f = rows[call[t].h]
    BY <2>1 DEF Shape
  <2>3. call' = [call EXCEPT ![t].found = f, ![t].todo = Tail(@)]
    BY <1>1, <2>2 DEF FindRow
  <2>4. QED  BY <2>1, <2>2, <2>3, FoundKeeps
<1>2. CASE FindCopy(t)
  <2>1. call[t].h \in Hashes /\ call[t].todo # <<>>
    BY <1>2, About DEF FindCopy, At, CopySteps
  <2>2. PICK f \in RowStates : f = copies[call[t].h]
    BY <2>1 DEF Shape
  <2>3. call' = [call EXCEPT ![t].found = f, ![t].todo = Tail(@)]
    BY <1>2, <2>2 DEF FindCopy
  <2>4. Same(t) /\ call'[t].todo = Tail(call[t].todo)
    BY <2>1, <2>2, <2>3, FoundKeeps
  <2>5. ~FindRow(t)
    BY <1>2 DEF FindRow, FindCopy, At
  <2>6. QED  BY <2>4, <2>5
<1>3. QED  BY <1>1, <1>2

LEMMA SumStep ==
  ASSUME Shape, OnWay, NEW t \in Tasks, SumRows(t)
  PROVE  /\ Same(t) /\ call'[t].todo = <<>> /\ call[t].todo # <<>>
         /\ call[t].op = "size" /\ call'[t].size = Cardinality(Live)
<1>1. /\ call[t] \in Calls /\ call \in [Tasks -> Calls] /\ call[t].op \in Ops \cup {"none"}
  BY CallTyped
<1>2. PICK n \in Nat : n = Cardinality({h \in Hashes : rows[h] = "live"})
  BY FS_CardinalityType DEF Shape
<1>3. PICK c : c = [call[t] EXCEPT !.todo = <<>>, !.result = "ok", !.size = n]
  OBVIOUS
<1>4. <<>> \in Ways(call[t].op)
  BY <1>1, WayEnds
<1>5. /\ c \in Calls /\ c.op = call[t].op /\ c.h = call[t].h /\ c.todo = <<>> /\ c.size = n
  <2>1. <<>> \in UNION {Ways(op) : op \in Ops \cup {"none"}}
    BY <1>1, <1>4
  <2>2. c \in Calls
    BY <1>1, <1>2, <1>3, <2>1 DEF Calls
  <2>3. QED  BY <1>1, <1>3, <2>2 DEF Calls
<1>6. call' = [call EXCEPT ![t] = c]
  BY <1>1, <1>2, <1>3 DEF SumRows
<1>7. call' \in [Tasks -> Calls] /\ call'[t] = c /\ \A u \in Tasks \ {t} : call'[u] = call[u]
  BY <1>1, <1>5, <1>6
<1>8. QED  BY <1>2, <1>4, <1>5, <1>7 DEF Same, SumRows, At, Live

LEMMA UndoStep ==
  ASSUME Shape, OnWay, NEW t \in Tasks, At(t, "store"), deploy.kind = "bucket",
         call' = [call EXCEPT ![t].todo = <<"undo_object">>]
  PROVE  Same(t) /\ call'[t].todo = <<"undo_object">>
<1>1. /\ call[t] \in Calls /\ call \in [Tasks -> Calls] /\ call[t].op = "put"
  BY CallTyped, About
<1>2. PICK c : c = [call[t] EXCEPT !.todo = <<"undo_object">>]
  OBVIOUS
<1>3. <<"undo_object">> \in Ways(call[t].op)
  BY <1>1 DEF Ways, BucketPuts
<1>4. /\ c \in Calls /\ c.op = call[t].op /\ c.h = call[t].h /\ c.todo = <<"undo_object">>
  <2>1. <<"undo_object">> \in UNION {Ways(op) : op \in Ops \cup {"none"}}
    BY <1>1, <1>3 DEF Ops
  <2>2. c \in Calls
    BY <1>1, <1>2, <2>1 DEF Calls
  <2>3. QED  BY <1>1, <1>2, <2>2 DEF Calls
<1>5. call' = [call EXCEPT ![t] = c]
  BY <1>1, <1>2
<1>6. call' \in [Tasks -> Calls] /\ call'[t] = c /\ \A u \in Tasks \ {t} : call'[u] = call[u]
  BY <1>1, <1>4, <1>5
<1>7. QED  BY <1>3, <1>4, <1>6 DEF Same

Undoes(t) == /\ At(t, "store") /\ deploy.kind = "bucket"
             /\ call' = [call EXCEPT ![t].todo = <<"undo_object">>]

\* A step returns, goes on, looks something up, or takes an object back.
LEMMA StepCases ==
  ASSUME NEW t \in Tasks, StoreStep(t)
  PROVE  /\ call[t].todo # <<>>
         /\ \/ \E r \in {"ok", "missing", "error"} : Return(t, r)
            \/ Advance(t) \/ FindRow(t) \/ FindCopy(t) \/ SumRows(t) \/ Undoes(t)
<1> DEFINE Goal == /\ call[t].todo # <<>>
                   /\ \/ \E r \in {"ok", "missing", "error"} : Return(t, r)
                      \/ Advance(t) \/ FindRow(t) \/ FindCopy(t) \/ SumRows(t) \/ Undoes(t)
<1>1. CASE Lock(t) \/ ReadStream(t) \/ Unlock(t) \/ RemoveAll(t)
  BY <1>1 DEF Lock, ReadStream, Unlock, RemoveAll, At
<1>2. CASE ReadRows(t) \/ GetObject(t) \/ MetaCopy(t)
  BY <1>2 DEF ReadRows, GetObject, MetaCopy, At
<1>3. CASE SumRows(t) \/ FindRow(t) \/ FindCopy(t)
  BY <1>3 DEF SumRows, FindRow, FindCopy, At
<1>4. CASE StoreRow(t)
  BY <1>4 DEF StoreRow, At, Undoes
<1>5. CASE DeleteRow(t) \/ DropRows(t)
  BY <1>5 DEF DeleteRow, DropRows, At
<1>6. CASE PutObject(t) \/ DeleteObject(t)
  BY <1>6 DEF PutObject, DeleteObject, At
<1>7. CASE GetCopy(t) \/ GetOrigin(t) \/ OptimizeImage(t)
  BY <1>7 DEF GetCopy, GetOrigin, OptimizeImage, At
<1>8. CASE StoreCopy(t) \/ DeleteCopies(t) \/ DropCopies(t)
  BY <1>8 DEF StoreCopy, DeleteCopies, DropCopies, At
<1>9. QED
  BY <1>1, <1>2, <1>3, <1>4, <1>5, <1>6, <1>7, <1>8 DEF StoreStep

LEMMA StepSame ==
  ASSUME Shape, OnWay, NEW t \in Tasks, StoreStep(t)
  PROVE  Same(t)
<1>1. call[t].todo # <<>>
  BY StepCases
<1>2. CASE \E r \in {"ok", "missing", "error"} : Return(t, r)
  BY <1>2, ReturnKeeps
<1>3. CASE Advance(t)
  BY <1>1, <1>3, AdvanceKeeps
<1>4. CASE FindRow(t) \/ FindCopy(t)
  BY <1>4, FoundStep
<1>5. CASE SumRows(t)
  BY <1>5, SumStep
<1>6. CASE Undoes(t)
  BY <1>6, UndoStep DEF Undoes
<1>7. QED  BY <1>2, <1>3, <1>4, <1>5, <1>6, StepCases

\* What a row or a copy becomes, and what never turns a live one into another.
LEMMA RowKinds ==
  ASSUME NEW found \in RowStates, NEW now \in RowStates
  PROVE  /\ InsertRow(found, now) \in {"live", "error", now}
         /\ InsertRow(found, now) = now => now = "live" \/ found = "live"
         /\ BucketInsert(found, now) \in {"live", "error", now}
         /\ BucketInsert(found, now) = now => found = "live"
         /\ BucketInsert(now, now) \in {"live", "error"}
         /\ now # "deleted" => BucketInsert(now, now) = "live"
         /\ found = "live" => InsertRow(found, now) = now
         /\ DeletedRow(now) \in RowStates /\ DeletedRow(now) # "live"
         /\ BucketDeleted(now) = "none"
  BY DEF RowStates, InsertRow, BucketInsert, DeletedRow, BucketDeleted

\* What a put does to the row of its content.
LEMMA StoreStepRow ==
  ASSUME Shape, OnWay, NEW t \in Tasks, StoreRow(t)
  PROVE  LET h == call[t].h
         IN /\ At(t, "store") /\ call[t].op = "put" /\ h \in Hashes
            /\ \/ /\ rows' = [rows EXCEPT ![h] = "live"]
                  /\ Return(t, "ok")
               \/ /\ rows' = rows /\ call[t].found = "live"
                  /\ Return(t, "ok")
               \/ /\ rows' = rows
                  /\ \/ Return(t, "error") /\ deploy.kind # "bucket"
                     \/ Undoes(t) /\ holders' = holders
                  /\ deploy.kind = "bucket" => BucketInsert(call[t].found, rows[h]) = "error"
<1> DEFINE h == call[t].h
           row == IF deploy.kind = "bucket" THEN BucketInsert(call[t].found, rows[h])
                                            ELSE InsertRow(call[t].found, rows[h])
<1>1. At(t, "store") /\ call[t].op = "put" /\ h \in Hashes
  BY About DEF StoreRow
<1>2. rows[h] \in RowStates /\ call[t].found \in RowStates /\ rows \in [Hashes -> RowStates]
  BY <1>1, CallTyped DEF Shape
<1>3. row \in {"live", "error", rows[h]} /\ (row = rows[h] => row = "live" \/ call[t].found = "live")
  BY <1>2, RowKinds
<1>4. CASE row = "error"
  <2>1. /\ rows' = rows
        /\ IF deploy.kind = "bucket"
           THEN call' = [call EXCEPT ![t].todo = <<"undo_object">>] /\ UNCHANGED holders
           ELSE Return(t, "error")
    BY <1>4 DEF StoreRow
  <2>2. QED  BY <1>1, <1>4, <2>1 DEF Undoes
<1>5. CASE row # "error"
  <2>1. rows' = [rows EXCEPT ![h] = row] /\ Return(t, "ok")
    BY <1>5 DEF StoreRow
  <2>2. row # "live" => rows' = rows /\ call[t].found = "live"
    BY <1>2, <1>3, <1>5, <2>1
  <2>3. QED  BY <1>1, <2>1, <2>2
<1>6. QED  BY <1>4, <1>5

\* The steps that change rows, copies, objects and the lock.
LEMMA Changes ==
  ASSUME NEW t \in Tasks, StoreStep(t)
  PROVE  /\ rows' = rows \/ StoreRow(t) \/ DeleteRow(t) \/ DropRows(t)
         /\ copies' = copies \/ StoreCopy(t) \/ DeleteCopies(t) \/ DropCopies(t)
         /\ objects' = objects \/ PutObject(t) \/ DeleteObject(t) \/ RemoveAll(t)
         /\ holders' = holders \/ holders' = holders \ {t} \/ Lock(t)
         /\ StoreRow(t) \/ DeleteRow(t) \/ DropRows(t) => copies' = copies /\ objects' = objects
         /\ StoreCopy(t) \/ DeleteCopies(t) \/ DropCopies(t) => rows' = rows
<1>1. CASE Lock(t) \/ ReadStream(t) \/ Unlock(t) \/ RemoveAll(t)
  BY <1>1 DEF Lock, ReadStream, Unlock, RemoveAll, At,
              StoreRow, DeleteRow, DropRows, StoreCopy, DeleteCopies, DropCopies
<1>2. CASE ReadRows(t) \/ GetObject(t) \/ MetaCopy(t)
  BY <1>2 DEF ReadRows, GetObject, MetaCopy, At, Return,
              StoreRow, DeleteRow, DropRows, StoreCopy, DeleteCopies, DropCopies
<1>3. CASE SumRows(t) \/ FindRow(t) \/ FindCopy(t)
  BY <1>3 DEF SumRows, FindRow, FindCopy, At,
              StoreRow, DeleteRow, DropRows, StoreCopy, DeleteCopies, DropCopies
<1>4. CASE StoreRow(t)
  <2>1. holders' = holders \/ holders' = holders \ {t}
    BY <1>4 DEF StoreRow, Return
  <2>2. copies' = copies /\ objects' = objects /\ At(t, "store")
    BY <1>4 DEF StoreRow
  <2>3. QED  BY <1>4, <2>1, <2>2 DEF StoreCopy, DeleteCopies, DropCopies, At
<1>5. CASE DeleteRow(t)
  <2>1. holders' = holders \/ holders' = holders \ {t}
    BY <1>5 DEF DeleteRow, Return
  <2>2. copies' = copies /\ objects' = objects /\ At(t, "delete")
    BY <1>5 DEF DeleteRow
  <2>3. QED  BY <1>5, <2>1, <2>2 DEF StoreCopy, DeleteCopies, DropCopies, At
<1>6. CASE DropRows(t)
  <2>1. holders' = holders \/ holders' = holders \ {t}
    BY <1>6 DEF DropRows, Return
  <2>2. copies' = copies /\ objects' = objects /\ At(t, "drop")
    BY <1>6 DEF DropRows
  <2>3. QED  BY <1>6, <2>1, <2>2 DEF StoreCopy, DeleteCopies, DropCopies, At
<1>7. CASE PutObject(t) \/ DeleteObject(t)
  BY <1>7 DEF PutObject, DeleteObject, At, Return,
              StoreRow, DeleteRow, DropRows, StoreCopy, DeleteCopies, DropCopies
<1>8. CASE GetCopy(t) \/ GetOrigin(t) \/ OptimizeImage(t)
  BY <1>8 DEF GetCopy, GetOrigin, OptimizeImage, At, Return,
              StoreRow, DeleteRow, DropRows, StoreCopy, DeleteCopies, DropCopies
<1>9. CASE StoreCopy(t) \/ DeleteCopies(t) \/ DropCopies(t)
  <2>1. rows' = rows /\ objects' = objects
    BY <1>9 DEF StoreCopy, DeleteCopies, DropCopies
  <2>2. holders' = holders \/ holders' = holders \ {t}
    BY <1>9 DEF StoreCopy, DeleteCopies, DropCopies, Return
  <2>3. ~StoreRow(t) /\ ~DeleteRow(t) /\ ~DropRows(t)
    BY <1>9 DEF StoreCopy, DeleteCopies, DropCopies, StoreRow, DeleteRow, DropRows, At
  <2>4. QED  BY <1>9, <2>1, <2>2, <2>3
<1>10. QED
  BY <1>1, <1>2, <1>3, <1>4, <1>5, <1>6, <1>7, <1>8, <1>9 DEF StoreStep

\* The rows after a step: a put makes one live, a delete or a drop none.
LEMMA RowsStep ==
  ASSUME Shape, OnWay, NEW t \in Tasks, StoreStep(t)
  PROVE  /\ rows' \in [Hashes -> RowStates]
         /\ \A h \in Hashes :
              /\ rows'[h] = "live" /\ rows[h] # "live" =>
                   At(t, "store") /\ call[t].op = "put" /\ h = call[t].h /\ call'[t].todo = <<>>
              /\ rows[h] = "live" /\ rows'[h] # "live" =>
                   \/ DeleteRow(t) /\ call[t].op = "delete" /\ h = call[t].h
                   \/ DropRows(t) /\ call[t].op = "drop"
<1>1. rows \in [Hashes -> RowStates]
  BY DEF Shape
<1>2. CASE rows' = rows
  BY <1>1, <1>2
<1>3. CASE StoreRow(t) /\ rows' # rows
  <2>1. /\ At(t, "store") /\ call[t].op = "put" /\ call[t].h \in Hashes
        /\ rows' = [rows EXCEPT ![call[t].h] = "live"] /\ Return(t, "ok")
    BY <1>3, StoreStepRow
  <2>2. call'[t].todo = <<>>
    BY <2>1, ReturnKeeps
  <2>3. QED  BY <1>1, <2>1, <2>2 DEF RowStates
<1>4. CASE DeleteRow(t)
  <2>1. call[t].op = "delete" /\ call[t].h \in Hashes
    BY <1>4, About DEF DeleteRow
  <2>2. PICK x \in RowStates \ {"live"} : rows' = [rows EXCEPT ![call[t].h] = x]
    <3>1. rows[call[t].h] \in RowStates
      BY <1>1, <2>1
    <3>2. /\ DeletedRow(rows[call[t].h]) \in RowStates \ {"live"}
          /\ BucketDeleted(rows[call[t].h]) \in RowStates \ {"live"}
      BY <3>1 DEF RowStates, DeletedRow, BucketDeleted
    <3>3. CASE deploy.kind = "bucket"
      BY <1>4, <3>2, <3>3 DEF DeleteRow
    <3>4. CASE deploy.kind # "bucket"
      BY <1>4, <3>2, <3>4 DEF DeleteRow
    <3>5. QED  BY <3>3, <3>4
  <2>3. QED  BY <1>1, <1>4, <2>1, <2>2
<1>5. CASE DropRows(t)
  <2>1. rows' = [h \in Hashes |-> "none"] /\ At(t, "drop")
    BY <1>5 DEF DropRows
  <2>2. call[t].op = "drop"
    BY <2>1, Next1, CallTyped DEF At, HeadOf, ReadSteps, CopySteps, Ops
  <2>3. QED  BY <1>5, <2>1, <2>2 DEF RowStates
<1>6. QED  BY <1>2, <1>3, <1>4, <1>5, Changes

LEMMA CopiesStep ==
  ASSUME Shape, OnWay, NEW t \in Tasks, StoreStep(t)
  PROVE  /\ copies' \in [Hashes -> RowStates]
         /\ \A h \in Hashes : copies'[h] = "live" /\ copies[h] # "live" =>
                                At(t, "store_copy") /\ h = call[t].h
         /\ DeleteCopies(t) => call[t].h \in Hashes /\ copies'[call[t].h] # "live"
<1>1. copies \in [Hashes -> RowStates]
  BY DEF Shape
<1>2. CASE copies' = copies /\ ~DeleteCopies(t)
  BY <1>1, <1>2
<1>3. CASE StoreCopy(t)
  <2>1. At(t, "store_copy") /\ call[t].h \in Hashes
    BY <1>3, About DEF StoreCopy, CopySteps
  <2>2. copies[call[t].h] \in RowStates /\ call[t].found \in RowStates
    BY <1>1, <2>1, CallTyped
  <2>3. PICK x : x = InsertRow(call[t].found, copies[call[t].h])
    OBVIOUS
  <2>4. x \in {"live", "error", copies[call[t].h]}
    BY <2>2, <2>3, RowKinds
  <2>5. copies' = IF x = "error" THEN copies ELSE [copies EXCEPT ![call[t].h] = x]
    BY <1>3, <2>3 DEF StoreCopy
  <2>6. ~DeleteCopies(t)
    BY <2>1 DEF DeleteCopies, At
  <2>7. QED  BY <1>1, <2>1, <2>2, <2>4, <2>5, <2>6 DEF RowStates
<1>4. CASE DeleteCopies(t)
  <2>1. call[t].h \in Hashes
    BY <1>4, About DEF DeleteCopies
  <2>2. PICK x \in RowStates \ {"live"} : x = DeletedRow(copies[call[t].h])
    BY <1>1, <2>1 DEF RowStates, DeletedRow
  <2>3. copies' = [copies EXCEPT ![call[t].h] = x]
    BY <1>4, <2>2 DEF DeleteCopies
  <2>4. QED  BY <1>1, <2>1, <2>2, <2>3
<1>5. CASE DropCopies(t)
  <2>1. ~DeleteCopies(t)
    BY <1>5 DEF DeleteCopies, DropCopies, At
  <2>2. QED  BY <1>5, <2>1 DEF DropCopies, RowStates
<1>6. QED  BY <1>2, <1>3, <1>4, <1>5, Changes

LEMMA ServeShape ==
  ASSUME Shape, OnWay, NEW t \in Tasks, Serve(t)
  PROVE  Shape' /\ OnWay' /\ Same(t)
<1>1. StoreStep(t) /\ UNCHANGED <<deploy, server, req, status, count, kept>>
  BY DEF Serve
<1>2. Same(t)
  BY <1>1, StepSame
<1>3. OnWay'
  <2>1. \A u \in Tasks : call'[u].todo \in Ways(call'[u].op) /\ call'[u].op = call[u].op
                         /\ call'[u].h = call[u].h
    BY <1>2 DEF Same, OnWay
  <2>2. \A op : Ways(op)' = Ways(op)
    BY <1>1 DEF Ways
  <2>3. QED  BY <1>1, <2>1, <2>2 DEF OnWay
<1>4. rows' \in [Hashes -> RowStates] /\ copies' \in [Hashes -> RowStates]
  BY <1>1, RowsStep, CopiesStep
<1>5. IsFiniteSet({h \in Hashes : rows'[h] = "live"})
  <2>1. {h \in Hashes : rows'[h] = "live"} \subseteq {h \in Hashes : rows[h] = "live"} \cup {call[t].h}
    BY <1>1, RowsStep
  <2>2. IsFiniteSet({h \in Hashes : rows[h] = "live"} \cup {call[t].h})
    BY FS_AddElement DEF Shape
  <2>3. QED  BY <2>1, <2>2, FS_Subset
<1>6. objects' \subseteq Hashes
  <2>1. CASE PutObject(t)
    <3>1. call[t].h \in Hashes
      BY <2>1, About DEF PutObject
    <3>2. QED  BY <2>1, <3>1 DEF Shape, PutObject
  <2>2. CASE DeleteObject(t)
    BY <2>2 DEF Shape, DeleteObject
  <2>3. CASE RemoveAll(t)
    BY <2>3 DEF RemoveAll
  <2>4. QED  BY <1>1, <2>1, <2>2, <2>3, Changes DEF Shape
<1>7. holders' \subseteq Tasks
  BY <1>1, Changes DEF Shape, Lock
<1>8. by' \in [Hashes -> Users]
  <2>1. by' = [h \in Hashes |-> IF rows'[h] = "live" /\ rows[h] # "live"
                                THEN req[t].user ELSE by[h]]
    BY DEF Serve
  <2>2. req[t].user \in Users /\ by \in [Hashes -> Users]
    BY DEF Shape, Reqs
  <2>3. QED  BY <2>1, <2>2
<1>9. Calls' = Calls /\ Reqs' = Reqs
  <2>1. \A op : Ways(op)' = Ways(op)
    BY <1>1 DEF Ways
  <2>2. QED  BY <2>1 DEF Calls, Reqs
<1>10. Shape'
  <2>1. call' \in [Tasks -> Calls]
    BY <1>2 DEF Same
  <2>2. QED  BY <1>1, <1>4, <1>5, <1>6, <1>7, <1>8, <1>9, <2>1 DEF Shape
<1>11. QED  BY <1>2, <1>3, <1>10

LEMMA ServeUndeleted ==
  ASSUME Shape, OnWay, Undeleted, NEW t \in Tasks, Serve(t)
  PROVE  Undeleted'
<1>1. req' = req /\ kept' = kept /\ Same(t)
  BY ServeShape DEF Serve
<1>2. \A u \in Tasks : call'[u].op = call[u].op /\ call'[u].h = call[u].h
  BY <1>1 DEF Same
<1>3. \A u \in Tasks : \A h : Deleting(u, h)' = Deleting(u, h)
  BY <1>1, <1>2 DEF Deleting
<1>4. QED  BY <1>1, <1>2, <1>3 DEF Undeleted

-----------------------------------------------------------------------------
(* A bucket under SQLite's lock: a row changes only in the hands of the one
   holder, so what find read is what store meets. *)

Holding(t) == At(t, "find") \/ At(t, "store") \/ At(t, "delete") \/ At(t, "drop")

\* What the step leaves the task itself with.
LEMMA HolderStep ==
  ASSUME Shape, OnWay, OneHolder, deploy.kind = "bucket", deploy.sqlite, NEW t \in Tasks,
         StoreStep(t)
  PROVE  /\ Holding(t)' => t \in holders'
         /\ At(t, "store")' => call'[t].found = rows'[call[t].h]
         /\ ~At(t, "undo_object")'
<1> DEFINE Goal == /\ Holding(t)' => t \in holders'
                   /\ At(t, "store")' => call'[t].found = rows'[call[t].h]
                   /\ ~At(t, "undo_object")'
<1> USE DEF Holding
<1>0. /\ HeadOf(call[t].op, call[t].todo) /\ AnyHeadOf(call[t].op, call[t].todo)
      /\ BucketHeadOf(call[t].todo) /\ call[t].todo # <<>>
  BY Next1, StepCases
<1>1. CASE call'[t].todo = <<>>
  BY <1>1 DEF At
<1>2. CASE Lock(t)
  <2>1. call'[t].todo = Tail(call[t].todo) /\ t \in holders' /\ At(t, "lock")
    BY <1>0, <1>2, AdvanceKeeps DEF Lock
  <2>2. call[t].todo \in {<<"lock", "find", "store">>, <<"lock", "delete">>, <<"lock", "drop">>}
    BY <1>0, <2>1 DEF BucketHeadOf, At
  <2>3. Head(call'[t].todo) \in {"find", "delete", "drop"}
    <3>1. Tail(call[t].todo) \in {<<"find", "store">>, <<"delete">>, <<"drop">>}
      BY <2>2, Ends
    <3>2. Head(<<"find", "store">>) = "find" /\ Head(<<"delete">>) = "delete" /\ Head(<<"drop">>) = "drop"
      BY Ends
    <3>3. QED BY <2>1, <3>1, <3>2
  <2>4. QED  BY <2>1, <2>3 DEF At
<1>3. CASE ReadStream(t) \/ RemoveAll(t) \/ (PutObject(t) /\ Advance(t))
           \/ (DeleteObject(t) /\ Advance(t))
  <2>1. call'[t].todo = Tail(call[t].todo)
    BY <1>0, <1>3, AdvanceKeeps DEF ReadStream, RemoveAll
  <2>2. At(t, "stream") \/ At(t, "remove_all") \/ At(t, "put_object") \/ At(t, "delete_object")
    BY <1>3 DEF ReadStream, RemoveAll, PutObject, DeleteObject, OneHolder
  <2>3. call[t].todo \in {<<"stream", "put_object", "lock", "find", "store">>,
          <<"remove_all", "lock", "drop">>, <<"put_object", "lock", "find", "store">>,
          <<"delete_object", "lock", "delete">>}
    BY <1>0, <2>2 DEF BucketHeadOf, At
  <2>4. Head(call'[t].todo) \in {"put_object", "lock"}
    BY <2>1, <2>3, Ends
  <2>5. QED  BY <2>4 DEF At
<1>4. CASE FindRow(t)
  <2>1. /\ call'[t].todo = Tail(call[t].todo) /\ At(t, "find")
        /\ call'[t].found = rows[call[t].h] /\ rows' = rows /\ holders' = holders
    BY <1>4, FoundStep DEF FindRow
  <2>2. Head(call'[t].todo) = "store"
    BY <1>0, <2>1, Ends DEF AnyHeadOf, At
  <2>3. t \in holders
    BY <2>1 DEF OneHolder
  <2>4. QED  BY <2>1, <2>2, <2>3 DEF At
<1>5. CASE StoreRow(t)
  <2>1. /\ At(t, "store") /\ call[t].h \in Hashes
        /\ \/ Return(t, "ok")
           \/ Return(t, "error") /\ deploy.kind # "bucket"
           \/ BucketInsert(call[t].found, rows[call[t].h]) = "error"
    BY <1>5, StoreStepRow
  <2>2. call[t].found = rows[call[t].h] /\ rows[call[t].h] # "deleted"
    BY <2>1 DEF OneHolder
  <2>3. rows[call[t].h] \in RowStates
    BY <2>1 DEF Shape
  <2>4. BucketInsert(call[t].found, rows[call[t].h]) = "live"
    BY <2>2, <2>3, RowKinds
  <2>5. Return(t, "ok")
    BY <2>1, <2>4
  <2>6. QED  BY <1>1, <2>5, ReturnKeeps
<1>6. CASE DeleteRow(t)
  <2>1. At(t, "delete")
    BY <1>6 DEF DeleteRow
  <2>2. call[t].todo = <<"delete">>
    BY <1>0, <2>1 DEF BucketHeadOf, At
  <2>3. ~(Len(call[t].todo) > 1)
    BY <2>2
  <2>4. \E r \in {"ok", "missing", "error"} : Return(t, r)
    BY <1>6, <2>3 DEF DeleteRow
  <2>5. QED  BY <1>1, <2>4, ReturnKeeps
<1>7. CASE DropRows(t)
  <2>1. At(t, "drop")
    BY <1>7 DEF DropRows
  <2>2. call[t].todo = <<"drop">>
    BY <1>0, <2>1 DEF BucketHeadOf, At
  <2>3. ~(Len(call[t].todo) > 1)
    BY <2>2
  <2>4. Return(t, "ok")
    BY <1>7, <2>3 DEF DropRows
  <2>5. QED  BY <1>1, <2>4, ReturnKeeps
<1>8. CASE \E r \in {"ok", "missing", "error"} : Return(t, r)
  BY <1>1, <1>8, ReturnKeeps
<1>9. CASE SumRows(t)
  BY <1>1, <1>9, SumStep
<1>10. CASE \E s \in CopySteps \cup {"unlock", "delete_copies", "drop_copies"} : At(t, s)
  BY <1>0, <1>10 DEF HeadOf, At
<1>11. QED
  <2>1. ReadRows(t) \/ GetObject(t) \/ MetaCopy(t) => \E r \in {"ok", "missing", "error"} : Return(t, r)
    BY DEF ReadRows, GetObject, MetaCopy
  <2>2. PutObject(t) => Advance(t) \/ Return(t, "error")
    BY DEF PutObject
  <2>3. DeleteObject(t) => Advance(t) \/ Return(t, "error")
    BY DEF DeleteObject
  <2>4. GetCopy(t) \/ GetOrigin(t) \/ OptimizeImage(t) \/ FindCopy(t) \/ StoreCopy(t)
        => \E s \in CopySteps : At(t, s)
    BY DEF GetCopy, GetOrigin, OptimizeImage, FindCopy, StoreCopy, CopySteps
  <2>5. Unlock(t) \/ DeleteCopies(t) \/ DropCopies(t)
        => \E s \in {"unlock", "delete_copies", "drop_copies"} : At(t, s)
    BY DEF Unlock, DeleteCopies, DropCopies
  <2> HIDE DEF Goal
  <2>6. QED
    BY <1>2, <1>3, <1>4, <1>5, <1>6, <1>7, <1>8, <1>9, <1>10, <2>1, <2>2, <2>3, <2>4, <2>5
    DEF StoreStep

LEMMA ServeHolder ==
  ASSUME Shape, OnWay, OneHolder, NEW t \in Tasks, Serve(t)
  PROVE  OneHolder'
<1>0. StoreStep(t) /\ deploy' = deploy /\ Same(t)
  BY ServeShape DEF Serve
<1> SUFFICES ASSUME deploy.kind = "bucket", deploy.sqlite  PROVE OneHolder'
  BY <1>0 DEF OneHolder
<1>1. \A a, b \in holders' : a = b
  <2>1. CASE Lock(t)
    <3>1. holders = {} /\ holders' = holders \cup {t}
      BY <2>1 DEF Lock, Free
    <3>2. QED  BY <3>1
  <2>2. CASE holders' = holders \/ holders' = holders \ {t}
    BY <2>2 DEF OneHolder
  <2>3. QED  BY <1>0, <2>1, <2>2, Changes
<1>2. ASSUME NEW u \in Tasks \ {t}
      PROVE  /\ Holding(u)' => u \in holders'
             /\ At(u, "store")' => call'[u].found = rows'[call'[u].h]
             /\ ~At(u, "undo_object")'
  <2>1. call'[u] = call[u]
    BY <1>0 DEF Same
  <2>2. /\ Holding(u)' <=> Holding(u)
        /\ At(u, "store")' <=> At(u, "store")
        /\ ~At(u, "undo_object")'
        /\ Holding(u) => u \in holders
    BY <2>1 DEF Holding, At, OneHolder
  <2>3. holders \ {t} \subseteq holders'
    BY <1>0, Changes DEF Lock
  <2>4. ASSUME At(u, "store")  PROVE rows' = rows
    <3>1. u \in holders
      BY <2>2, <2>4 DEF Holding
    <3>2. t \notin holders
      BY <3>1 DEF OneHolder
    <3>3. ~At(t, "store") /\ ~At(t, "delete") /\ ~At(t, "drop")
      BY <3>2 DEF OneHolder
    <3>4. QED  BY <1>0, <3>3, Changes DEF StoreRow, DeleteRow, DropRows
  <2>5. At(u, "store") => call[u].found = rows[call[u].h]
    BY DEF OneHolder
  <2>6. QED  BY <2>1, <2>2, <2>3, <2>4, <2>5
<1>3. /\ Holding(t)' => t \in holders'
      /\ At(t, "store")' => call'[t].found = rows'[call'[t].h]
      /\ ~At(t, "undo_object")'
  BY <1>0, HolderStep DEF Same
<1>4. ASSUME NEW h \in Hashes  PROVE rows'[h] # "deleted"
  <2>1. rows[h] # "deleted" /\ rows \in [Hashes -> RowStates]
    BY DEF OneHolder, Shape
  <2>2. CASE StoreRow(t)
    BY <2>1, <2>2, StoreStepRow
  <2>3. CASE DeleteRow(t)
    BY <2>1, <2>3 DEF DeleteRow, BucketDeleted
  <2>4. CASE DropRows(t)
    BY <2>4 DEF DropRows
  <2>5. QED  BY <1>0, <2>1, <2>2, <2>3, <2>4, Changes
<1>5. \A u \in Tasks :
        /\ Holding(u)' => u \in holders'
        /\ At(u, "store")' => call'[u].found = rows'[call'[u].h]
        /\ ~At(u, "undo_object")'
  BY <1>2, <1>3
<1>6. QED  BY <1>1, <1>4, <1>5 DEF OneHolder, Holding

-----------------------------------------------------------------------------
(* What is kept stays readable. *)

\* Only a request that deletes the content, or takes its object back, can lose it.
LEMMA StaysReadable ==
  ASSUME Shape, OnWay, OneHolder, Locking, NEW t \in Tasks, Serve(t), NEW h \in Hashes,
         ~Deleting(t, h), Readable(h)
  PROVE  Readable(h)'
<1>1. StoreStep(t) /\ deploy' = deploy
  BY DEF Serve
<1>2. CASE deploy.kind # "bucket"
  <2>1. rows[h] = "live"
    BY <1>2 DEF Readable
  <2>2. rows'[h] = "live"
    BY <1>1, <2>1, RowsStep DEF Deleting
  <2>3. QED  BY <1>1, <1>2, <2>2 DEF Readable
<1>3. CASE deploy.kind = "bucket"
  <2>1. h \in objects
    BY <1>3 DEF Readable
  <2>2. ~RemoveAll(t)
    <3>1. At(t, "remove_all") => call[t].op = "drop"
      BY Next1, CallTyped DEF At, HeadOf, ReadSteps, CopySteps, Ops
    <3>2. QED  BY <3>1 DEF RemoveAll, Deleting
  <2>3. DeleteObject(t) => h # call[t].h
    <3>1. ~At(t, "undo_object")
      BY <1>3 DEF OneHolder, Locking
    <3>2. DeleteObject(t) => At(t, "delete_object")
      BY <3>1 DEF DeleteObject
    <3>3. At(t, "delete_object") => call[t].op = "delete"
      BY About
    <3>4. QED  BY <3>2, <3>3 DEF Deleting
  <2>4. h \in objects'
    BY <1>1, <2>1, <2>2, <2>3, Changes DEF PutObject, DeleteObject
  <2>5. QED  BY <1>1, <1>3, <2>4 DEF Readable
<1>4. QED  BY <1>2, <1>3

\* The steps of a put.
LEMMA PutSteps ==
  ASSUME Shape, OnWay, NEW t \in Tasks, StoreStep(t), call[t].op = "put"
  PROVE  \/ Lock(t) \/ ReadStream(t) \/ FindRow(t) \/ StoreRow(t) \/ PutObject(t)
         \/ DeleteObject(t) /\ At(t, "undo_object")
<1>1. Head(call[t].todo) \in {"lock", "stream", "find", "store", "put_object", "undo_object"}
  BY Next1, StepCases DEF HeadOf
<1>2. /\ ~Unlock(t) /\ ~ReadRows(t) /\ ~SumRows(t) /\ ~DeleteRow(t) /\ ~DropRows(t)
      /\ ~GetObject(t) /\ ~RemoveAll(t)
  BY <1>1 DEF Unlock, ReadRows, SumRows, DeleteRow, DropRows, GetObject, RemoveAll, At
<1>3. /\ ~MetaCopy(t) /\ ~GetCopy(t) /\ ~GetOrigin(t) /\ ~OptimizeImage(t)
      /\ ~FindCopy(t) /\ ~StoreCopy(t) /\ ~DeleteCopies(t) /\ ~DropCopies(t)
  BY <1>1 DEF MetaCopy, GetCopy, GetOrigin, OptimizeImage, FindCopy, StoreCopy, DeleteCopies,
              DropCopies, At
<1>4. DeleteObject(t) => At(t, "undo_object")
  BY <1>1 DEF DeleteObject, At
<1>5. QED  BY <1>2, <1>3, <1>4 DEF StoreStep

LEMMA NewlyStored ==
  ASSUME Shape, OnWay, OneHolder, NEW t \in Tasks, Serve(t), Stored(t)', ~Stored(t)
  PROVE  Readable(call[t].h)'
<1>0. StoreStep(t) /\ deploy' = deploy /\ Same(t)
  BY ServeShape DEF Serve
<1>1. call[t].op = "put" /\ call[t].h \in Hashes /\ call[t].todo # <<>>
  BY <1>0, Names, StepCases DEF Stored, Same
<1>2. /\ AnyHeadOf(call[t].op, call[t].todo) /\ BucketHeadOf(call[t].todo)
      /\ DatabaseHeadOf(call[t].todo)
  BY <1>1, Next1
<1>3. CASE Lock(t) \/ ReadStream(t)
  <2>1. call'[t].todo = Tail(call[t].todo) /\ (At(t, "lock") \/ At(t, "stream"))
    BY <1>1, <1>3, AdvanceKeeps DEF Lock, ReadStream
  <2>2. CASE deploy.kind = "bucket"
    <3>1. call[t].todo \notin {<<"lock", "find", "store">>}
      BY <1>1, <2>2 DEF Stored
    <3>2. Head(call[t].todo) = "lock" => Head(Tail(call[t].todo)) \in {"delete", "drop"}
      BY <1>2, <2>2, <3>1, Ends DEF BucketHeadOf
    <3>3. Head(call[t].todo) = "stream" => Head(Tail(call[t].todo)) = "put_object"
      BY <1>2, <2>2, Ends DEF BucketHeadOf
    <3>4. Head(call'[t].todo) \in {"delete", "drop", "put_object"}
      BY <2>1, <3>2, <3>3 DEF At
    <3>5. call'[t].todo # <<>>
      <4>1. call[t].todo \in {<<"lock", "delete">>, <<"lock", "drop">>,
              <<"stream", "put_object", "lock", "find", "store">>}
        BY <1>2, <2>1, <2>2, <3>1 DEF BucketHeadOf, At
      <4>2. QED  BY <2>1, <4>1, Ends, NonEmpty
    <3>6. QED  BY <1>0, <2>2, <3>4, <3>5, Ends DEF Stored, Done, At
  <2>3. CASE deploy.kind # "bucket"
    <3>1. Tail(call[t].todo) # <<>> /\ Head(Tail(call[t].todo)) # "store"
      <4>1. call[t].todo \in {<<"stream", "find", "store">>,
              <<"lock", "stream", "find", "store">>, <<"lock", "delete">>,
              <<"lock", "delete", "unlock", "delete_copies">>, <<"lock", "drop">>,
              <<"lock", "drop", "unlock", "drop_copies">>}
        BY <1>2, <2>1, <2>3 DEF DatabaseHeadOf, At
      <4>2. Head(Tail(call[t].todo)) \in {"find", "stream", "delete", "drop"}
        BY <4>1, Ends
      <4>3. Tail(call[t].todo) # <<>>
        <5>1. Tail(call[t].todo) \in {<<"find", "store">>, <<"stream", "find", "store">>,
                <<"delete">>, <<"delete", "unlock", "delete_copies">>, <<"drop">>,
                <<"drop", "unlock", "drop_copies">>}
          BY <4>1, Ends
        <5>2. QED  BY <5>1, NonEmpty
      <4>4. QED  BY <4>2, <4>3
    <3>2. QED  BY <1>0, <2>1, <2>3, <3>1 DEF Stored, Done, At
  <2>4. QED  BY <2>2, <2>3
<1>4. CASE FindRow(t)
  <2>1. call'[t].todo = <<"store">> /\ call'[t].found = rows[call[t].h] /\ rows' = rows
        /\ call[t].todo = <<"find", "store">>
    BY <1>2, <1>4, FoundStep, Ends DEF FindRow, AnyHeadOf, At
  <2>2. deploy.kind # "bucket"
    BY <1>1, <2>1 DEF Stored
  <2>3. call'[t].found = "live"
    BY <1>0, <2>1, <2>2 DEF Stored, Done
  <2>4. QED  BY <1>0, <2>1, <2>2, <2>3 DEF Readable, Same
<1>5. CASE StoreRow(t)
  <2>1. /\ At(t, "store")
        /\ \/ rows' = [rows EXCEPT ![call[t].h] = "live"] /\ Return(t, "ok")
           \/ call[t].found = "live" /\ Return(t, "ok")
           \/ Return(t, "error") \/ Undoes(t)
    BY <1>5, StoreStepRow
  <2>2. deploy.kind # "bucket"
    BY <1>1, <1>2, <2>1 DEF Stored, AnyHeadOf, At
  <2>3. call[t].found # "live"
    BY <1>1, <2>1, <2>2 DEF Stored
  <2>4. ~Return(t, "error")
    <3>1. ASSUME Return(t, "error")  PROVE FALSE
      <4>1. call'[t].todo = <<>> /\ call'[t].result = "error"
        BY <3>1, ReturnKeeps
      <4>2. QED  BY <1>0, <2>2, <4>1 DEF Stored, Done, At
    <3>2. QED  BY <3>1
  <2>5. rows' = [rows EXCEPT ![call[t].h] = "live"]
    BY <2>1, <2>2, <2>3, <2>4 DEF Undoes
  <2>6. QED  BY <1>0, <1>1, <2>2, <2>5 DEF Readable, Shape, Same
<1>6. CASE PutObject(t)
  <2>1. deploy.kind = "bucket"
    BY <1>1, <1>6, Next1 DEF PutObject, HeadOf, At
  <2>2. ~Return(t, "error")
    <3>1. ASSUME Return(t, "error")  PROVE FALSE
      <4>1. call'[t].todo = <<>> /\ call'[t].result = "error"
        BY <3>1, ReturnKeeps
      <4>2. QED  BY <1>0, <2>1, <4>1 DEF Stored, Done, At
    <3>2. QED  BY <3>1
  <2>3. call[t].h \in objects'
    BY <1>6, <2>2 DEF PutObject
  <2>4. QED  BY <1>0, <2>1, <2>3 DEF Readable, Same
<1>7. CASE DeleteObject(t) /\ At(t, "undo_object")
  <2>1. deploy.kind = "bucket"
    BY <1>1, <1>7, Next1 DEF HeadOf, At
  <2>2. call'[t].todo = <<>> /\ call'[t].result = "error"
    BY <1>7, ReturnKeeps DEF DeleteObject
  <2>3. QED  BY <1>0, <2>1, <2>2 DEF Stored, Done, At
<1>8. QED  BY <1>0, <1>1, <1>3, <1>4, <1>5, <1>6, <1>7, PutSteps

LEMMA ServeKept ==
  ASSUME Shape, OnWay, Undeleted, OneHolder, Kept, NEW t \in Tasks, Serve(t)
  PROVE  Kept'
<1>0. /\ StoreStep(t) /\ deploy' = deploy /\ Same(t) /\ req' = req /\ kept' = kept
  BY ServeShape DEF Serve
<1>1. Locking' <=> Locking
  BY <1>0 DEF Locking
<1> SUFFICES ASSUME Locking  PROVE Kept'
  BY <1>1 DEF Kept
<1>2. ASSUME NEW h \in kept'  PROVE Readable(h)'
  <2>1. h \in Hashes /\ Readable(h) /\ ~Deleting(t, h)
    BY <1>0 DEF Shape, Kept, Undeleted
  <2>2. QED  BY <2>1, StaysReadable
<1>3. ASSUME NEW u \in Tasks, req'[u].clean, Stored(u)'  PROVE Readable(call[u].h)'
  <2>1. call'[u].h = call[u].h /\ call'[u].op = call[u].op /\ req[u].clean
    BY <1>0, <1>3 DEF Same
  <2>2. call[u].op = "put" /\ call[u].h \in Hashes
    BY <1>3, <2>1, Names DEF Stored
  <2>3. CASE Stored(u)
    <3>1. Readable(call[u].h)
      BY <2>1, <2>3 DEF Kept
    <3>2. CASE ~Deleting(t, call[u].h)
      BY <2>1, <2>2, <3>1, <3>2, StaysReadable DEF Readable
    <3>3. CASE Deleting(t, call[u].h)
      <4>1. u = t
        BY <2>1, <3>3 DEF Undeleted
      <4>2. CASE deploy.kind # "bucket"
        <5>1. rows[call[u].h] = "live"
          BY <3>1, <4>2 DEF Readable
        <5>2. rows'[call[u].h] = "live"
          BY <1>0, <2>2, <4>1, <5>1, RowsStep
        <5>3. QED  BY <1>0, <2>1, <4>2, <5>2 DEF Readable
      <4>3. CASE deploy.kind = "bucket"
        <5>1. call[u].h \in objects /\ ~At(t, "undo_object")
          BY <3>1, <4>3 DEF Readable, OneHolder, Locking
        <5>2. Lock(t) \/ ReadStream(t) \/ FindRow(t) \/ StoreRow(t) \/ PutObject(t)
          BY <1>0, <2>2, <4>1, <5>1, PutSteps
        <5>3. objects \subseteq objects'
          BY <5>2 DEF Lock, ReadStream, FindRow, StoreRow, PutObject
        <5>4. QED  BY <1>0, <2>1, <4>3, <5>1, <5>3 DEF Readable
      <4>4. QED  BY <4>2, <4>3
    <3>4. QED  BY <3>2, <3>3
  <2>4. CASE ~Stored(u)
    <3>1. u = t
      <4>1. SUFFICES ASSUME u # t  PROVE FALSE
        OBVIOUS
      <4>2. call'[u] = call[u]
        BY <1>0, <4>1 DEF Same
      <4>3. Stored(u)
        BY <1>0, <1>3, <4>2 DEF Stored, Done, At
      <4>4. QED  BY <2>4, <4>3
    <3>2. QED  BY <1>3, <2>1, <2>4, <3>1, NewlyStored DEF Readable
  <2>5. QED  BY <2>3, <2>4
<1>4. QED  BY <1>2, <1>3 DEF Kept

-----------------------------------------------------------------------------
(* Copies go with their origin. *)

\* The steps that take the copies away, and those of a reader that makes one.
LEMMA UncopySteps ==
  ASSUME NEW t \in Tasks, StoreStep(t)
  PROVE  /\ At(t, "unlock") => Unlock(t)
         /\ At(t, "delete_copies") => DeleteCopies(t)
         /\ At(t, "drop_copies") => DropCopies(t)
         /\ At(t, "get_origin") => GetOrigin(t)
         /\ At(t, "store_copy") => StoreCopy(t)
<1> DEFINE s == Head(call[t].todo)
<1>1. /\ Lock(t) => s = "lock"
      /\ ReadStream(t) => s = "stream"
      /\ ReadRows(t) \/ SumRows(t) => s \in {"read", "locked_read"}
      /\ FindRow(t) => s = "find"
      /\ StoreRow(t) => s = "store"
      /\ DeleteRow(t) => s = "delete"
      /\ DropRows(t) => s = "drop"
  BY DEF Lock, ReadStream, ReadRows, SumRows, FindRow, StoreRow, DeleteRow, DropRows, At
<1>2. /\ PutObject(t) => s = "put_object"
      /\ GetObject(t) => s = "get_object"
      /\ DeleteObject(t) => s \in {"delete_object", "undo_object"}
      /\ RemoveAll(t) => s = "remove_all"
      /\ MetaCopy(t) => s = "meta_copy"
      /\ GetCopy(t) => s = "get_copy"
      /\ OptimizeImage(t) => s = "optimize"
      /\ FindCopy(t) => s = "find_copy"
  BY DEF PutObject, GetObject, DeleteObject, RemoveAll, MetaCopy, GetCopy, OptimizeImage,
         FindCopy, At
<1>3. /\ Unlock(t) => s = "unlock"
      /\ GetOrigin(t) => s = "get_origin"
      /\ StoreCopy(t) => s = "store_copy"
      /\ DeleteCopies(t) => s = "delete_copies"
      /\ DropCopies(t) => s = "drop_copies"
  BY DEF Unlock, GetOrigin, StoreCopy, DeleteCopies, DropCopies, At
<1>4. /\ At(t, "unlock") => s = "unlock"
      /\ At(t, "delete_copies") => s = "delete_copies"
      /\ At(t, "drop_copies") => s = "drop_copies"
      /\ At(t, "get_origin") => s = "get_origin"
      /\ At(t, "store_copy") => s = "store_copy"
  BY DEF At
<1> HIDE DEF s
<1>5. QED  BY <1>1, <1>2, <1>3, <1>4 DEF StoreStep

\* A copy comes from one in the making, and that from a live origin.
LEMMA CopyFrom ==
  ASSUME Shape, OnWay, NEW t \in Tasks, Serve(t), NEW h \in Hashes, NEW u \in Tasks,
         Copying(u, h)'
  PROVE  Copying(u, h) \/ (u = t /\ rows[h] = "live" /\ rows'[h] = "live")
<1>0. StoreStep(t) /\ Same(t)
  BY ServeShape DEF Serve
<1>1. CASE u # t
  BY <1>0, <1>1 DEF Same, Copying, At
<1>2. CASE u = t
  <2>1. /\ call[t].h = h /\ call'[t].todo # <<>>
        /\ Head(call'[t].todo) \in {"optimize", "find_copy", "store_copy"}
        /\ call'[t].op = call[t].op /\ call'[t].todo \in Ways(call[t].op)
    BY <1>0, <1>2 DEF Copying, At, Same
  <2>2. Shape' /\ OnWay'
    BY ServeShape
  <2>3. call[t].op = "get"
    <3>1. HeadOf(call[t].op, call'[t].todo)
      BY <2>1, CallTyped, Heads
    <3>2. QED  BY <2>1, <3>1 DEF HeadOf, CopySteps
  <2>4. call[t].todo # <<>> /\ HeadOf("get", call[t].todo) /\ AnyHeadOf("get", call[t].todo)
        /\ call[t].todo \in Ways("get")
    BY <1>0, <2>3, Next1, StepCases, CallTyped
  <2>5. Head(call[t].todo) \in ReadSteps \cup CopySteps
    BY <2>4 DEF HeadOf
  <2>6. call'[t].todo = Tail(call[t].todo)
    <3>1. ~ \E r \in {"ok", "missing", "error"} : Return(t, r)
      BY <2>1, ReturnKeeps
    <3>2. ~SumRows(t) /\ ~Undoes(t)
      BY <2>3, <2>4, <2>5, SumStep, About DEF Undoes, At, ReadSteps, CopySteps
    <3>3. Advance(t) \/ FindRow(t) \/ FindCopy(t)
      BY <1>0, <3>1, <3>2, StepCases
    <3>4. QED  BY <2>4, <3>3, AdvanceKeeps, FoundStep
  <2>7. call[t].todo \in Reads \/ call[t].todo \in Gets
    BY <2>4 DEF Ways
  <2>8. call[t].todo \notin Reads
    BY <2>1, <2>4, <2>6, WayReads
  <2>9. Head(call[t].todo) \in {"get_origin", "optimize", "find_copy", "store_copy"}
    <3>1. Head(call[t].todo) \in CopySteps
      BY <2>4, <2>7, <2>8, WayReads
    <3>2. Head(call[t].todo) = "get_copy" => Head(Tail(call[t].todo)) = "get_origin"
      BY <2>4, <2>7, <2>8, WayReads, Ends
    <3>3. Head(call[t].todo) # "get_copy"
      BY <2>1, <2>6, <3>2
    <3>4. QED  BY <3>1, <3>3 DEF CopySteps
  <2>10. CASE Head(call[t].todo) \in {"optimize", "find_copy", "store_copy"}
    BY <1>2, <2>1, <2>4, <2>10 DEF Copying, At
  <2>11. CASE Head(call[t].todo) = "get_origin"
    <3>1. GetOrigin(t)
      BY <1>0, <2>4, <2>11, UncopySteps DEF At
    <3>2. rows' = rows /\ (rows[h] = "live" \/ Return(t, "missing"))
      BY <2>1, <3>1 DEF GetOrigin
    <3>3. ~Return(t, "missing")
      BY <2>1, ReturnKeeps
    <3>4. QED  BY <1>2, <3>2, <3>3
  <2>12. QED  BY <2>9, <2>10, <2>11
<1>3. QED  BY <1>1, <1>2

\* An origin that goes leaves a request that takes the copies away.
LEMMA GoneUncopies ==
  ASSUME Shape, OnWay, deploy.kind = "auto", NEW t \in Tasks, Serve(t), NEW h \in Hashes,
         rows[h] = "live", rows'[h] # "live"
  PROVE  Uncopies(t, h)'
<1>0. StoreStep(t) /\ Same(t) /\ call[t].todo # <<>>
  BY ServeShape, StepCases DEF Serve
<1>1. AutoHeadOf(call[t].todo)
  BY <1>0, Next1
<1>2. CASE DeleteRow(t) /\ h = call[t].h
  <2>1. call[t].todo = <<"delete", "unlock", "delete_copies">>
    BY <1>1, <1>2 DEF DeleteRow, AutoHeadOf, At
  <2>2. Len(call[t].todo) > 1
    BY <2>1
  <2>3. Advance(t)
    BY <1>2, <2>2 DEF DeleteRow
  <2>4. call'[t].todo = <<"unlock", "delete_copies">>
    BY <1>0, <2>1, <2>3, AdvanceKeeps, Ends
  <2>5. QED  BY <1>0, <1>2, <2>4 DEF Uncopies, Same
<1>3. CASE DropRows(t)
  <2>1. call[t].todo = <<"drop", "unlock", "drop_copies">>
    BY <1>1, <1>3 DEF DropRows, AutoHeadOf, At
  <2>2. Len(call[t].todo) > 1
    BY <2>1
  <2>3. Advance(t)
    BY <1>3, <2>2 DEF DropRows
  <2>4. call'[t].todo = <<"unlock", "drop_copies">>
    BY <1>0, <2>1, <2>3, AdvanceKeeps, Ends
  <2>5. QED  BY <2>4 DEF Uncopies
<1>4. QED  BY <1>0, <1>2, <1>3, RowsStep

\* It takes them away, or those in the making were crossed.
LEMMA UncopiesOr ==
  ASSUME Shape, OnWay, deploy.kind = "auto", NEW t \in Tasks, Serve(t),
         NEW h \in Hashes \ crossed', NEW u \in Tasks, Uncopies(u, h),
         copies'[h] = "live" \/ \E v \in Tasks : Copying(v, h)'
  PROVE  Uncopies(u, h)'
<1>0. StoreStep(t) /\ Same(t) /\ crossed' = crossed \cup Crossing(t)
  BY ServeShape DEF Serve
<1>1. CASE u # t
  BY <1>0, <1>1 DEF Same, Uncopies
<1>2. CASE u = t
  <2>1. call[t].todo # <<>> /\ AnyHeadOf(call[t].op, call[t].todo)
    BY <1>0, StepCases, Next1
  <2>2. CASE At(t, "unlock")
    <3>1. call'[t].todo = Tail(call[t].todo)
      BY <1>0, <2>1, <2>2, UncopySteps, AdvanceKeeps DEF Unlock
    <3>2. \/ call[t].todo = <<"unlock", "delete_copies">> /\ call[t].h = h
          \/ call[t].todo = <<"unlock", "drop_copies">>
      BY <1>2, <2>2, Ends DEF Uncopies, At
    <3>3. \/ call'[t].todo = <<"delete_copies">> /\ call[t].h = h
          \/ call'[t].todo = <<"drop_copies">>
      BY <3>1, <3>2, Ends
    <3>4. QED  BY <1>0, <1>2, <3>3 DEF Uncopies, Same
  <2>3. CASE At(t, "delete_copies") \/ At(t, "drop_copies")
    <3>1. (At(t, "delete_copies") /\ call[t].h = h) \/ At(t, "drop_copies")
      BY <1>2, <2>3, Ends DEF Uncopies, At
    <3>2. copies'[h] # "live"
      <4>1. CASE At(t, "delete_copies") /\ call[t].h = h
        BY <1>0, <4>1, UncopySteps, CopiesStep
      <4>2. CASE At(t, "drop_copies")
        BY <1>0, <4>2, UncopySteps DEF DropCopies
      <4>3. QED  BY <3>1, <4>1, <4>2
    <3>3. PICK v \in Tasks : Copying(v, h)'
      BY <3>2
    <3>4. v # t
      <4>1. HeadOf(call'[t].op, call'[t].todo) \/ call'[t].todo = <<>>
        <5>1. Shape' /\ OnWay'
          BY ServeShape
        <5>2. call'[t].todo \in Ways(call[t].op) /\ call'[t].op = call[t].op
              /\ call[t].op \in Ops \cup {"none"} /\ deploy.kind \in Kinds
          BY <1>0, CallTyped DEF Same
        <5>3. QED  BY <5>2, Heads
      <4>2. call[t].op # "get"
        BY <2>1, <2>3, Next1 DEF HeadOf, At, ReadSteps, CopySteps
      <4>3. call'[t].op = call[t].op
        BY <1>0 DEF Same
      <4>4. ASSUME v = t  PROVE FALSE
        <5>1. call'[t].todo # <<>> /\ Head(call'[t].todo) \in CopySteps
          BY <3>3, <4>4 DEF Copying, At, CopySteps
        <5>2. QED  BY <4>1, <4>2, <4>3, <5>1 DEF HeadOf
      <4>5. QED  BY <4>4
    <3>5. Copying(v, h)
      BY <1>0, <3>3, <3>4 DEF Same, Copying, At
    <3>6. h \in Crossing(t)
      BY <2>3, <3>1, <3>5 DEF Crossing, Copying
    <3>7. QED  BY <1>0, <3>6
  <2>4. At(t, "unlock") \/ At(t, "delete_copies") \/ At(t, "drop_copies")
    BY <1>2, <2>1, Ends DEF Uncopies, At
  <2>5. QED  BY <2>2, <2>3, <2>4
<1>3. QED  BY <1>1, <1>2

LEMMA ServeCopied ==
  ASSUME Shape, OnWay, Copied, NEW t \in Tasks, Serve(t)
  PROVE  Copied'
<1>0. /\ StoreStep(t) /\ deploy' = deploy /\ crossed' = crossed \cup Crossing(t)
  BY DEF Serve
<1>1. CASE deploy.kind # "auto"
  <2>1. ASSUME NEW h \in Hashes  PROVE copies'[h] # "live"
    <3>1. copies[h] # "live"
      BY <1>1 DEF Copied
    <3>2. ~At(t, "store_copy")
      BY <1>1, Next1 DEF At, HeadOf, CopySteps
    <3>3. QED  BY <1>0, <3>1, <3>2, CopiesStep
  <2>2. ASSUME NEW u \in Tasks, NEW h \in Hashes  PROVE ~Copying(u, h)'
    <3>1. Shape' /\ OnWay'
      BY ServeShape
    <3>2. call'[u].todo # <<>> => HeadOf(call'[u].op, call'[u].todo)
      <4>1. call'[u].todo \in Ways(call'[u].op) /\ call'[u].op \in Ops \cup {"none"}
            /\ deploy.kind \in Kinds
        <5>1. Same(t)
          BY ServeShape
        <5>2. call[u].todo \in Ways(call[u].op) /\ call[u].op \in Ops \cup {"none"}
              /\ deploy.kind \in Kinds
          BY CallTyped
        <5>3. QED  BY <5>1, <5>2 DEF Same
      <4>2. QED  BY <4>1, Heads
    <3>3. QED  BY <1>1, <3>2 DEF Copying, At, HeadOf, CopySteps
  <2>3. QED  BY <1>0, <1>1, <2>1, <2>2 DEF Copied
<1>2. CASE deploy.kind = "auto"
  <2>1. ASSUME NEW h \in Hashes \ crossed',
               copies'[h] = "live" \/ \E u \in Tasks : Copying(u, h)'
        PROVE  rows'[h] = "live" \/ \E u \in Tasks : Uncopies(u, h)'
    <3>1. h \in Hashes \ crossed
      BY <1>0
    <3>2. CASE copies[h] = "live" \/ \E u \in Tasks : Copying(u, h)
      <4>1. CASE rows[h] = "live"
        BY <1>2, <3>1, <4>1, GoneUncopies
      <4>2. CASE \E u \in Tasks : Uncopies(u, h)
        <5>1. PICK u \in Tasks : Uncopies(u, h)
          BY <4>2
        <5>2. Uncopies(u, h)'
          BY <1>2, <2>1, <5>1, UncopiesOr
        <5>3. QED  BY <5>2
      <4>3. QED  BY <3>1, <3>2, <4>1, <4>2 DEF Copied
    <3>3. CASE copies[h] # "live" /\ ~ \E u \in Tasks : Copying(u, h)
      <4>1. copies'[h] # "live"
        <5>1. ~(At(t, "store_copy") /\ h = call[t].h)
          BY <3>3 DEF Copying
        <5>2. QED  BY <1>0, <3>1, <3>3, <5>1, CopiesStep
      <4>2. PICK u \in Tasks : Copying(u, h)'
        BY <2>1, <4>1
      <4>3. rows'[h] = "live"
        BY <3>1, <3>3, <4>2, CopyFrom
      <4>4. QED  BY <4>3
    <3>4. QED  BY <3>2, <3>3
  <2>2. QED  BY <1>0, <1>2, <2>1 DEF Copied
<1>3. QED  BY <1>1, <1>2

-----------------------------------------------------------------------------
(* The quota: who stores has measured room before. *)

\* Both sets of Room are finite.
LEMMA Finite ==
  ASSUME Shape, IsFiniteSet(Tasks)
  PROVE  /\ IsFiniteSet(Owned) /\ Cardinality(Owned) \in Nat
         /\ IsFiniteSet(Live) /\ Cardinality(Live) \in Nat
         /\ Cardinality(Owned) <= Cardinality(Live)
         /\ IsFiniteSet({u \in Tasks : Measured(u)})
         /\ Cardinality({u \in Tasks : Measured(u)}) \in Nat
         /\ Cardinality({u \in Tasks : Measured(u)}) <= Cardinality(Tasks)
         /\ Cardinality(Tasks) \in Nat
<1>1. IsFiniteSet(Live)
  BY DEF Shape, Live
<1>2. Owned \subseteq Live /\ {u \in Tasks : Measured(u)} \subseteq Tasks
  BY DEF Owned, Live
<1>3. QED  BY <1>1, <1>2, FS_Subset, FS_CardinalityType

LEMMA ServeRoom ==
  ASSUME Shape, OnWay, Room, IsFiniteSet(Tasks), NEW t \in Tasks, Serve(t)
  PROVE  Room'
<1> DEFINE M == {u \in Tasks : Measured(u)}
           N == {u \in Tasks : Measured(u)'}
<1>0. StoreStep(t) /\ Same(t) /\ req' = req /\ Shape' /\ call[t].todo # <<>>
  BY ServeShape, StepCases DEF Serve
<1>1. \A u \in Tasks \ {t} : Measured(u)' <=> Measured(u)
  BY <1>0 DEF Same, Measured, Done
<1>2. /\ IsFiniteSet(Owned) /\ Cardinality(Owned) \in Nat /\ IsFiniteSet(M)
      /\ Cardinality(M) \in Nat /\ Cardinality(Tasks) \in Nat /\ MaxUsage \in Nat
      /\ Cardinality(Owned) <= Cardinality(Live) /\ Cardinality(Live) \in Nat
      /\ Cardinality(Owned) + Cardinality(M) <= MaxUsage + Cardinality(Tasks) - 1
  BY Finite, QuotaAssumption DEF Room
<1>3. /\ IsFiniteSet(Owned') /\ Cardinality(Owned') \in Nat /\ IsFiniteSet(N)
      /\ Cardinality(N) \in Nat /\ Cardinality(N) <= Cardinality(Tasks)
  <2>1. Owned' \subseteq {h \in Hashes : rows'[h] = "live"}
    BY DEF Owned
  <2>2. IsFiniteSet({h \in Hashes : rows'[h] = "live"})
    BY <1>0 DEF Shape
  <2>3. N \subseteq Tasks
    OBVIOUS
  <2>4. QED  BY <2>1, <2>2, <2>3, FS_Subset, FS_CardinalityType
<1>4. by' = [h \in Hashes |-> IF rows'[h] = "live" /\ rows[h] # "live" THEN req[t].user ELSE by[h]]
  BY DEF Serve
<1>5. CASE SumRows(t) /\ Measured(t)'
  <2>1. call'[t].todo = <<>> /\ call'[t].size = Cardinality(Live) /\ rows' = rows
    BY <1>5, SumStep DEF SumRows
  <2>2. Cardinality(Live) + 1 <= MaxUsage
    BY <1>5, <2>1 DEF Measured
  <2>3. Owned' = Owned
    BY <1>4, <2>1 DEF Owned
  <2>4. Cardinality(Owned') + Cardinality(N) <= MaxUsage + Cardinality(Tasks) - 1
    BY <1>2, <1>3, <2>2, <2>3
  <2>5. QED  BY <2>4 DEF Room
<1>6. CASE ~(SumRows(t) /\ Measured(t)')
  <2>1. Measured(t)' => Measured(t)
    <3>1. ASSUME Measured(t)', ~Measured(t)  PROVE FALSE
      <4>1. req[t].stage = "usage" /\ call'[t].todo = <<>>
        BY <1>0, <3>1 DEF Measured, Done
      <4>2. call[t].op = "size"
        BY <4>1 DEF OnWay, OpOf
      <4>3. Head(call[t].todo) \in {"read", "locked_read"}
        BY <1>0, <4>2, Next1 DEF HeadOf
      <4>4. SumRows(t)
        BY <1>0, <4>2, <4>3 DEF StoreStep, Lock, ReadStream, Unlock, ReadRows, FindRow, StoreRow,
           DeleteRow, DropRows, PutObject, GetObject, DeleteObject, RemoveAll, MetaCopy, GetCopy,
           GetOrigin, OptimizeImage, FindCopy, StoreCopy, DeleteCopies, DropCopies, At
      <4>5. QED  BY <1>6, <3>1, <4>4
    <3>2. QED  BY <3>1
  <2>2. N \subseteq M
    BY <1>1, <2>1
  <2>3. Cardinality(N) <= Cardinality(M)
    BY <1>2, <2>2, FS_Subset
  <2>4. CASE Owned' \subseteq Owned
    <3>1. Cardinality(Owned') <= Cardinality(Owned)
      BY <1>2, <2>4, FS_Subset
    <3>2. Cardinality(Owned') + Cardinality(N) <= MaxUsage + Cardinality(Tasks) - 1
      BY <1>2, <1>3, <2>3, <3>1
    <3>3. QED  BY <3>2 DEF Room
  <2>5. CASE ~(Owned' \subseteq Owned)
    <3>1. PICK h \in Owned' : h \notin Owned
      BY <2>5
    <3>2. h \in Hashes /\ rows'[h] = "live" /\ by'[h] = "owner" /\ ~(rows[h] = "live" /\ by[h] = "owner")
      BY <3>1 DEF Owned
    <3>3. rows[h] # "live" /\ req[t].user = "owner"
      BY <1>4, <3>2
    <3>4. At(t, "store") /\ call[t].op = "put" /\ h = call[t].h /\ call'[t].todo = <<>>
      BY <1>0, <3>2, <3>3, RowsStep
    <3>5. req[t].stage = "put"
      BY <3>4, Names
    <3>6. t \in M /\ t \notin N
      BY <1>0, <3>3, <3>4, <3>5 DEF Measured, Same
    <3>7. N \subseteq M \ {t} /\ Owned' \subseteq Owned \cup {h}
      <4>1. N \subseteq M \ {t}
        BY <2>2, <3>6
      <4>2. ASSUME NEW g \in Owned'  PROVE g \in Owned \cup {h}
        <5>1. g \in Hashes /\ rows'[g] = "live" /\ by'[g] = "owner"
          BY DEF Owned
        <5>2. CASE rows[g] = "live"
          BY <1>4, <5>1, <5>2 DEF Owned
        <5>3. CASE rows[g] # "live"
          BY <1>0, <3>4, <5>1, <5>3, RowsStep
        <5>4. QED  BY <5>2, <5>3
      <4>3. QED  BY <4>1, <4>2
    <3>8. Cardinality(N) <= Cardinality(M) - 1
      <4>1. Cardinality(M \ {t}) = Cardinality(M) - 1 /\ IsFiniteSet(M \ {t})
        BY <1>2, <3>6, FS_RemoveElement
      <4>2. QED  BY <3>7, <4>1, FS_Subset
    <3>9. Cardinality(Owned') <= Cardinality(Owned) + 1
      <4>1. Cardinality(Owned \cup {h}) = Cardinality(Owned) + 1 /\ IsFiniteSet(Owned \cup {h})
        BY <1>2, <3>1, FS_AddElement
      <4>2. QED  BY <3>7, <4>1, FS_Subset
    <3>10. Cardinality(Owned') + Cardinality(N) <= MaxUsage + Cardinality(Tasks) - 1
      BY <1>2, <1>3, <3>8, <3>9
    <3>11. QED  BY <3>10 DEF Room
  <2>6. QED  BY <2>4, <2>5
<1>7. QED  BY <1>5, <1>6

-----------------------------------------------------------------------------
(* Handlers: a task's call is replaced by a new one, or by none. *)

FirstSteps == {"lock", "stream", "delete_object", "remove_all", "read", "locked_read",
               "get_object", "meta_copy", "get_copy"}

LEMMA PathOnWay ==
  ASSUME NEW op \in Ops, NEW conv \in BOOLEAN, deploy.kind \in Kinds
  PROVE  /\ Path(op, conv) \in Ways(op) /\ Path(op, conv) # <<>>
         /\ Head(Path(op, conv)) \in FirstSteps
         /\ op = "put" /\ deploy.kind = "bucket" => Head(Path(op, conv)) = "stream"
<1>1. /\ <<"lock", "stream", "find", "store">> # <<>> /\ <<"lock", "delete">> # <<>>
      /\ <<"lock", "drop">> # <<>> /\ <<"read">> # <<>> /\ <<"locked_read">> # <<>>
      /\ <<"lock", "delete", "unlock", "delete_copies">> # <<>>
      /\ <<"lock", "drop", "unlock", "drop_copies">> # <<>>
      /\ <<"get_copy", "get_origin", "optimize", "find_copy", "store_copy">> # <<>>
      /\ <<"meta_copy">> # <<>> /\ <<"get_object">> # <<>>
      /\ <<"stream", "put_object", "lock", "find", "store">> # <<>>
      /\ <<"delete_object", "lock", "delete">> # <<>> /\ <<"remove_all", "lock", "drop">> # <<>>
  OBVIOUS
<1>2. CASE op = "put"
  <2>1. Path(op, conv) = IF deploy.kind = "bucket"
                         THEN <<"stream", "put_object", "lock", "find", "store">>
                         ELSE <<"lock", "stream", "find", "store">>
    BY <1>2 DEF Path, RawPath, AutoPath, BucketPath, Kinds
  <2>2. QED  BY <1>1, <1>2, <2>1, Ends DEF Ways, Puts, BucketPuts, FirstSteps
<1>3. CASE op = "delete"
  <2>1. Path(op, conv) = CASE deploy.kind = "raw" -> <<"lock", "delete">>
                           [] deploy.kind = "auto" -> <<"lock", "delete", "unlock", "delete_copies">>
                           [] OTHER -> <<"delete_object", "lock", "delete">>
    BY <1>3 DEF Path, RawPath, AutoPath, BucketPath, Kinds
  <2>2. Path(op, conv) \in Ways(op)
    BY <1>3, <2>1 DEF Ways, RawDeletes, AutoDeletes, BucketDeletes
  <2>3. QED  BY <1>1, <1>3, <2>1, <2>2, Ends DEF FirstSteps
<1>4. CASE op = "drop"
  <2>1. Path(op, conv) = CASE deploy.kind = "raw" -> <<"lock", "drop">>
                           [] deploy.kind = "auto" -> <<"lock", "drop", "unlock", "drop_copies">>
                           [] OTHER -> <<"remove_all", "lock", "drop">>
    BY <1>4 DEF Path, RawPath, AutoPath, BucketPath, Kinds
  <2>2. Path(op, conv) \in Ways(op)
    BY <1>4, <2>1 DEF Ways, RawDrops, AutoDrops, BucketDrops
  <2>3. QED  BY <1>1, <1>4, <2>1, <2>2, Ends DEF FirstSteps
<1>5. CASE op = "get"
  <2>1. Path(op, conv) \in {<<"locked_read">>, <<"get_object">>, <<"read">>}
        \/ (deploy.kind = "auto" /\ Path(op, conv)
              = <<"get_copy", "get_origin", "optimize", "find_copy", "store_copy">>)
    BY <1>5 DEF Path, RawPath, AutoPath, BucketPath, Kinds
  <2>2. Path(op, conv) \in Ways(op)
    BY <1>5, <2>1 DEF Ways, Reads, Gets
  <2>3. QED  BY <1>1, <1>5, <2>1, <2>2, Ends DEF FirstSteps
<1>6. CASE op = "size"
  <2>1. Path(op, conv) \in {<<"locked_read">>, <<"read">>}
    BY <1>6 DEF Path, RawPath, AutoPath, BucketPath, Kinds
  <2>2. QED  BY <1>1, <1>6, <2>1, Ends DEF Ways, FirstSteps
<1>7. CASE op \in {"meta", "check"}
  <2>1. Path(op, conv) \in {<<"locked_read">>, <<"read">>, <<"meta_copy">>}
    BY <1>7 DEF Path, RawPath, AutoPath, BucketPath, Kinds
  <2>2. Path(op, conv) \in Ways(op)
    BY <1>7, <2>1 DEF Ways, Reads
  <2>3. QED  BY <1>1, <1>7, <2>1, <2>2, Ends DEF FirstSteps
<1>8. QED  BY <1>2, <1>3, <1>4, <1>5, <1>6, <1>7 DEF Ops

LEMMA NoCallTyped == NoCall \in Calls /\ NoCall.todo = <<>> /\ NoCall.op = "none"
<1>1. <<>> \in UNION {Ways(o) : o \in Ops \cup {"none"}}
  BY WayEnds
<1>2. QED  BY <1>1 DEF NoCall, Calls, RowStates

LEMMA BeginCall ==
  ASSUME NEW op \in Ops, NEW h \in Hashes \cup {NoHash}, NEW conv \in BOOLEAN,
         deploy.kind \in Kinds
  PROVE  /\ Begin(op, h, conv) \in Calls
         /\ Begin(op, h, conv).op = op /\ Begin(op, h, conv).h = h
         /\ Begin(op, h, conv).todo = Path(op, conv)
<1>1. PICK p : p = Path(op, conv)
  OBVIOUS
<1>2. p \in UNION {Ways(o) : o \in Ops \cup {"none"}}
  BY <1>1, PathOnWay
<1>3. Begin(op, h, conv) = [NoCall EXCEPT !.op = op, !.h = h, !.conv = conv, !.todo = p]
  BY <1>1 DEF Begin
<1>4. PICK c : c = [NoCall EXCEPT !.op = op, !.h = h, !.conv = conv, !.todo = p]
  OBVIOUS
<1>5. NoCall \in Calls
  BY NoCallTyped
<1>6. c \in Calls
  BY <1>2, <1>4, <1>5 DEF Calls
<1>7. c.op = op /\ c.h = h /\ c.todo = p
  BY <1>4, <1>5 DEF Calls
<1>8. QED  BY <1>1, <1>3, <1>4, <1>6, <1>7

\* A task between two calls takes a new one, or none.
Renewed(t) ==
  /\ call[t].todo = <<>>
  /\ call' \in [Tasks -> Calls] /\ \A u \in Tasks \ {t} : call'[u] = call[u]
  /\ call'[t].todo \in Ways(call'[t].op)
  /\ call'[t].todo # <<>> => Head(call'[t].todo) \in FirstSteps
  /\ call'[t].op = "put" /\ deploy.kind = "bucket" => Head(call'[t].todo) = "stream"
  /\ UNCHANGED <<deploy, rows, copies, objects, holders, by, crossed>>

LEMMA BeginRenews ==
  ASSUME Shape, NEW t \in Tasks, call[t].todo = <<>>,
         UNCHANGED <<deploy, rows, copies, objects, holders, by, crossed>>,
         NEW op \in Ops, NEW h \in Hashes \cup {NoHash}, NEW conv \in BOOLEAN,
         call' = [call EXCEPT ![t] = Begin(op, h, conv)]
  PROVE  /\ Renewed(t) /\ call'[t].op = op /\ call'[t].h = h /\ call'[t].todo # <<>>
<1>1. deploy.kind \in Kinds /\ call \in [Tasks -> Calls]
  BY DEF Shape
<1>2. PICK c \in Calls : c = Begin(op, h, conv) /\ c.op = op /\ c.h = h /\ c.todo = Path(op, conv)
  <2>1. /\ Begin(op, h, conv) \in Calls
        /\ Begin(op, h, conv).op = op /\ Begin(op, h, conv).h = h
        /\ Begin(op, h, conv).todo = Path(op, conv)
    BY <1>1, BeginCall
  <2>2. QED  BY <2>1
<1>3. /\ c.todo \in Ways(c.op) /\ c.todo # <<>> /\ Head(c.todo) \in FirstSteps
      /\ op = "put" /\ deploy.kind = "bucket" => Head(c.todo) = "stream"
  BY <1>1, <1>2, PathOnWay
<1>4. call' \in [Tasks -> Calls] /\ call'[t] = c /\ \A u \in Tasks \ {t} : call'[u] = call[u]
  BY <1>1, <1>2
<1>5. QED  BY <1>2, <1>3, <1>4 DEF Renewed

LEMMA AnswerRenews ==
  ASSUME Shape, NEW t \in Tasks, call[t].todo = <<>>,
         UNCHANGED <<deploy, rows, copies, objects, holders, by, crossed>>,
         call' = [call EXCEPT ![t] = NoCall]
  PROVE  Renewed(t) /\ call'[t].op = "none" /\ call'[t].todo = <<>>
<1>1. PICK c \in Calls : c = NoCall /\ c.todo = <<>> /\ c.op = "none"
  BY NoCallTyped
<1>2. call' \in [Tasks -> Calls] /\ call'[t] = c /\ \A u \in Tasks \ {t} : call'[u] = call[u]
  BY <1>1 DEF Shape
<1>3. <<>> \in Ways("none")
  BY WayEnds
<1>4. QED  BY <1>1, <1>2, <1>3 DEF Renewed

LEMMA RenewedHolder ==
  ASSUME OneHolder, NEW t \in Tasks, Renewed(t)
  PROVE  OneHolder'
<1>1. ASSUME NEW u \in Tasks
      PROVE  /\ Holding(u)' => Holding(u)
             /\ At(u, "store")' => At(u, "store") /\ call'[u] = call[u]
             /\ At(u, "undo_object")' => At(u, "undo_object")
  BY DEF Renewed, Holding, At, FirstSteps
<1>2. QED  BY <1>1 DEF OneHolder, Renewed, Holding

LEMMA RenewedCopied ==
  ASSUME Copied, NEW t \in Tasks, Renewed(t)
  PROVE  Copied'
<1>1. ASSUME NEW u \in Tasks, NEW h
      PROVE  Copying(u, h)' => Copying(u, h)
  BY DEF Renewed, Copying, At, FirstSteps
<1>2. ASSUME NEW u \in Tasks, NEW h, Uncopies(u, h)
      PROVE  Uncopies(u, h)'
  <2>1. u # t
    BY <1>2, NonEmpty DEF Renewed, Uncopies
  <2>2. QED  BY <1>2, <2>1 DEF Renewed, Uncopies
<1>3. QED  BY <1>1, <1>2 DEF Copied, Renewed

LEMMA RenewedShape ==
  ASSUME Shape, NEW t \in Tasks, Renewed(t), req' \in [Tasks -> Reqs], kept' \subseteq Hashes
  PROVE  Shape'
<1>1. \A op : Ways(op)' = Ways(op)
  BY DEF Ways, Renewed
<1>2. Calls' = Calls /\ Reqs' = Reqs
  BY <1>1 DEF Calls, Reqs
<1>3. QED  BY <1>2 DEF Shape, Renewed

\* Readable contents stay so, and what a task has stored does, when a call is renewed.
LEMMA RenewedKept ==
  ASSUME Kept, OnWay, NEW t \in Tasks, Renewed(t),
         \A h \in kept' : h \in kept \/ (req[t].clean /\ Stored(t) /\ h = call[t].h),
         \A u \in Tasks \ {t} : req'[u].clean => req[u].clean,
         call'[t].op = "none" \/ call'[t].todo # <<>>
  PROVE  Kept'
<1>1. Locking' <=> Locking
  BY DEF Locking, Renewed
<1> SUFFICES ASSUME Locking  PROVE Kept'
  BY <1>1 DEF Kept
<1>2. \A h : Readable(h)' <=> Readable(h)
  BY DEF Readable, Renewed
<1>3. \A h \in kept' : Readable(h)'
  BY <1>2 DEF Kept
<1>4. ASSUME NEW u \in Tasks, req'[u].clean, Stored(u)'  PROVE Readable(call[u].h)'
  <2>1. CASE u # t
    <3>1. call'[u] = call[u] /\ deploy' = deploy
      BY <2>1 DEF Renewed
    <3>2. Stored(u)
      BY <1>4, <3>1 DEF Stored, Done, At
    <3>3. Readable(call[u].h)
      BY <1>4, <2>1, <3>2 DEF Kept
    <3>4. QED  BY <3>1, <3>3 DEF Readable, Renewed
  <2>2. CASE u = t
    <3>1. call'[t].op = "put" /\ call'[t].todo # <<>> /\ Head(call'[t].todo) \in FirstSteps
      BY <1>4, <2>2 DEF Stored, Renewed
    <3>2. deploy.kind = "bucket"
          /\ call'[t].todo \in {<<"lock", "find", "store">>, <<"find", "store">>, <<"store">>}
      BY <1>4, <2>2, <3>1 DEF Stored, Done, At, Renewed, FirstSteps
    <3>3. Head(call'[t].todo) \in {"lock", "find", "store"}
      BY <3>2, Ends
    <3>4. QED  BY <3>1, <3>2, <3>3 DEF Renewed
  <2>3. QED  BY <2>1, <2>2
<1>5. QED  BY <1>3, <1>4 DEF Kept

\* Nobody measures by asking, and nothing is owned by it.
LEMMA RenewedRoom ==
  ASSUME Shape, Room, IsFiniteSet(Tasks), NEW t \in Tasks, Renewed(t),
         \A u \in Tasks \ {t} : /\ req'[u].user = req[u].user
                                /\ req'[u].stage = req[u].stage,
         Measured(t)' => Measured(t)
  PROVE  Room'
<1> DEFINE M == {u \in Tasks : Measured(u)}
           N == {u \in Tasks : Measured(u)'}
<1>1. \A u \in Tasks \ {t} : Measured(u)' => Measured(u)
  BY DEF Measured, Done, Renewed
<1>2. N \subseteq M
  BY <1>1
<1>3. /\ IsFiniteSet(M) /\ Cardinality(M) \in Nat /\ Cardinality(Owned) \in Nat
      /\ Cardinality(Tasks) \in Nat /\ MaxUsage \in Nat
  BY Finite, QuotaAssumption
<1>4. Cardinality(N) <= Cardinality(M) /\ Cardinality(N) \in Nat
  BY <1>2, <1>3, FS_Subset, FS_CardinalityType
<1>5. Owned' = Owned
  BY DEF Owned, Renewed
<1>6. Cardinality(Owned') + Cardinality(N) <= MaxUsage + Cardinality(Tasks) - 1
  BY <1>3, <1>4, <1>5 DEF Room
<1>7. QED  BY <1>6 DEF Room

BlobInv == Shape /\ OnWay /\ Undeleted /\ OneHolder /\ Kept /\ Copied /\ Room

\* A request as one of the handlers makes it, with its first call.
Opening(r, h) ==
  /\ r \in Reqs /\ h \in Hashes \cup {NoHash}
  /\ r.stage \notin {"idle", "cleanup"}
  /\ r.stage \notin {"ask", "drop"} => h \in Hashes
  /\ r.stage = "put" => r.user # "owner"
  /\ r.stage = "drop" => ~r.broken

LEMMA RequestTyped ==
  ASSUME NEW stage \in Stages
  PROVE  /\ Request(stage) \in Reqs /\ Request(stage).stage = stage
         /\ Request(stage).user = "guest" /\ ~Request(stage).broken
<1>1. PICK r : r = [Idle EXCEPT !.stage = stage]
  OBVIOUS
<1>2. Idle \in Reqs /\ Idle.user = "guest" /\ ~Idle.broken
  BY DEF Idle, Reqs, Stages, Users
<1>3. r \in Reqs /\ r.stage = stage /\ r.user = "guest" /\ ~r.broken
  BY <1>1, <1>2 DEF Reqs
<1>4. QED  BY <1>1, <1>3 DEF Request

LEMMA HeadTyped ==
  ASSUME NEW stage \in Stages, NEW b \in BOOLEAN, NEW r, r = [Request(stage) EXCEPT !.head = b]
  PROVE  r \in Reqs /\ r.stage = stage
  BY RequestTyped DEF Reqs

LEMMA UploadTyped ==
  ASSUME NEW stage \in Stages, NEW user \in Users, NEW b \in BOOLEAN, NEW fail \in Nat
  PROVE  /\ Upload(stage, user, b, fail) \in Reqs
         /\ Upload(stage, user, b, fail).stage = stage
         /\ Upload(stage, user, b, fail).user = user
<1>1. PICK r : r = [Request(stage) EXCEPT !.user = user, !.broken = b, !.fail = fail]
  OBVIOUS
<1>2. Request(stage) \in Reqs /\ Request(stage).stage = stage
  BY RequestTyped
<1>3. r \in Reqs
  BY <1>1, <1>2 DEF Reqs
<1>4. r.stage = stage /\ r.user = user
  BY <1>1, <1>2 DEF Reqs
<1>5. QED  BY <1>1, <1>3, <1>4 DEF Upload

LEMMA ArriveCases ==
  ASSUME NEW t \in Tasks, Arrive(t)
  PROVE  \/ \E code : Refuse(t, code)
         \/ \E r, h : \E conv \in BOOLEAN :
              Opening(r, h) /\ Start(t, r, Begin(OpOf[r.stage], h, conv))
<1> DEFINE Goal == \/ \E code : Refuse(t, code)
                   \/ \E r, h : \E conv \in BOOLEAN :
                        Opening(r, h) /\ Start(t, r, Begin(OpOf[r.stage], h, conv))
<1>2. /\ OpOf["check"] = "check" /\ OpOf["get"] = "get" /\ OpOf["put"] = "put"
      /\ OpOf["delete"] = "delete" /\ OpOf["meta"] = "meta" /\ OpOf["usage"] = "size"
      /\ OpOf["ask"] = "size" /\ OpOf["drop"] = "drop"
  BY DEF OpOf
<1>3. ASSUME NEW h \in Hashes, check_blob(t, h) \/ get_blob(t, h) \/ delete_blob(t, h)
      PROVE  Goal
  <2>1. PICK stage \in {"check", "get", "delete"} :
          Start(t, Request(stage), Begin(OpOf[stage], h, FALSE))
    BY <1>2, <1>3 DEF check_blob, get_blob, delete_blob
  <2>2. Request(stage) \in Reqs /\ Request(stage).stage = stage /\ ~Request(stage).broken
    BY RequestTyped DEF Stages
  <2>3. Opening(Request(stage), h)
    BY <2>2 DEF Opening
  <2>4. QED  BY <2>1, <2>2, <2>3
<1>4. ASSUME NEW h \in Hashes, NEW b \in BOOLEAN, set_blob(t, h, b) \/ sync_upload_blob(t, h, b)
      PROVE  Goal
  <2>1. (\E code : Refuse(t, code)) \/ \E fail \in Nat :
          Start(t, Upload("put", "guest", b, fail), Begin(OpOf["put"], h, FALSE))
    <3>1. CASE set_blob(t, h, b)
      <4>0. PICK f \in Nat : f = 404
        OBVIOUS
      <4>1. Start(t, Upload("put", "guest", b, f), Begin("put", h, FALSE))
        BY <3>1, <4>0 DEF set_blob
      <4>2. QED  BY <1>2, <4>1
    <3>2. CASE sync_upload_blob(t, h, b)
      <4>0. PICK f \in Nat : f = 500
        OBVIOUS
      <4>1. \/ \E code : Refuse(t, code)
            \/ Start(t, Upload("put", "guest", b, f), Begin("put", h, FALSE))
        BY <3>2, <4>0 DEF sync_upload_blob
      <4>2. QED  BY <1>2, <4>1
    <3>3. QED  BY <1>4, <3>1, <3>2
  <2>2. ASSUME NEW fail \in Nat
        PROVE  LET r == Upload("put", "guest", b, fail)
               IN r \in Reqs /\ r.stage = "put" /\ r.user = "guest"
    BY UploadTyped DEF Stages, Users
  <2>3. \A fail \in Nat : Opening(Upload("put", "guest", b, fail), h)
    BY <2>2 DEF Opening
  <2>4. QED  BY <2>1, <2>2, <2>3
<1>5. ASSUME NEW h \in Hashes, NEW b \in BOOLEAN, NEW conv \in BOOLEAN, NEW u \in Users,
             sync_get_blob(t, h, b) \/ get_blob_in_workspace(t, u, h, conv, b)
      PROVE  Goal
  <2>1. (\E code : Refuse(t, code)) \/ \E cv \in BOOLEAN :
          Start(t, [Request("meta") EXCEPT !.head = b], Begin(OpOf["meta"], h, cv))
    BY <1>2, <1>5 DEF sync_get_blob, get_blob_in_workspace
  <2>2. PICK r : r = [Request("meta") EXCEPT !.head = b]
    OBVIOUS
  <2>3. r \in Reqs /\ r.stage = "meta"
    BY <2>2, HeadTyped DEF Stages
  <2>4. Opening(r, h)
    BY <2>3 DEF Opening
  <2>5. QED  BY <2>1, <2>2, <2>3, <2>4
<1>6. ASSUME NEW h \in Hashes, NEW b \in BOOLEAN, NEW u \in Users,
             upload_blob_in_workspace(t, u, h, b)
      PROVE  Goal
  <2>1. PICK r : r = Upload("usage", u, b, 500)
    OBVIOUS
  <2>2. r \in Reqs /\ r.stage = "usage"
    BY <2>1, UploadTyped DEF Stages
  <2>3. Opening(r, h)
    BY <2>2 DEF Opening
  <2>4. (\E code : Refuse(t, code)) \/ Start(t, r, Begin("size", h, FALSE))
    BY <1>6, <2>1 DEF upload_blob_in_workspace
  <2>5. QED  BY <1>2, <2>2, <2>3, <2>4
<1>7. ASSUME NEW u \in Users, get_user_resource_usage(t, u) \/ delete_workspace(t)
      PROVE  Goal
  <2>1. PICK stage \in {"ask", "drop"} :
          Start(t, Request(stage), Begin(OpOf[stage], NoHash, FALSE))
    BY <1>2, <1>7 DEF get_user_resource_usage, delete_workspace
  <2>2. Request(stage) \in Reqs /\ Request(stage).stage = stage /\ ~Request(stage).broken
    BY RequestTyped DEF Stages
  <2>3. Opening(Request(stage), NoHash)
    BY <2>2 DEF Opening
  <2>4. QED  BY <2>1, <2>2, <2>3
<1> HIDE DEF Goal
<1>8. delete_workspace(t) => Goal
  BY <1>7 DEF Users
<1>9. Goal
  BY <1>3, <1>4, <1>5, <1>6, <1>7, <1>8 DEF Arrive, Users
<1>10. QED  BY <1>9 DEF Goal

\* What a new request spoils: the clean uploads of what it deletes.
Spoils(r, c, u) == /\ c.op \in {"delete", "drop"} \/ r.broken
                   /\ call[u].h = c.h \/ c.op = "drop"

LEMMA StartReq ==
  ASSUME Shape, NEW t \in Tasks, NEW r \in Reqs, NEW c, Start(t, r, c)
  PROVE  /\ req' \in [Tasks -> Reqs]
         /\ \A u \in Tasks \ {t} :
              /\ req'[u].stage = req[u].stage /\ req'[u].user = req[u].user
              /\ req'[u].broken = req[u].broken
              /\ req'[u].clean => req[u].clean /\ ~Spoils(r, c, u)
         /\ req'[t].stage = r.stage /\ req'[t].user = r.user /\ req'[t].broken = r.broken
         /\ req'[t].clean => ~ \E v \in Tasks \ {t} : Deleting(v, c.h)
<1>1. PICK cl \in BOOLEAN : cl = ~ \E v \in Tasks \ {t} : Deleting(v, c.h)
  OBVIOUS
<1>2. PICK n : n = [r EXCEPT !.clean = cl]
  OBVIOUS
<1>3. n \in Reqs /\ n.stage = r.stage /\ n.user = r.user /\ n.broken = r.broken /\ n.clean = cl
  BY <1>2 DEF Reqs
<1>4. ASSUME NEW u \in Tasks
      PROVE  LET m == [req[u] EXCEPT !.clean = FALSE]
             IN m \in Reqs /\ m.stage = req[u].stage /\ m.user = req[u].user
                /\ m.broken = req[u].broken /\ m.clean = FALSE
  BY DEF Shape, Reqs
<1>5. req' = [u \in Tasks |-> IF u = t THEN n
                              ELSE IF Spoils(r, c, u) THEN [req[u] EXCEPT !.clean = FALSE]
                                                      ELSE req[u]]
  BY <1>1, <1>2 DEF Start, Spoils
<1>6. \A u \in Tasks : req[u] \in Reqs
  BY DEF Shape
<1>7. req'[t] = n
  BY <1>5
<1>8. ASSUME NEW u \in Tasks \ {t}
      PROVE  /\ req'[u] \in Reqs
             /\ req'[u].stage = req[u].stage /\ req'[u].user = req[u].user
             /\ req'[u].broken = req[u].broken
             /\ req'[u].clean => req[u].clean /\ ~Spoils(r, c, u)
  <2>1. CASE Spoils(r, c, u)
    <3>1. req'[u] = [req[u] EXCEPT !.clean = FALSE]
      BY <1>5, <2>1
    <3>2. QED  BY <1>4, <3>1
  <2>2. CASE ~Spoils(r, c, u)
    BY <1>5, <1>6, <2>2
  <2>3. QED  BY <2>1, <2>2
<1>9. req' \in [Tasks -> Reqs]
  <2>1. \A u \in Tasks : req'[u] \in Reqs
    BY <1>3, <1>7, <1>8
  <2>2. QED  BY <1>5, <2>1
<1>10. QED  BY <1>1, <1>3, <1>7, <1>8, <1>9

LEMMA StartKeeps ==
  ASSUME BlobInv, IsFiniteSet(Tasks), NEW t \in Tasks, NEW r, NEW h, NEW conv \in BOOLEAN,
         Opening(r, h), Start(t, r, Begin(OpOf[r.stage], h, conv))
  PROVE  BlobInv'
<1>0. /\ Shape /\ OnWay /\ Undeleted /\ OneHolder /\ Kept /\ Copied /\ Room
      /\ r \in Reqs /\ h \in Hashes \cup {NoHash}
  BY DEF BlobInv, Opening
<1>1. PICK op \in Ops : op = OpOf[r.stage]
  BY DEF Opening, Reqs, Stages, OpOf, Ops
<1>2. PICK c : c = Begin(op, h, conv)
  OBVIOUS
<1>3. c.op = op /\ c.h = h
  <2>1. deploy.kind \in Kinds
    BY <1>0 DEF Shape
  <2>2. Begin(op, h, conv).op = op /\ Begin(op, h, conv).h = h
    BY <1>0, <2>1, BeginCall
  <2>3. QED  BY <1>2, <2>2
<1>4. Start(t, r, c) /\ call' = [call EXCEPT ![t] = Begin(op, h, conv)]
      /\ UNCHANGED <<deploy, rows, copies, objects, holders, by, crossed>>
      /\ req[t].stage = "idle"
  BY <1>1, <1>2 DEF Start
<1>5. call[t].todo = <<>>
  <2>1. call[t].op = "none"
    BY <1>0, <1>4, Names
  <2>2. call[t].todo \in Ways(call[t].op)
    BY <1>0 DEF OnWay
  <2>3. QED  BY <2>1, <2>2 DEF Ways
<1>6. Renewed(t) /\ call'[t].op = op /\ call'[t].h = h /\ call'[t].todo # <<>>
  BY <1>0, <1>4, <1>5, BeginRenews
<1>7. /\ req' \in [Tasks -> Reqs]
      /\ \A u \in Tasks \ {t} :
           /\ req'[u].stage = req[u].stage /\ req'[u].user = req[u].user
           /\ req'[u].broken = req[u].broken
           /\ req'[u].clean => req[u].clean /\ ~Spoils(r, c, u)
      /\ req'[t].stage = r.stage /\ req'[t].user = r.user /\ req'[t].broken = r.broken
      /\ req'[t].clean => ~ \E v \in Tasks \ {t} : Deleting(v, c.h)
  BY <1>0, <1>4, StartReq
<1>8. /\ kept' \subseteq kept
      /\ \A g \in kept' : ~(op = "drop") /\ ~(h = g /\ (op = "delete" \/ r.broken))
  <2>1. kept' = CASE c.op = "drop"               -> {}
                  [] c.op = "delete" \/ r.broken -> kept \ {c.h}
                  [] OTHER                       -> kept
    BY <1>4 DEF Start
  <2>2. CASE op = "drop"
    <3>1. ~r.broken
      BY <1>1, <2>2 DEF Opening, Reqs, Stages, OpOf
    <3>2. kept' = {}
      BY <1>3, <2>1, <2>2, <3>1
    <3>3. QED  BY <3>2
  <2>3. CASE op # "drop" /\ (op = "delete" \/ r.broken)
    <3>1. kept' = kept \ {h}
      BY <1>3, <2>1, <2>3
    <3>2. QED  BY <2>3, <3>1
  <2>4. CASE op \notin {"drop", "delete"} /\ ~r.broken
    <3>1. kept' = kept
      BY <1>3, <2>1, <2>4
    <3>2. QED  BY <2>4, <3>1
  <2>5. QED  BY <2>2, <2>3, <2>4
<1>9. Shape'
  BY <1>0, <1>6, <1>7, <1>8, RenewedShape DEF Shape
<1>10. \A o : Ways(o)' = Ways(o)
  BY <1>4 DEF Ways
<1>11. OnWay'
  <2>1. ASSUME NEW u \in Tasks \ {t}
        PROVE  /\ call'[u].todo \in Ways(call'[u].op)
               /\ call'[u].op = OpOf[req'[u].stage]
               /\ req'[u].stage = "cleanup" => req'[u].broken
               /\ req'[u].stage \notin {"idle", "ask", "drop"} => call'[u].h \in Hashes
    <3>1. call'[u] = call[u]
      BY <1>6 DEF Renewed
    <3>2. QED  BY <1>0, <1>7, <3>1 DEF OnWay
  <2>2. /\ call'[t].todo \in Ways(call'[t].op)
        /\ call'[t].op = OpOf[req'[t].stage]
        /\ req'[t].stage # "cleanup"
        /\ req'[t].stage \notin {"idle", "ask", "drop"} => call'[t].h \in Hashes
    BY <1>1, <1>6, <1>7 DEF Renewed, Opening
  <2>3. QED  BY <1>10, <2>1, <2>2 DEF OnWay
<1>12. ASSUME NEW u \in Tasks \ {t}, NEW g  PROVE Deleting(u, g)' <=> Deleting(u, g)
  BY <1>6, <1>7 DEF Deleting, Renewed
<1>13. ASSUME NEW g
       PROVE  Deleting(t, g)' <=> op = "drop" \/ (h = g /\ (op = "delete" \/ r.broken))
  BY <1>6, <1>7 DEF Deleting
<1>14. Undeleted'
  <2>1. ASSUME NEW u \in Tasks, NEW g \in kept'  PROVE ~Deleting(u, g)'
    BY <1>0, <1>8, <1>12, <1>13 DEF Undeleted
  <2>2. ASSUME NEW u \in Tasks, req'[u].clean
        PROVE  /\ req'[u].stage # "idle"
               /\ \A s \in Tasks \ {u} : ~Deleting(s, call[u].h)'
    <3>1. CASE u = t
      <4>1. r.stage # "idle"
        BY DEF Opening
      <4>2. ASSUME NEW s \in Tasks \ {t}  PROVE ~Deleting(s, call[t].h)'
        <5>1. ~Deleting(s, h)
          BY <1>3, <1>7, <2>2, <3>1
        <5>2. ~Deleting(s, h)'
          BY <1>12, <5>1
        <5>3. QED  BY <1>6, <5>2 DEF Deleting
      <4>3. QED  BY <1>7, <3>1, <4>1, <4>2
    <3>2. CASE u # t
      <4>1. call'[u] = call[u] /\ req[u].clean /\ ~Spoils(r, c, u)
        BY <1>6, <1>7, <2>2, <3>2 DEF Renewed
      <4>2. req[u].stage # "idle" /\ \A s \in Tasks \ {u} : ~Deleting(s, call[u].h)
        BY <1>0, <4>1 DEF Undeleted
      <4>3. ASSUME NEW s \in Tasks \ {u}  PROVE ~Deleting(s, call[u].h)'
        <5>1. CASE s # t
          <6>1. ~Deleting(s, call[u].h)
            BY <4>2
          <6>2. call'[s] = call[s] /\ req'[s].broken = req[s].broken
            BY <1>6, <1>7, <5>1 DEF Renewed
          <6>3. QED  BY <4>1, <6>1, <6>2 DEF Deleting
        <5>2. CASE s = t
          BY <1>3, <1>6, <1>7, <4>1, <5>2 DEF Deleting, Spoils
        <5>3. QED  BY <5>1, <5>2
      <4>4. QED  BY <1>7, <3>2, <4>2, <4>3
    <3>3. QED  BY <3>1, <3>2
  <2>3. QED  BY <2>1, <2>2 DEF Undeleted
<1>15. OneHolder' /\ Copied'
  BY <1>0, <1>6, RenewedHolder, RenewedCopied
<1>16. Kept'
  BY <1>0, <1>6, <1>7, <1>8, RenewedKept
<1>17. Room'
  <2>1. ~Measured(t)'
    BY <1>6, <1>7 DEF Measured, Done, Opening
  <2>2. QED  BY <1>0, <1>6, <1>7, <2>1, RenewedRoom
<1>18. QED  BY <1>9, <1>11, <1>14, <1>15, <1>16, <1>17 DEF BlobInv

\* What follows a call: an answer, or the second call of the request.
Acknowledges(t) == req[t].stage = "put" /\ call[t].result = "ok" /\ req[t].clean
FollowUp(t, stage) ==
  \/ stage = "get" /\ req[t].stage = "meta"
  \/ stage = "put" /\ req[t].stage = "usage" /\ ~OverLimit(req[t].user, call[t].size)
  \/ stage = "cleanup" /\ req[t].stage = "put" /\ req[t].broken

LEMMA RespondCases ==
  ASSUME Shape, NEW t \in Tasks, Respond(t)
  PROVE  /\ Done(t) /\ UNCHANGED <<deploy, rows, copies, objects, holders, server, count, by, crossed>>
         /\ \/ /\ \E code : Answer(t, code)
               /\ kept' = kept \/ (kept' = kept \cup {call[t].h} /\ Acknowledges(t))
            \/ /\ \E stage, conv : /\ conv \in BOOLEAN /\ FollowUp(t, stage)
                                   /\ Goto(t, stage, Begin(OpOf[stage], call[t].h, conv))
               /\ kept' = kept
<1> DEFINE Answers == /\ \E code : Answer(t, code)
                      /\ kept' = kept \/ (kept' = kept \cup {call[t].h} /\ Acknowledges(t))
           Goes == /\ \E stage, conv : /\ conv \in BOOLEAN /\ FollowUp(t, stage)
                                       /\ Goto(t, stage, Begin(OpOf[stage], call[t].h, conv))
                   /\ kept' = kept
<1>1. Done(t) /\ UNCHANGED <<deploy, rows, copies, objects, holders, server, count, by, crossed>>
  BY DEF Respond, MetaDone, GetDone, CheckDone, DeleteDone, DropDone, AskDone, UsageDone,
         PutDone, CleanupDone, After
<1>2. OpOf["get"] = "get" /\ OpOf["put"] = "put" /\ OpOf["cleanup"] = "delete"
  BY DEF OpOf
<1>3. CASE MetaDone(t)
  <2>1. /\ req[t].stage = "meta" /\ kept' = kept
        /\ \/ \E code : Answer(t, code)
           \/ Goto(t, "get", Begin("get", call[t].h, call[t].conv))
    BY <1>3 DEF MetaDone, After
  <2>2. call[t].conv \in BOOLEAN
    BY DEF Shape, Calls
  <2>3. CASE \E code : Answer(t, code)
    BY <1>1, <2>1, <2>3
  <2>4. CASE Goto(t, "get", Begin("get", call[t].h, call[t].conv))
    <3>1. FollowUp(t, "get")
      BY <2>1 DEF FollowUp
    <3>2. Goes
      BY <1>2, <2>1, <2>2, <2>4, <3>1
    <3>3. QED  BY <1>1, <3>2
  <2>5. QED  BY <1>1, <2>1, <2>3, <2>4
<1>4. CASE GetDone(t) \/ CheckDone(t) \/ DeleteDone(t) \/ DropDone(t) \/ AskDone(t) \/ CleanupDone(t)
  <2>1. (\E code : Answer(t, code)) /\ kept' = kept
    BY <1>4 DEF GetDone, CheckDone, DeleteDone, DropDone, AskDone, CleanupDone, After
  <2>2. QED  BY <1>1, <2>1
<1>5. CASE UsageDone(t)
  <2>1. /\ req[t].stage = "usage" /\ kept' = kept
        /\ \/ \E code : Answer(t, code)
           \/ /\ ~OverLimit(req[t].user, call[t].size)
              /\ Goto(t, "put", Begin("put", call[t].h, FALSE))
    BY <1>5 DEF UsageDone, After
  <2>2. CASE \E code : Answer(t, code)
    BY <1>1, <2>1, <2>2
  <2>3. CASE /\ ~OverLimit(req[t].user, call[t].size)
             /\ Goto(t, "put", Begin("put", call[t].h, FALSE))
    <3>1. FollowUp(t, "put")
      BY <2>1, <2>3 DEF FollowUp
    <3>2. Goes
      BY <1>2, <2>1, <2>3, <3>1
    <3>3. QED  BY <1>1, <3>2
  <2>4. QED  BY <2>1, <2>2, <2>3
<1>6. CASE PutDone(t)
  <2>1. /\ req[t].stage = "put"
        /\ \/ (\E code : Answer(t, code)) /\ kept' = kept
           \/ /\ req[t].broken /\ kept' = kept
              /\ Goto(t, "cleanup", Begin("delete", call[t].h, FALSE))
           \/ /\ \E code : Answer(t, code)
              /\ call[t].result = "ok"
              /\ kept' = IF req[t].clean THEN kept \cup {call[t].h} ELSE kept
    BY <1>6 DEF PutDone, After
  <2>2. CASE (\E code : Answer(t, code)) /\ kept' = kept
    BY <1>1, <2>2
  <2>3. CASE /\ req[t].broken /\ kept' = kept
             /\ Goto(t, "cleanup", Begin("delete", call[t].h, FALSE))
    <3>1. FollowUp(t, "cleanup")
      BY <2>1, <2>3 DEF FollowUp
    <3>2. Goes
      BY <1>2, <2>3, <3>1
    <3>3. QED  BY <1>1, <3>2
  <2>4. CASE /\ \E code : Answer(t, code)
             /\ call[t].result = "ok"
             /\ kept' = IF req[t].clean THEN kept \cup {call[t].h} ELSE kept
    <3>1. Answers
      BY <2>1, <2>4 DEF Acknowledges
    <3>2. QED  BY <1>1, <3>1
  <2>5. QED  BY <2>1, <2>2, <2>3, <2>4
<1>7. QED  BY <1>3, <1>4, <1>5, <1>6 DEF Respond

LEMMA AnswerKeeps ==
  ASSUME BlobInv, IsFiniteSet(Tasks), NEW t \in Tasks, Done(t),
         UNCHANGED <<deploy, rows, copies, objects, holders, server, count, by, crossed>>,
         NEW code, Answer(t, code),
         kept' = kept \/ (kept' = kept \cup {call[t].h} /\ Acknowledges(t))
  PROVE  BlobInv'
<1>0. Shape /\ OnWay /\ Undeleted /\ OneHolder /\ Kept /\ Copied /\ Room
  BY DEF BlobInv
<1>1. Renewed(t) /\ call'[t].op = "none" /\ call'[t].todo = <<>>
  BY <1>0, AnswerRenews DEF Answer, Done
<1>2. Idle \in Reqs /\ Idle.stage = "idle" /\ Idle.user = "guest" /\ Idle.broken = FALSE
      /\ Idle.clean = FALSE
  BY DEF Idle, Reqs, Stages, Users
<1>3. /\ req' \in [Tasks -> Reqs] /\ req'[t] = Idle
      /\ \A u \in Tasks \ {t} : req'[u] = req[u]
  BY <1>0, <1>2 DEF Shape, Answer
<1>4. Acknowledges(t) => req[t].clean /\ Stored(t) /\ call[t].h \in Hashes
  BY <1>0, Names DEF Acknowledges, Stored
<1>5. kept' \subseteq Hashes
      /\ \A g \in kept' : g \in kept \/ (req[t].clean /\ Stored(t) /\ g = call[t].h)
  BY <1>0, <1>4 DEF Shape
<1>6. Shape'
  BY <1>0, <1>1, <1>3, <1>5, RenewedShape
<1>7. \A o : Ways(o)' = Ways(o)
  BY DEF Ways
<1>8. OnWay'
  <2>1. ASSUME NEW u \in Tasks \ {t}
        PROVE  /\ call'[u].todo \in Ways(call'[u].op)
               /\ call'[u].op = OpOf[req'[u].stage]
               /\ req'[u].stage = "cleanup" => req'[u].broken
               /\ req'[u].stage \notin {"idle", "ask", "drop"} => call'[u].h \in Hashes
    <3>1. call'[u] = call[u]
      BY <1>1 DEF Renewed
    <3>2. QED  BY <1>0, <1>3, <3>1 DEF OnWay
  <2>2. /\ call'[t].todo \in Ways(call'[t].op)
        /\ call'[t].op = OpOf[req'[t].stage] /\ req'[t].stage = "idle"
    BY <1>1, <1>2, <1>3 DEF Renewed, OpOf
  <2>3. QED  BY <1>7, <2>1, <2>2 DEF OnWay
<1>9. ASSUME NEW u \in Tasks, NEW g  PROVE Deleting(u, g)' => u # t /\ Deleting(u, g)
  BY <1>1, <1>2, <1>3 DEF Deleting, Renewed
<1>10. Undeleted'
  <2>1. ASSUME NEW u \in Tasks, NEW g \in kept'  PROVE ~Deleting(u, g)'
    BY <1>0, <1>5, <1>9 DEF Undeleted
  <2>2. ASSUME NEW u \in Tasks, req'[u].clean
        PROVE  /\ req'[u].stage # "idle"
               /\ \A s \in Tasks \ {u} : ~Deleting(s, call[u].h)'
    <3>1. u # t
      BY <1>2, <1>3, <2>2
    <3>2. call'[u] = call[u] /\ req'[u] = req[u]
      BY <1>1, <1>3, <3>1 DEF Renewed
    <3>3. req[u].stage # "idle" /\ \A s \in Tasks \ {u} : ~Deleting(s, call[u].h)
      BY <1>0, <2>2, <3>2 DEF Undeleted
    <3>4. ASSUME NEW s \in Tasks \ {u}, Deleting(s, call[u].h)'  PROVE FALSE
      <4>1. s # t
        BY <1>1, <1>2, <1>3, <3>4 DEF Deleting
      <4>2. call'[s] = call[s] /\ req'[s] = req[s]
        BY <1>1, <1>3, <4>1 DEF Renewed
      <4>3. QED  BY <3>2, <3>3, <3>4, <4>2 DEF Deleting
    <3>5. QED  BY <3>2, <3>3, <3>4
  <2>3. QED  BY <2>1, <2>2 DEF Undeleted
<1>11. OneHolder' /\ Copied'
  BY <1>0, <1>1, RenewedHolder, RenewedCopied
<1>12. Kept'
  BY <1>0, <1>1, <1>3, <1>5, RenewedKept
<1>13. Room'
  <2>1. ~Measured(t)'
    BY <1>2, <1>3 DEF Measured
  <2>2. QED  BY <1>0, <1>1, <1>3, <2>1, RenewedRoom
<1>14. QED  BY <1>6, <1>8, <1>10, <1>11, <1>12, <1>13 DEF BlobInv

LEMMA FollowUpKeeps ==
  ASSUME BlobInv, IsFiniteSet(Tasks), NEW t \in Tasks, Done(t),
         UNCHANGED <<deploy, rows, copies, objects, holders, server, count, by, crossed>>,
         NEW stage, NEW conv \in BOOLEAN, FollowUp(t, stage),
         Goto(t, stage, Begin(OpOf[stage], call[t].h, conv)), kept' = kept
  PROVE  BlobInv'
<1>0. Shape /\ OnWay /\ Undeleted /\ OneHolder /\ Kept /\ Copied /\ Room
  BY DEF BlobInv
<1>1. stage \in {"get", "put", "cleanup"} /\ call[t].h \in Hashes
      /\ req[t].stage \in {"meta", "usage", "put"}
  BY <1>0 DEF FollowUp, OnWay
<1>2. PICK op \in {"get", "put", "delete"} : op = OpOf[stage]
  BY <1>1 DEF OpOf
<1>3. op \in Ops /\ (op = "delete" => stage = "cleanup")
  BY <1>1, <1>2 DEF Ops, OpOf
<1>4. call' = [call EXCEPT ![t] = Begin(op, call[t].h, conv)]
  BY <1>2 DEF Goto
<1>5. Renewed(t) /\ call'[t].op = op /\ call'[t].h = call[t].h /\ call'[t].todo # <<>>
  BY <1>0, <1>1, <1>3, <1>4, BeginRenews DEF Done
<1>6. PICK n : n = [req[t] EXCEPT !.stage = stage]
  OBVIOUS
<1>7. /\ n \in Reqs /\ n.stage = stage /\ n.user = req[t].user /\ n.broken = req[t].broken
      /\ n.clean = req[t].clean
  BY <1>0, <1>1, <1>6 DEF Shape, Reqs, Stages
<1>8. /\ req' \in [Tasks -> Reqs] /\ req'[t] = n
      /\ \A u \in Tasks \ {t} : req'[u] = req[u]
  BY <1>0, <1>6, <1>7 DEF Shape, Goto
<1>9. Shape'
  BY <1>0, <1>5, <1>8, RenewedShape DEF Shape
<1>10. \A o : Ways(o)' = Ways(o)
  BY DEF Ways
<1>11. stage = "cleanup" => req[t].broken
  BY DEF FollowUp
<1>12. OnWay'
  <2>1. ASSUME NEW u \in Tasks \ {t}
        PROVE  /\ call'[u].todo \in Ways(call'[u].op)
               /\ call'[u].op = OpOf[req'[u].stage]
               /\ req'[u].stage = "cleanup" => req'[u].broken
               /\ req'[u].stage \notin {"idle", "ask", "drop"} => call'[u].h \in Hashes
    <3>1. call'[u] = call[u]
      BY <1>5 DEF Renewed
    <3>2. QED  BY <1>0, <1>8, <3>1 DEF OnWay
  <2>2. /\ call'[t].todo \in Ways(call'[t].op)
        /\ call'[t].op = OpOf[req'[t].stage]
        /\ req'[t].stage = "cleanup" => req'[t].broken
        /\ call'[t].h \in Hashes
    BY <1>1, <1>2, <1>5, <1>7, <1>8, <1>11 DEF Renewed
  <2>3. QED  BY <1>10, <2>1, <2>2 DEF OnWay
<1>13. ASSUME NEW u \in Tasks, NEW g, Deleting(u, g)'  PROVE Deleting(u, g)
  <2>1. CASE u = t
    BY <1>3, <1>5, <1>7, <1>8, <1>11, <1>13, <2>1 DEF Deleting
  <2>2. CASE u # t
    BY <1>5, <1>8, <1>13, <2>2 DEF Deleting, Renewed
  <2>3. QED  BY <2>1, <2>2
<1>14. Undeleted'
  <2>1. ASSUME NEW u \in Tasks
        PROVE  /\ call'[u].h = call[u].h /\ req'[u].clean = req[u].clean
               /\ req'[u].broken = req[u].broken
               /\ req'[u].stage = "idle" => req[u].stage = "idle"
    <3>1. CASE u = t
      BY <1>1, <1>5, <1>7, <1>8, <3>1
    <3>2. CASE u # t
      BY <1>5, <1>8, <3>2 DEF Renewed
    <3>3. QED  BY <3>1, <3>2
  <2>2. ASSUME NEW u \in Tasks, NEW g \in kept'  PROVE ~Deleting(u, g)'
    BY <1>0, <1>13 DEF Undeleted
  <2>3. ASSUME NEW u \in Tasks, req'[u].clean
        PROVE  /\ req'[u].stage # "idle"
               /\ \A s \in Tasks \ {u} : ~Deleting(s, call[u].h)'
    <3>1. req[u].stage # "idle" /\ \A s \in Tasks \ {u} : ~Deleting(s, call[u].h)
      BY <1>0, <2>1, <2>3 DEF Undeleted
    <3>2. ASSUME NEW s \in Tasks \ {u}, Deleting(s, call[u].h)'  PROVE FALSE
      <4>1. PICK g : g = call[u].h
        OBVIOUS
      <4>2. g = call'[u].h
        BY <2>1, <4>1
      <4>3. Deleting(s, g)'
        BY <3>2, <4>2 DEF Deleting
      <4>4. Deleting(s, g)
        BY <1>13, <4>3
      <4>5. QED  BY <3>1, <4>1, <4>4
    <3>3. QED  BY <2>1, <3>1, <3>2
  <2>4. QED  BY <2>2, <2>3 DEF Undeleted
<1>15. OneHolder' /\ Copied'
  BY <1>0, <1>5, RenewedHolder, RenewedCopied
<1>16. Kept'
  BY <1>0, <1>5, <1>8, RenewedKept
<1>17. Room'
  <2>1. ASSUME Measured(t)'  PROVE Measured(t)
    <3>1. req[t].user = "owner" /\ stage = "put"
      BY <1>1, <1>7, <1>8, <2>1 DEF Measured
    <3>2. req[t].stage = "usage" /\ ~OverLimit("owner", call[t].size)
      BY <3>1 DEF FollowUp
    <3>3. call[t].size \in Nat /\ MaxUsage \in Nat
      BY <1>0, QuotaAssumption DEF Shape, Calls
    <3>4. call[t].size + 1 <= MaxUsage
      BY <3>2, <3>3 DEF OverLimit
    <3>5. QED  BY <3>1, <3>2, <3>4 DEF Measured
  <2>2. QED  BY <1>0, <1>5, <1>8, <2>1, RenewedRoom
<1>18. QED  BY <1>9, <1>12, <1>14, <1>15, <1>16, <1>17 DEF BlobInv

-----------------------------------------------------------------------------
(* The invariant and the theorems. *)

LEMMA InitInv ==
  ASSUME Init, IsFiniteSet(Tasks), Tasks # {}
  PROVE  BlobInv
<1>1. /\ deploy \in [kind : Kinds, sqlite : BOOLEAN]
      /\ rows = [h \in Hashes |-> "none"] /\ copies = [h \in Hashes |-> "none"]
      /\ objects = {} /\ holders = {} /\ call = [t \in Tasks |-> NoCall]
      /\ req = [t \in Tasks |-> Idle] /\ kept = {} /\ by = [h \in Hashes |-> "guest"]
  BY DEF Init, StoreInit
<1>2. NoCall \in Calls /\ NoCall.todo = <<>> /\ NoCall.op = "none"
  BY NoCallTyped
<1>3. /\ Idle \in Reqs /\ Idle.stage = "idle" /\ Idle.user = "guest" /\ Idle.broken = FALSE
      /\ Idle.clean = FALSE
  BY DEF Idle, Reqs, Stages, Users
<1>4. {h \in Hashes : rows[h] = "live"} = {}
  BY <1>1
<1>5. Shape
  BY <1>1, <1>2, <1>3, <1>4, FS_EmptySet DEF Shape, RowStates, Users
<1>6. \A t \in Tasks : call[t] = NoCall /\ req[t] = Idle
  BY <1>1
<1>7. OnWay
  <2>1. <<>> \in Ways("none")
    BY WayEnds
  <2>2. QED  BY <1>2, <1>3, <1>6, <2>1 DEF OnWay, OpOf
<1>8. Undeleted
  BY <1>1, <1>3, <1>6 DEF Undeleted
<1>9. OneHolder
  BY <1>1, <1>2, <1>6 DEF OneHolder, At
<1>10. Kept
  BY <1>1, <1>3, <1>6 DEF Kept
<1>11. Copied
  <2>1. \A t \in Tasks : \A h : ~Copying(t, h)
    BY <1>2, <1>6 DEF Copying, At
  <2>2. \A h \in Hashes : copies[h] # "live"
    BY <1>1
  <2>3. QED  BY <2>1, <2>2 DEF Copied
<1>12. Room
  <2>1. Owned = {} /\ {t \in Tasks : Measured(t)} = {}
    BY <1>1, <1>3, <1>6 DEF Owned, Measured
  <2>2. Cardinality(Tasks) \in Nat /\ Cardinality(Tasks) # 0
    BY FS_CardinalityType, FS_EmptySet
  <2>3. Cardinality({}) = 0
    BY FS_EmptySet
  <2>4. Cardinality(Owned) = 0 /\ Cardinality({t \in Tasks : Measured(t)}) = 0
    BY <2>1, <2>3
  <2>5. QED  BY <2>2, <2>4, QuotaAssumption DEF Room
<1>13. QED  BY <1>5, <1>7, <1>8, <1>9, <1>10, <1>11, <1>12 DEF BlobInv

LEMMA NextInv ==
  ASSUME BlobInv, IsFiniteSet(Tasks), [Next]_vars
  PROVE  BlobInv'
<1>1. CASE UNCHANGED vars
  <2>1. UNCHANGED <<deploy, rows, copies, objects, holders, call, server, req, status, count,
                    kept, by, crossed>>
    BY <1>1 DEF vars, storeVars, apiVars
  <2>2. \A op : Ways(op)' = Ways(op)
    BY <2>1 DEF Ways
  <2>3. Calls' = Calls /\ Reqs' = Reqs
    BY <2>2 DEF Calls, Reqs
  <2>4. Shape' /\ OnWay' /\ Undeleted'
    <3>1. Shape'
      BY <2>1, <2>3 DEF BlobInv, Shape
    <3>2. OnWay'
      BY <2>1, <2>2 DEF BlobInv, OnWay
    <3>3. Undeleted'
      BY <2>1 DEF BlobInv, Undeleted, Deleting
    <3>4. QED  BY <3>1, <3>2, <3>3
  <2>5. OneHolder' /\ Kept'
    <3>1. OneHolder'
      BY <2>1 DEF BlobInv, OneHolder, At
    <3>2. Kept'
      BY <2>1 DEF BlobInv, Kept, Locking, Stored, Readable, At, Done
    <3>3. QED  BY <3>1, <3>2
  <2>6. Copied' /\ Room'
    <3>1. Copied'
      BY <2>1 DEF BlobInv, Copied, Copying, Uncopies, At
    <3>2. Room'
      BY <2>1 DEF BlobInv, Room, Owned, Measured, Done
    <3>3. QED  BY <3>1, <3>2
  <2>7. QED  BY <2>4, <2>5, <2>6 DEF BlobInv
<1>2. ASSUME NEW t \in Tasks, Arrive(t)  PROVE BlobInv'
  <2>1. CASE \E code : Refuse(t, code)
    <3>1. UNCHANGED <<deploy, rows, copies, objects, holders, call, req, kept, by, crossed>>
      BY <2>1 DEF Refuse, storeVars
    <3>2. \A op : Ways(op)' = Ways(op)
      BY <3>1 DEF Ways
    <3>3. Calls' = Calls /\ Reqs' = Reqs
      BY <3>2 DEF Calls, Reqs
    <3>4. Shape'
      BY <3>1, <3>3 DEF BlobInv, Shape
    <3>5. OnWay'
      BY <3>1, <3>2 DEF BlobInv, OnWay
    <3>6. Undeleted'
      BY <3>1 DEF BlobInv, Undeleted, Deleting
    <3>7. OneHolder'
      BY <3>1 DEF BlobInv, OneHolder, At
    <3>8. Kept'
      BY <3>1 DEF BlobInv, Kept, Locking, Stored, Readable, At, Done
    <3>9. Copied'
      BY <3>1 DEF BlobInv, Copied, Copying, Uncopies, At
    <3>10. Room'
      BY <3>1 DEF BlobInv, Room, Owned, Measured, Done
    <3>11. QED  BY <3>4, <3>5, <3>6, <3>7, <3>8, <3>9, <3>10 DEF BlobInv
  <2>2. CASE \E r, h : \E conv \in BOOLEAN :
               Opening(r, h) /\ Start(t, r, Begin(OpOf[r.stage], h, conv))
    <3>1. PICK r, h : \E conv \in BOOLEAN :
                        Opening(r, h) /\ Start(t, r, Begin(OpOf[r.stage], h, conv))
      BY <2>2
    <3>2. PICK conv \in BOOLEAN :
                 Opening(r, h) /\ Start(t, r, Begin(OpOf[r.stage], h, conv))
      BY <3>1
    <3>3. QED  BY <3>2, StartKeeps
  <2>3. QED  BY <1>2, <2>1, <2>2, ArriveCases
<1>3. ASSUME NEW t \in Tasks, Serve(t)  PROVE BlobInv'
  BY <1>3, ServeShape, ServeUndeleted, ServeHolder, ServeKept, ServeCopied, ServeRoom DEF BlobInv
<1>4. ASSUME NEW t \in Tasks, Respond(t)  PROVE BlobInv'
  <2>1. Shape
    BY DEF BlobInv
  <2>2. Done(t) /\ UNCHANGED <<deploy, rows, copies, objects, holders, server, count, by, crossed>>
    BY <1>4, <2>1, RespondCases
  <2>3. CASE /\ \E code : Answer(t, code)
             /\ kept' = kept \/ (kept' = kept \cup {call[t].h} /\ Acknowledges(t))
    BY <2>2, <2>3, AnswerKeeps
  <2>4. CASE /\ \E stage, conv : /\ conv \in BOOLEAN /\ FollowUp(t, stage)
                                 /\ Goto(t, stage, Begin(OpOf[stage], call[t].h, conv))
             /\ kept' = kept
    <3>1. PICK stage, conv : /\ conv \in BOOLEAN /\ FollowUp(t, stage)
                             /\ Goto(t, stage, Begin(OpOf[stage], call[t].h, conv))
      BY <2>4
    <3>2. QED  BY <2>2, <2>4, <3>1, FollowUpKeeps
  <2>5. QED  BY <1>4, <2>1, <2>3, <2>4, RespondCases
<1>5. QED  BY <1>1, <1>2, <1>3, <1>4 DEF Next

LEMMA InvHolds ==
  ASSUME IsFiniteSet(Tasks), Tasks # {}
  PROVE  Spec => []BlobInv
<1>1. Init => BlobInv
  BY InitInv
<1>2. BlobInv /\ [Next]_vars => BlobInv'
  BY NextInv
<1>3. QED  BY <1>1, <1>2, PTL DEF Spec

(* What put_blob_stream acknowledged can be read until a request asks for its
   deletion: in the database storages with any number of permits, in a bucket
   under SQLite's lock. *)
THEOREM AcknowledgedIsReadable ==
  ASSUME IsFiniteSet(Tasks), Tasks # {}
  PROVE  Spec => []AckedReadable
<1>1. BlobInv => AckedReadable
  BY DEF BlobInv, Kept, AckedReadable, Locking
<1>2. QED  BY <1>1, InvHolds, PTL

(* An optimized copy of BlobAutoStorage has its origin, or a request on its way
   that takes the copies away, unless delete_blob crossed the copy's making. *)
THEOREM CopiesGoToo ==
  ASSUME IsFiniteSet(Tasks), Tasks # {}
  PROVE  Spec => []CopiesFollow
<1>1. ASSUME BlobInv  PROVE CopiesFollow
  <2>0. Shape /\ OnWay /\ Copied
    BY <1>1 DEF BlobInv
  <2>1. ASSUME NEW t \in Tasks, NEW h \in Hashes, Uncopies(t, h)
        PROVE  call[t].todo # <<>> /\ Deleting(t, h)
    <3>1. call[t].todo # <<>>
      BY <2>1, NonEmpty DEF Uncopies
    <3>2. /\ HeadOf(call[t].op, call[t].todo) /\ AnyHeadOf(call[t].op, call[t].todo)
          /\ call[t].op \in Ops \cup {"none"}
      BY <2>0, <3>1, Next1, CallTyped
    <3>3. Head(call[t].todo) \in {"unlock", "delete_copies", "drop_copies"}
      BY <2>1, Ends DEF Uncopies
    <3>4. call[t].op \in {"delete", "drop"}
      BY <3>2, <3>3 DEF HeadOf, ReadSteps, CopySteps
    <3>5. call[t].op = "delete" => call[t].h = h
      <4>1. ASSUME call[t].op = "delete",
                   call[t].todo \in {<<"unlock", "drop_copies">>, <<"drop_copies">>}
            PROVE  FALSE
        <5>1. Head(call[t].todo) # "drop_copies"
          BY <3>2, <4>1 DEF HeadOf
        <5>2. call[t].todo = <<"unlock", "drop_copies">>
          BY <4>1, <5>1, Ends
        <5>3. call[t].todo = <<"unlock", "delete_copies">>
          BY <3>2, <4>1, <5>2, Ends DEF AnyHeadOf
        <5>4. Tail(call[t].todo) = <<"drop_copies">> /\ Tail(call[t].todo) = <<"delete_copies">>
          BY <5>2, <5>3, Ends
        <5>5. Head(<<"drop_copies">>) = "drop_copies" /\ Head(<<"delete_copies">>) = "delete_copies"
          BY Ends
        <5>6. QED  BY <5>4, <5>5
      <4>2. QED  BY <2>1, <4>1 DEF Uncopies
    <3>6. QED  BY <3>1, <3>4, <3>5 DEF Deleting
  <2>2. QED  BY <2>0, <2>1 DEF Copied, CopiesFollow
<1>2. BlobInv => CopiesFollow
  BY <1>1
<1>3. QED  BY <1>2, InvHolds, PTL

(* What an owner stored exceeds MAX_USAGE at most by the other uploads that
   upload_blob_in_workspace measured at the same time. *)
THEOREM QuotaIsNearlyKept ==
  ASSUME IsFiniteSet(Tasks), Tasks # {}
  PROVE  Spec => []OwnerQuota
<1>1. ASSUME BlobInv  PROVE OwnerQuota
  <2>1. /\ Cardinality(Owned) \in Nat /\ Cardinality({u \in Tasks : Measured(u)}) \in Nat
        /\ Cardinality(Tasks) \in Nat
    BY <1>1, Finite DEF BlobInv
  <2>2. Cardinality(Owned) + Cardinality({u \in Tasks : Measured(u)})
          <= MaxUsage + Cardinality(Tasks) - 1
    BY <1>1 DEF BlobInv, Room
  <2>3. Cardinality(Owned) <= MaxUsage + Cardinality(Tasks) - 1
    BY <2>1, <2>2, QuotaAssumption
  <2>4. QED  BY <2>3 DEF OwnerQuota, Owned
<1>2. BlobInv => OwnerQuota
  BY <1>1
<1>3. QED  BY <1>2, InvHolds, PTL

-----------------------------------------------------------------------------
(* The lock moves on. *)

HeldSteps == {"stream", "find", "store", "undo_object", "delete", "drop", "unlock"}

\* What the holders of the lock are about to do.
OnLock(t) ==
  /\ call[t].todo # <<>>
  /\ Head(call[t].todo) \in HeldSteps
  /\ deploy.kind = "bucket" => Head(call[t].todo) # "stream"
Held == \A t \in holders : OnLock(t)

\* The action a step under the lock is taken by.
LEMMA ByItsStep ==
  ASSUME NEW t \in Tasks, StoreStep(t)
  PROVE  /\ At(t, "store") => StoreRow(t)
         /\ At(t, "delete") => DeleteRow(t)
         /\ At(t, "drop") => DropRows(t)
         /\ At(t, "unlock") => Unlock(t)
         /\ At(t, "undo_object") => DeleteObject(t)
<1>1. CASE Lock(t) \/ ReadStream(t) \/ RemoveAll(t) \/ FindRow(t) \/ FindCopy(t)
  BY <1>1 DEF Lock, ReadStream, RemoveAll, FindRow, FindCopy, At
<1>2. CASE ReadRows(t) \/ SumRows(t) \/ GetObject(t) \/ MetaCopy(t) \/ PutObject(t)
  BY <1>2 DEF ReadRows, SumRows, GetObject, MetaCopy, PutObject, At
<1>3. CASE GetCopy(t) \/ GetOrigin(t) \/ OptimizeImage(t) \/ StoreCopy(t)
           \/ DeleteCopies(t) \/ DropCopies(t)
  BY <1>3 DEF GetCopy, GetOrigin, OptimizeImage, StoreCopy, DeleteCopies, DropCopies, At
<1>4. CASE StoreRow(t) \/ DeleteRow(t) \/ DropRows(t) \/ Unlock(t) \/ DeleteObject(t)
  BY <1>4 DEF StoreRow, DeleteRow, DropRows, Unlock, DeleteObject, At
<1>5. QED  BY <1>1, <1>2, <1>3, <1>4 DEF StoreStep

\* What comes after the lock.
LEMMA AfterLock ==
  ASSUME NEW x
  PROVE  /\ x \in {<<"lock", "find", "store">>, <<"lock", "delete">>, <<"lock", "drop">>} =>
              Tail(x) # <<>> /\ Head(Tail(x)) \in HeldSteps \ {"stream"}
         /\ x \in {<<"lock", "stream", "find", "store">>, <<"lock", "delete">>,
                   <<"lock", "delete", "unlock", "delete_copies">>, <<"lock", "drop">>,
                   <<"lock", "drop", "unlock", "drop_copies">>} =>
              Tail(x) # <<>> /\ Head(Tail(x)) \in HeldSteps
<1>1. CASE x = <<"lock", "find", "store">>
  BY <1>1, Ends, NonEmpty DEF HeldSteps
<1>2. CASE x = <<"lock", "delete">>
  BY <1>2, Ends, NonEmpty DEF HeldSteps
<1>3. CASE x = <<"lock", "drop">>
  BY <1>3, Ends, NonEmpty DEF HeldSteps
<1>4. CASE x = <<"lock", "stream", "find", "store">>
  <2>1. Tail(x) = <<"stream", "find", "store">>
    BY <1>4, Ends
  <2>2. x \notin {<<"lock", "find", "store">>, <<"lock", "delete">>, <<"lock", "drop">>}
    BY <1>4
  <2>3. QED  BY <2>1, <2>2, Ends, NonEmpty DEF HeldSteps
<1>5. CASE x = <<"lock", "delete", "unlock", "delete_copies">>
  <2>1. Tail(x) = <<"delete", "unlock", "delete_copies">>
    BY <1>5, Ends
  <2>2. QED  BY <2>1, Ends, NonEmpty DEF HeldSteps
<1>6. CASE x = <<"lock", "drop", "unlock", "drop_copies">>
  <2>1. Tail(x) = <<"drop", "unlock", "drop_copies">>
    BY <1>6, Ends
  <2>2. QED  BY <2>1, Ends, NonEmpty DEF HeldSteps
<1>7. QED  BY <1>1, <1>2, <1>3, <1>4, <1>5, <1>6

\* A call goes on under the lock it took, or gives it back.
LEMMA HeldStep ==
  ASSUME Shape, OnWay, Held, NEW t \in Tasks, Serve(t), t \in holders'
  PROVE  OnLock(t)'
<1>0. StoreStep(t) /\ deploy' = deploy
  BY DEF Serve
<1>1. /\ call[t].todo # <<>> /\ AnyHeadOf(call[t].op, call[t].todo)
      /\ BucketHeadOf(call[t].todo) /\ DatabaseHeadOf(call[t].todo)
  BY <1>0, StepCases, Next1
<1>2. SUFFICES /\ call'[t].todo # <<>> /\ Head(call'[t].todo) \in HeldSteps
               /\ deploy.kind = "bucket" => Head(call'[t].todo) # "stream"
  BY <1>0 DEF OnLock
<1>3. ASSUME NEW r, Return(t, r)  PROVE FALSE
  BY <1>3 DEF Return
<1>4. CASE Lock(t)
  <2>1. call'[t].todo = Tail(call[t].todo) /\ Head(call[t].todo) = "lock"
    BY <1>1, <1>4, AdvanceKeeps DEF Lock, At
  <2>2. CASE deploy.kind = "bucket"
    <3>1. call[t].todo \in {<<"lock", "find", "store">>, <<"lock", "delete">>, <<"lock", "drop">>}
      BY <1>1, <2>1, <2>2 DEF BucketHeadOf
    <3>2. QED  BY <2>1, <3>1, AfterLock
  <2>3. CASE deploy.kind # "bucket"
    <3>1. call[t].todo \in {<<"lock", "stream", "find", "store">>, <<"lock", "delete">>,
            <<"lock", "delete", "unlock", "delete_copies">>, <<"lock", "drop">>,
            <<"lock", "drop", "unlock", "drop_copies">>}
      BY <1>1, <2>1, <2>3 DEF DatabaseHeadOf
    <3>2. QED  BY <2>1, <2>3, <3>1, AfterLock
  <2>4. QED  BY <2>2, <2>3
<1>5. CASE ~Lock(t)
  <2>0. t \in holders
    BY <1>0, <1>5, Changes
  <2>1. Head(call[t].todo) \in HeldSteps /\ (deploy.kind = "bucket" => Head(call[t].todo) # "stream")
    BY <2>0 DEF Held, OnLock
  <2>2. CASE Head(call[t].todo) = "stream"
    <3>1. call[t].todo = <<"stream", "find", "store">>
      BY <1>1, <2>1, <2>2 DEF DatabaseHeadOf
    <3>2. Advance(t)
      <4>1. ~FindRow(t) /\ ~FindCopy(t) /\ ~SumRows(t)
        BY <2>2 DEF FindRow, FindCopy, SumRows, At
      <4>2. ~Undoes(t)
        BY <2>2 DEF Undoes, At
      <4>3. QED  BY <1>0, <1>3, <4>1, <4>2, StepCases
    <3>3. call'[t].todo = <<"find", "store">>
      BY <1>1, <3>1, <3>2, AdvanceKeeps, Ends
    <3>4. QED  BY <3>3, Ends, NonEmpty DEF HeldSteps
  <2>3. CASE Head(call[t].todo) = "find"
    <3>1. call[t].todo = <<"find", "store">>
      BY <1>1, <2>3 DEF AnyHeadOf
    <3>2. Advance(t) \/ FindRow(t)
      <4>1. ~FindCopy(t) /\ ~SumRows(t)
        BY <2>3 DEF FindCopy, SumRows, At
      <4>2. ~Undoes(t)
        BY <2>3 DEF Undoes, At
      <4>3. QED  BY <1>0, <1>3, <4>1, <4>2, StepCases
    <3>3. call'[t].todo = <<"store">>
      BY <1>1, <3>1, <3>2, AdvanceKeeps, FoundStep, Ends
    <3>4. QED  BY <3>3, Ends DEF HeldSteps
  <2>4. CASE Head(call[t].todo) = "store"
    <3>1. StoreRow(t)
      BY <1>0, <1>1, <2>4, ByItsStep DEF At
    <3>2. Undoes(t)
      BY <1>3, <3>1, StoreStepRow
    <3>3. call'[t].todo = <<"undo_object">>
      BY <3>2, UndoStep DEF Undoes
    <3>4. QED  BY <3>3, Ends DEF HeldSteps
  <2>5. CASE Head(call[t].todo) = "delete"
    <3>1. DeleteRow(t)
      BY <1>0, <1>1, <2>5, ByItsStep DEF At
    <3>2. Advance(t) /\ Len(call[t].todo) > 1
      BY <1>3, <3>1 DEF DeleteRow
    <3>3. call[t].todo \in {<<"delete">>, <<"delete", "unlock", "delete_copies">>}
      BY <1>1, <2>5 DEF AnyHeadOf
    <3>4. call[t].todo = <<"delete", "unlock", "delete_copies">>
      <4>1. ASSUME call[t].todo = <<"delete">>  PROVE FALSE
        <5>1. ~(Len(call[t].todo) > 1)
          BY <4>1
        <5>2. QED  BY <3>2, <5>1
      <4>2. QED  BY <3>3, <4>1
    <3>5. call'[t].todo = <<"unlock", "delete_copies">>
      BY <1>1, <3>2, <3>4, AdvanceKeeps, Ends
    <3>6. QED  BY <3>5, Ends, NonEmpty DEF HeldSteps
  <2>6. CASE Head(call[t].todo) = "drop"
    <3>1. DropRows(t)
      BY <1>0, <1>1, <2>6, ByItsStep DEF At
    <3>2. Advance(t) /\ Len(call[t].todo) > 1
      BY <1>3, <3>1 DEF DropRows
    <3>3. call[t].todo \in {<<"drop">>, <<"drop", "unlock", "drop_copies">>}
      BY <1>1, <2>6 DEF AnyHeadOf
    <3>4. call[t].todo = <<"drop", "unlock", "drop_copies">>
      <4>1. ASSUME call[t].todo = <<"drop">>  PROVE FALSE
        <5>1. ~(Len(call[t].todo) > 1)
          BY <4>1
        <5>2. QED  BY <3>2, <5>1
      <4>2. QED  BY <3>3, <4>1
    <3>5. call'[t].todo = <<"unlock", "drop_copies">>
      BY <1>1, <3>2, <3>4, AdvanceKeeps, Ends
    <3>6. QED  BY <3>5, Ends, NonEmpty DEF HeldSteps
  <2>7. CASE Head(call[t].todo) = "unlock"
    <3>1. Unlock(t)
      BY <1>0, <1>1, <2>7, ByItsStep DEF At
    <3>2. QED  BY <3>1 DEF Unlock
  <2>8. CASE Head(call[t].todo) = "undo_object"
    <3>1. DeleteObject(t) /\ At(t, "undo_object")
      BY <1>0, <1>1, <2>8, ByItsStep DEF At
    <3>2. QED  BY <1>3, <3>1 DEF DeleteObject
  <2>9. QED  BY <2>1, <2>2, <2>3, <2>4, <2>5, <2>6, <2>7, <2>8 DEF HeldSteps
<1>6. QED  BY <1>4, <1>5

LEMMA HeldKeeps ==
  ASSUME BlobInv, Held, [Next]_vars
  PROVE  Held'
<1>0. Shape /\ OnWay
  BY DEF BlobInv
<1>1. CASE UNCHANGED vars
  <2>1. UNCHANGED <<deploy, holders, call>>
    BY <1>1 DEF vars, storeVars
  <2>2. QED  BY <2>1 DEF Held, OnLock
<1>2. ASSUME NEW t \in Tasks, Arrive(t) \/ Respond(t)  PROVE Held'
  <2>1. CASE \E code : Refuse(t, code)
    BY <2>1 DEF Refuse, storeVars, Held, OnLock
  <2>2. ASSUME UNCHANGED <<deploy, holders>>, t \notin holders, NEW c,
               call' = [call EXCEPT ![t] = c]
        PROVE  Held'
    <3>1. holders \subseteq Tasks /\ call \in [Tasks -> Calls]
      BY <1>0 DEF Shape
    <3>2. \A u \in holders : call'[u] = call[u]
      BY <2>2, <3>1
    <3>3. QED  BY <2>2, <3>2 DEF Held, OnLock
  <2>3. ASSUME NEW r, NEW c, Start(t, r, c)  PROVE Held'
    <3>1. req[t].stage = "idle" /\ call' = [call EXCEPT ![t] = c]
          /\ UNCHANGED <<deploy, holders>>
      BY <2>3 DEF Start
    <3>2. call[t].op = "none" /\ call[t].todo \in Ways(call[t].op)
      BY <1>0, <3>1, Names DEF OnWay
    <3>3. call[t].todo = <<>>
      BY <3>2 DEF Ways
    <3>4. t \notin holders
      BY <3>3 DEF Held, OnLock
    <3>5. QED  BY <2>2, <3>1, <3>4
  <2>4. ASSUME Respond(t)  PROVE Held'
    <3>1. Done(t) /\ UNCHANGED <<deploy, holders>>
      BY <1>0, <2>4, RespondCases
    <3>2. t \notin holders
      BY <3>1 DEF Held, OnLock, Done
    <3>3. \E c : call' = [call EXCEPT ![t] = c]
      BY <1>0, <2>4, RespondCases DEF Answer, Goto
    <3>4. QED  BY <2>2, <3>1, <3>2, <3>3
  <2>5. QED  BY <1>2, <2>1, <2>3, <2>4, ArriveCases
<1>3. ASSUME NEW t \in Tasks, Serve(t)  PROVE Held'
  <2>1. ASSUME NEW u \in holders', u # t  PROVE OnLock(u)'
    <3>1. u \in holders /\ u \in Tasks /\ deploy' = deploy
      BY <1>0, <1>3, <2>1, Changes DEF Serve, Lock, Shape
    <3>2. call'[u] = call[u]
      BY <1>0, <1>3, <2>1, <3>1, ServeShape DEF Same
    <3>3. QED  BY <3>1, <3>2 DEF Held, OnLock
  <2>2. t \in holders' => OnLock(t)'
    BY <1>0, <1>3, HeldStep
  <2>3. QED  BY <2>1, <2>2 DEF Held
<1>4. QED  BY <1>1, <1>2, <1>3 DEF Next

LEMMA HeldHolds ==
  ASSUME IsFiniteSet(Tasks), Tasks # {}
  PROVE  Spec => [](BlobInv /\ Held)
<1>1. Init => Held
  BY DEF Init, StoreInit, Held
<1>2. BlobInv /\ Held /\ [Next]_vars => Held'
  BY HeldKeeps
<1>3. QED  BY <1>1, <1>2, InvHolds, PTL DEF Spec

(* Whoever holds the lock has steps of its call left and asks for no lock: a
   guard that outlived its method, or a cleanup begun under the guard of its own
   upload, would keep every other request waiting. *)
HoldersMoveOn ==
  \A t \in holders : call[t].todo # <<>> /\ ~At(t, "lock") /\ ~At(t, "locked_read")

(* So it is for the lock of the rate limiter: the delete that follows a broken
   stream is not begun under the guard of the upload it cleans up after. *)
THEOREM LockHoldersMoveOn ==
  ASSUME IsFiniteSet(Tasks), Tasks # {}
  PROVE  Spec => []HoldersMoveOn
<1>1. Held => HoldersMoveOn
  BY DEF Held, OnLock, HeldSteps, HoldersMoveOn, At
<1>2. QED  BY <1>1, HeldHolds, PTL

\* A request the lock keeps waiting.
Waits(t) == (At(t, "lock") \/ At(t, "locked_read")) /\ ~Free

(* Of the requests being served there is always one that waits for no lock: it
   has its answer to give, or a step no other request can hold up.  Needs the
   semaphore to have a permit (get_bucket). *)
THEOREM SomeoneNeedNotWait ==
  ASSUME IsFiniteSet(Tasks), Tasks # {}
  PROVE  Spec => [](\A t \in Tasks : Waits(t) =>
                      \E s \in Tasks : req[s].stage # "idle" /\ ~Waits(s))
<1> DEFINE Goal == \A t \in Tasks : Waits(t) => \E s \in Tasks : req[s].stage # "idle" /\ ~Waits(s)
<1>1. ASSUME BlobInv, Held  PROVE Goal
  <2>1. SUFFICES ASSUME NEW t \in Tasks, Waits(t)
                 PROVE  \E s \in Tasks : req[s].stage # "idle" /\ ~Waits(s)
    OBVIOUS
  <2>2. holders # {} /\ holders \subseteq Tasks /\ Shape /\ OnWay
    <3>1. ~Free /\ Shape /\ OnWay /\ holders \subseteq Tasks
      BY <1>1, <2>1 DEF Waits, BlobInv, Shape
    <3>2. Cardinality({}) = 0 /\ 0 < Permits
      BY FS_EmptySet, PermitsAssumption
    <3>3. QED  BY <3>1, <3>2 DEF Free
  <2>3. PICK s \in holders : OnLock(s)
    BY <1>1, <2>2 DEF Held
  <2>4. s \in Tasks /\ ~Waits(s)
    BY <2>2, <2>3 DEF OnLock, HeldSteps, Waits, At
  <2>5. call[s].op # "none"
    <3>1. call[s].todo \in Ways(call[s].op) /\ call[s].todo # <<>>
      BY <2>2, <2>3, <2>4 DEF OnWay, OnLock
    <3>2. QED  BY <3>1 DEF Ways
  <2>6. QED  BY <2>2, <2>4, <2>5, Names
<1>2. BlobInv /\ Held => Goal
  BY <1>1
<1>3. QED  BY <1>2, HeldHolds, PTL
=============================================================================
