----------------------------- MODULE SaveUpdate -----------------------------
(***************************************************************************)
(* How a sync server keeps one workspace: handle_connector (jwst-rpc       *)
(* handler.rs) with apply_change, join_broadcast and save_update           *)
(* (context.rs, broadcast.rs), the DocPublisher thread (jwst-codec) and    *)
(* the cache and the docs table of jwst-storage.                           *)
(*                                                                         *)
(* Clients send operations; apply_change puts them into the document, the  *)
(* publisher thread announces what changed on the workspace's broadcast    *)
(* channel, and one saver per connection writes what it hears to the       *)
(* table.  A document is the set of operations in it; an instance is a     *)
(* Workspace in memory, of which the cache knows at most one.              *)
(***************************************************************************)
EXTENDS Integers, Sequences, FiniteSets

CONSTANTS
    Conn,       \* connections, each used once
    Op,         \* operations the clients may send
    Cap,        \* bound: messages the broadcast channel holds (10240 in the code)
    MaxErrors   \* bound: writes of a saver that fail

ASSUME SaveUpdateAssumption == IsFiniteSet(Conn) /\ Cap \in Nat /\ MaxErrors \in Nat

VARIABLES
    inst,       \* every instance so far: what is in it, what of it was published,
                \* the connections subscribed to it
    cache,      \* DocDBStorage.workspaces: the cached instance, 0 for none
    rows,       \* the operations in the workspace's rows
    exists,     \* the workspace has a row
    conn,       \* where handle_connector is
    ws,         \* the instance it holds
    applyWs,    \* the instance apply_change holds, 0 when that task is not running
    inbox,      \* what apply_change has received and not applied
    rx,         \* what waits for a saver in the channel
    lagged,     \* the channel has overwritten some of it
    hearing,    \* save_update's receiving task is running
    buf,        \* its `updates`, each a set of operations
    saver,      \* where save_update's loop is
    snap,       \* the full update its rebuild is about to write
    full,       \* the full update a migration is about to write
    migrated,   \* last_migrate has an entry
    sent,       \* history: operations clients sent
    saved,      \* history: operations ever written to a row
    failed,     \* history: operations a failing write dropped
    before      \* history: what had been published when a saver subscribed

memory == <<inst, cache>>
table == <<rows, exists>>
session == <<conn, ws, applyWs, inbox>>
saving == <<rx, lagged, hearing, buf, saver, snap>>
history == <<sent, saved, failed, before>>
migrating == <<full, migrated>>
vars == <<memory, table, session, saving, migrating, history>>

Instance == 1..Len(inst)
Published == UNION {inst[i].published : i \in Instance}

-----------------------------------------------------------------------------
(* get_or_create_workspace: the cached instance, or a new one from the rows, *)
(* under the cache's write lock.  Its publisher starts from what it loads.   *)

Loaded == [ops |-> rows, published |-> rows, subs |-> {}]
TheInstance == IF cache = 0 THEN Len(inst) + 1 ELSE cache
Contents == IF cache = 0 THEN rows ELSE inst[cache].ops
\* Mutant: the lookup misses the cache.
GetOrCreateAnew ==
    /\ inst' = Append(inst, Loaded)
    /\ cache' = Len(inst) + 1
    /\ exists' = TRUE
GetOrCreate ==
    /\ inst' = IF cache = 0 THEN Append(inst, Loaded) ELSE inst
    /\ cache' = TheInstance
    /\ exists' = (exists \/ cache = 0)

Init ==
    /\ inst = <<>>
    /\ cache = 0
    /\ rows = {}
    /\ exists = FALSE
    /\ conn = [c \in Conn |-> "off"]
    /\ ws = [c \in Conn |-> 0]
    /\ applyWs = [c \in Conn |-> 0]
    /\ inbox = [c \in Conn |-> {}]
    /\ rx = [c \in Conn |-> <<>>]
    /\ lagged = [c \in Conn |-> FALSE]
    /\ hearing = [c \in Conn |-> FALSE]
    /\ buf = [c \in Conn |-> {}]
    /\ saver = [c \in Conn |-> "off"]
    /\ snap = [c \in Conn |-> {}]
    /\ full = {}
    /\ migrated = FALSE
    /\ sent = {}
    /\ saved = {}
    /\ failed = {}
    /\ before = [c \in Conn |-> {}]

-----------------------------------------------------------------------------
(* The broadcast channel *)

\* A receiver that is more than Cap messages behind has lost some.
Broadcast(msgs) ==
    /\ rx' = [c \in Conn |-> IF hearing[c] THEN rx[c] \o msgs ELSE rx[c]]
    /\ lagged' = [c \in Conn |-> lagged[c] \/ (hearing[c] /\ Len(rx[c]) + Len(msgs) > Cap)]

Raw(ops) == [raw |-> {ops}, close |-> {}]
CloseUserMsg(c) == [raw |-> {}, close |-> {c}]

\* Every subscription of an instance calls back once and sends the change twice,
\* for the savers and for the clients; savers skip the second, so the two are
\* one message here.
Announce(ops, n) == [k \in 1..n |-> Raw(ops)]

-----------------------------------------------------------------------------
(* handle_connector, up to its loop *)

Open(c) ==
    /\ conn[c] = "off"
    /\ GetOrCreate
    /\ ws' = [ws EXCEPT ![c] = TheInstance]
    /\ conn' = [conn EXCEPT ![c] = "opening"]
    /\ UNCHANGED <<rows, applyWs, inbox, saving, migrating, history>>

\* apply_change looks the workspace up again, and panics if there is none.
StartApply(c) ==
    /\ conn[c] = "opening"
    /\ IF cache # 0 \/ exists
       THEN /\ GetOrCreate
            /\ applyWs' = [applyWs EXCEPT ![c] = TheInstance]
            /\ conn' = [conn EXCEPT ![c] = "applying"]
       ELSE /\ conn' = [conn EXCEPT ![c] = "done"]
            /\ UNCHANGED <<memory, exists, applyWs>>
    /\ UNCHANGED <<rows, ws, inbox, saving, migrating, history>>

\* join_broadcast: first the subscription to the document ...
Subscribe(c) ==
    /\ conn[c] = "applying"
    /\ inst' = [inst EXCEPT ![ws[c]].subs = @ \cup {c}]
    /\ conn' = [conn EXCEPT ![c] = "joining"]
    /\ UNCHANGED <<cache, table, ws, applyWs, inbox, saving, migrating, history>>

\* ... then the saver's to the channel.
StartSaver(c) ==
    /\ conn[c] = "joining"
    /\ hearing' = [hearing EXCEPT ![c] = TRUE]
    /\ saver' = [saver EXCEPT ![c] = "run"]
    /\ before' = [before EXCEPT ![c] = Published]
    /\ conn' = [conn EXCEPT ![c] = "init"]
    /\ UNCHANGED <<memory, table, ws, applyWs, inbox, rx, lagged, buf, snap, migrating,
                   sent, saved, failed>>

InitSent(c) ==
    /\ conn[c] = "init"
    /\ conn' = [conn EXCEPT ![c] = "open"]
    /\ UNCHANGED <<memory, table, ws, applyWs, inbox, saving, migrating, history>>

\* The socket is gone already: the handler returns at once.
InitFails(c) ==
    /\ conn[c] = "init"
    /\ conn' = [conn EXCEPT ![c] = "done"]
    /\ UNCHANGED <<memory, table, ws, applyWs, inbox, saving, migrating, history>>

-----------------------------------------------------------------------------
(* apply_change and the publisher *)

ReceiveOp(c, o) ==
    /\ conn[c] \in {"applying", "joining", "init", "open"}
    /\ o \notin sent
    /\ inbox' = [inbox EXCEPT ![c] = @ \cup {o}]
    /\ sent' = sent \cup {o}
    /\ UNCHANGED <<memory, table, conn, ws, applyWs, saving, migrating, saved, failed, before>>

\* After 100 ms, or when the socket is closed, "before exit".
ApplyInbox(c) ==
    /\ applyWs[c] # 0
    /\ inbox[c] # {}
    /\ inst' = [inst EXCEPT ![applyWs[c]].ops = @ \cup inbox[c]]
    /\ inbox' = [inbox EXCEPT ![c] = {}]
    /\ UNCHANGED <<cache, table, conn, ws, applyWs, saving, migrating, history>>

ApplyEnds(c) ==
    /\ applyWs[c] # 0
    /\ inbox[c] = {}
    /\ conn[c] \notin {"applying", "joining", "init", "open"}
    /\ applyWs' = [applyWs EXCEPT ![c] = 0]
    /\ UNCHANGED <<memory, table, conn, ws, inbox, saving, migrating, history>>

\* An instance nobody refers to is dropped, and its publisher with it.
Alive(i) ==
    \/ i = cache
    \/ \E c \in Conn : applyWs[c] = i \/ (ws[c] = i /\ conn[c] # "done")

Publish(i) ==
    /\ Alive(i)
    /\ inst[i].subs # {}
    /\ inst[i].ops # inst[i].published
    /\ inst' = [inst EXCEPT ![i].published = inst[i].ops]
    /\ Broadcast(Announce(inst[i].ops \ inst[i].published, Cardinality(inst[i].subs)))
    /\ UNCHANGED <<cache, table, session, hearing, buf, saver, snap, migrating, history>>

-----------------------------------------------------------------------------
(* The end of handle_connector: a full migration, then CloseUser *)

Disconnect(c) ==
    /\ conn[c] = "open"
    /\ conn' = [conn EXCEPT ![c] = "lost"]
    /\ UNCHANGED <<memory, table, ws, applyWs, inbox, saving, migrating, history>>

\* JwstStorage::full_migrate holds last_migrate to its end.
Migrating == \E c \in Conn : conn[c] \in {"migrate", "replace", "cleared"}

\* The first call only notes the time; a later one within 5 s does nothing.
SkipMigrate(c) ==
    /\ conn[c] = "lost"
    /\ ~Migrating
    /\ migrated' = TRUE
    /\ conn' = [conn EXCEPT ![c] = "closing"]
    /\ UNCHANGED <<memory, table, ws, applyWs, inbox, saving, full, history>>

StartMigrate(c) ==
    /\ conn[c] = "lost"
    /\ ~Migrating
    /\ migrated
    /\ GetOrCreate
    /\ full' = Contents
    /\ conn' = [conn EXCEPT ![c] = "migrate"]
    /\ UNCHANGED <<rows, ws, applyWs, inbox, saving, migrated, history>>

\* flush_workspace, which takes no lock: init_workspace inserts an empty row where
\* there is none; then replace_with, without a transaction, deletes the rows ...
FlushInit == exists' = TRUE /\ UNCHANGED rows
FlushClear == rows' = {} /\ exists' = FALSE
\* ... and inserts one.
FlushWrite(ops) ==
    /\ rows' = rows \cup ops
    /\ exists' = TRUE
    /\ saved' = saved \cup ops

MigrateInit(c) ==
    /\ conn[c] = "migrate"
    /\ FlushInit
    /\ conn' = [conn EXCEPT ![c] = "replace"]
    /\ UNCHANGED <<memory, ws, applyWs, inbox, saving, migrating, history>>

MigrateClear(c) ==
    /\ conn[c] = "replace"
    /\ FlushClear
    /\ conn' = [conn EXCEPT ![c] = "cleared"]
    /\ UNCHANGED <<memory, ws, applyWs, inbox, saving, migrating, history>>

MigrateWrite(c) ==
    /\ conn[c] = "cleared"
    /\ FlushWrite(full)
    /\ conn' = [conn EXCEPT ![c] = "closing"]
    /\ UNCHANGED <<memory, ws, applyWs, inbox, saving, migrating, sent, failed, before>>

\* Mutant: the handler returns without CloseUser.
CloseUserForgotten(c) ==
    /\ conn[c] = "closing"
    /\ conn' = [conn EXCEPT ![c] = "done"]
    /\ UNCHANGED <<memory, table, ws, applyWs, inbox, saving, migrating, history>>

CloseUser(c) ==
    /\ conn[c] = "closing"
    /\ Broadcast(<<CloseUserMsg(c)>>)
    /\ conn' = [conn EXCEPT ![c] = "done"]
    /\ UNCHANGED <<memory, table, ws, applyWs, inbox, hearing, buf, saver, snap, migrating, history>>

-----------------------------------------------------------------------------
(* save_update *)

\* Mutant: a message replaces what was collected before it.
HearOverwrites(c) ==
    /\ hearing[c]
    /\ ~lagged[c]
    /\ rx[c] # <<>>
    /\ buf' = [buf EXCEPT ![c] = Head(rx[c]).raw]
    /\ hearing' = [hearing EXCEPT ![c] = c \notin Head(rx[c]).close]
    /\ rx' = [rx EXCEPT ![c] = Tail(@)]
    /\ UNCHANGED <<memory, table, session, lagged, saver, snap, migrating, history>>

\* The receiving task stops at its user's end and at the first gap.
Hear(c) ==
    /\ hearing[c]
    /\ ~lagged[c]
    /\ rx[c] # <<>>
    /\ buf' = [buf EXCEPT ![c] = @ \cup Head(rx[c]).raw]
    /\ hearing' = [hearing EXCEPT ![c] = c \notin Head(rx[c]).close]
    /\ rx' = [rx EXCEPT ![c] = Tail(@)]
    /\ UNCHANGED <<memory, table, session, lagged, saver, snap, migrating, history>>

HearLag(c) ==
    /\ hearing[c]
    /\ lagged[c]
    /\ hearing' = [hearing EXCEPT ![c] = FALSE]
    /\ rx' = [rx EXCEPT ![c] = <<>>]
    /\ UNCHANGED <<memory, table, session, lagged, buf, saver, snap, migrating, history>>

\* Once a second: each update that has been collected is written ...
Save(c) ==
    /\ saver[c] = "run"
    /\ \E u \in buf[c] :
          /\ rows' = rows \cup u
          /\ saved' = saved \cup u
          /\ buf' = [buf EXCEPT ![c] = @ \ {u}]
    /\ exists' = TRUE
    /\ UNCHANGED <<memory, session, rx, lagged, hearing, saver, snap, migrating, sent, failed, before>>

\* ... and one that cannot be written is logged and forgotten.
SaveFails(c) ==
    /\ saver[c] = "run"
    /\ \E u \in buf[c] :
          /\ Cardinality(failed \cup u) <= MaxErrors
          /\ failed' = failed \cup u
          /\ buf' = [buf EXCEPT ![c] = @ \ {u}]
    /\ UNCHANGED <<memory, table, session, rx, lagged, hearing, saver, snap, migrating,
                   sent, saved, before>>

\* Mutant: the loop stops with its receiving task, whatever is collected.
SaverEndsEarly(c) ==
    /\ saver[c] = "run"
    /\ ~hearing[c]
    /\ saver' = [saver EXCEPT ![c] = IF lagged[c] THEN "rebuild" ELSE "done"]
    /\ UNCHANGED <<memory, table, session, rx, lagged, hearing, buf, snap, migrating, history>>

SaverEnds(c) ==
    /\ saver[c] = "run"
    /\ buf[c] = {}
    /\ ~hearing[c]
    /\ saver' = [saver EXCEPT ![c] = IF lagged[c] THEN "rebuild" ELSE "done"]
    /\ UNCHANGED <<memory, table, session, rx, lagged, hearing, buf, snap, migrating, history>>

\* The rebuild after a gap: a full update is taken, ...
RebuildRead(c) ==
    /\ saver[c] = "rebuild"
    /\ GetOrCreate
    /\ snap' = [snap EXCEPT ![c] = Contents]
    /\ saver' = [saver EXCEPT ![c] = "uncache"]
    /\ UNCHANGED <<rows, session, rx, lagged, hearing, buf, migrating, history>>

\* ... delete_workspace removes the workspace from the cache and then its rows, ...
RebuildUncache(c) ==
    /\ saver[c] = "uncache"
    /\ cache' = 0
    /\ saver' = [saver EXCEPT ![c] = "delete"]
    /\ UNCHANGED <<inst, table, session, rx, lagged, hearing, buf, snap, migrating, history>>

RebuildDelete(c) ==
    /\ saver[c] = "delete"
    /\ FlushClear
    /\ saver' = [saver EXCEPT ![c] = "flush"]
    /\ UNCHANGED <<memory, session, rx, lagged, hearing, buf, snap, migrating, history>>

\* ... and flush_workspace writes the full update.
RebuildInit(c) ==
    /\ saver[c] = "flush"
    /\ FlushInit
    /\ saver' = [saver EXCEPT ![c] = "replace"]
    /\ UNCHANGED <<memory, session, rx, lagged, hearing, buf, snap, migrating, history>>

RebuildClear(c) ==
    /\ saver[c] = "replace"
    /\ FlushClear
    /\ saver' = [saver EXCEPT ![c] = "write"]
    /\ UNCHANGED <<memory, session, rx, lagged, hearing, buf, snap, migrating, history>>

RebuildWrite(c) ==
    /\ saver[c] = "write"
    /\ FlushWrite(snap[c])
    /\ saver' = [saver EXCEPT ![c] = "done"]
    /\ UNCHANGED <<memory, session, rx, lagged, hearing, buf, snap, migrating, sent, failed, before>>

-----------------------------------------------------------------------------
HandlerStep(c) ==
    \/ StartApply(c) \/ Subscribe(c) \/ StartSaver(c) \/ InitSent(c)
    \/ SkipMigrate(c) \/ StartMigrate(c)
    \/ MigrateInit(c) \/ MigrateClear(c) \/ MigrateWrite(c) \/ CloseUser(c)
ApplyStep(c) == ApplyInbox(c) \/ ApplyEnds(c)
HearStep(c) == Hear(c) \/ HearLag(c)
SaverStep(c) ==
    \/ Save(c) \/ SaverEnds(c)
    \/ RebuildRead(c) \/ RebuildUncache(c) \/ RebuildDelete(c)
    \/ RebuildInit(c) \/ RebuildClear(c) \/ RebuildWrite(c)

Next ==
    \/ \E c \in Conn :
          \/ Open(c) \/ InitFails(c) \/ Disconnect(c)
          \/ (\E o \in Op : ReceiveOp(c, o))
          \/ SaveFails(c)
          \/ HandlerStep(c) \/ ApplyStep(c) \/ HearStep(c) \/ SaverStep(c)
    \/ \E i \in Instance : Publish(i)

\* Tasks the runtime keeps scheduling, and the publisher's thread; clients need
\* neither come, nor send, nor leave.
Fairness ==
    /\ \A c \in Conn : /\ WF_vars(HandlerStep(c)) /\ WF_vars(ApplyStep(c))
                       /\ WF_vars(HearStep(c)) /\ WF_vars(SaverStep(c))
    /\ WF_vars(\E i \in Instance : Publish(i))

Spec == Init /\ [][Next]_vars /\ Fairness

-----------------------------------------------------------------------------
(* Properties *)

Joined(c) == conn[c] \in {"opening", "applying", "joining", "init", "open"}
OnItsWay(c) == UNION (buf[c] \cup UNION {rx[c][k].raw : k \in DOMAIN rx[c]})

\* Types, and nothing is made up: a publisher announces what is in its document,
\* and documents, messages, snapshots and rows hold only what clients sent.
TypeOK ==
    /\ \A i \in Instance : /\ inst[i].published \subseteq inst[i].ops
                           /\ inst[i].ops \subseteq sent
                           /\ inst[i].subs \subseteq Conn
    /\ cache \in Instance \cup {0}
    /\ \A c \in Conn : {ws[c], applyWs[c]} \subseteq Instance \cup {0}
    /\ rows \subseteq saved
    /\ saved \cup failed \subseteq sent
    /\ exists \/ rows = {}
    /\ \A c \in Conn : OnItsWay(c) \cup snap[c] \subseteq sent

\* A saver that has kept up has missed nothing: whatever any instance published
\* since the saver subscribed was written, was refused by the database, or is
\* on its way in its channel or its buffer.
NothingSkipped ==
    \A c \in Conn : hearing[c] /\ ~lagged[c] =>
        Published \ before[c] \subseteq saved \cup failed \cup OnItsWay(c)

\* Until a saver falls behind the connections of a workspace edit one document,
\* migrations or not: each handler and each apply_change task holds the cached
\* instance.  (A rebuild takes it out of the cache under their hands.)
OneInstance ==
    (\A c \in Conn : ~lagged[c]) => \A c \in Conn : /\ Joined(c) => ws[c] = cache
                    /\ applyWs[c] # 0 => applyWs[c] = cache

\* What is published between the start of a connection's saver and the
\* connection's CloseUser is written sooner or later, also when the client has
\* left meanwhile, unless the saver falls behind.
Served(c) == conn[c] \in {"init", "open", "lost", "migrate", "replace", "cleared", "closing"}
ChangesAreSaved ==
    \A c \in Conn, o \in Op :
        (Served(c) /\ o \in Published \ before[c])
            ~> (o \in saved \cup failed \/ lagged[c])

\* The saver of a connection that closed comes to its end, by way of a rebuild
\* if it had fallen behind.
SaversFinish ==
    \A c \in Conn : conn[c] = "closing" ~> saver[c] = "done"
=============================================================================
