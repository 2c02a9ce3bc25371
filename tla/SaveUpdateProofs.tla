-------------------------- MODULE SaveUpdateProofs --------------------------
(***************************************************************************)
(* NothingSkipped for any number of connections and operations and any     *)
(* capacity of the channel.                                                *)
(***************************************************************************)
EXTENDS SaveUpdate, TLAPS, FiniteSetTheorems

Inst == [ops : SUBSET Op, published : SUBSET Op, subs : SUBSET Conn]
Message == [raw : SUBSET (SUBSET Op), close : SUBSET Conn]

\* What the argument needs to know of the types: what is published and heard.
Types ==
    /\ inst \in Seq(Inst)
    /\ rx \in [Conn -> Seq(Message)]
    /\ buf \in [Conn -> SUBSET (SUBSET Op)]
    /\ lagged \in [Conn -> BOOLEAN]
    /\ hearing \in [Conn -> BOOLEAN]
    /\ before \in [Conn -> SUBSET Op]
    /\ inbox \in [Conn -> SUBSET Op]
    /\ rows \in SUBSET Op
    /\ cache \in 0..Len(inst)
    /\ snap \in [Conn -> SUBSET Op]
    /\ full \in SUBSET Op

\* A new instance publishes nothing of its rows again, so they must have been
\* written before: that makes NothingSkipped inductive.
Skips == Types /\ rows \subseteq saved /\ NothingSkipped

-----------------------------------------------------------------------------
(* How the steps change what has been published *)

\* What is in Published was published by an instance.
LEMMA InPublished ==
    ASSUME NEW o
    PROVE  o \in Published <=> \E i \in Instance : o \in inst[i].published
BY DEF Published

\* GetOrCreate publishes no more than the rows.
LEMMA GetPublishes ==
    ASSUME Types, GetOrCreate
    PROVE  /\ inst' \in Seq(Inst) /\ cache' \in 0..Len(inst')
           /\ Contents \in SUBSET Op
           /\ Published' \subseteq Published \cup rows
<1>1. CASE cache # 0
  <2>1. inst' = inst /\ cache' = cache
    BY <1>1 DEF GetOrCreate, TheInstance
  <2>2. inst[cache] \in Inst
    BY <1>1 DEF Types
  <2> QED
    BY <1>1, <2>1, <2>2 DEF Types, Published, Instance, Contents, Inst
<1>2. CASE cache = 0
  <2>1. Loaded \in Inst
    BY DEF Loaded, Inst, Types
  <2>2. inst' = Append(inst, Loaded)
    BY <1>2 DEF GetOrCreate
  <2>3. inst' \in Seq(Inst) /\ Len(inst') = Len(inst) + 1
    BY <2>1, <2>2 DEF Types
  <2>4. \A i \in 1..Len(inst') : inst'[i] = IF i \in Instance THEN inst[i] ELSE Loaded
    BY <2>1, <2>2 DEF Types, Instance
  <2>5. ASSUME NEW o \in Published'
        PROVE  o \in Published \cup rows
    <3>1. PICK i \in 1..Len(inst') : o \in inst'[i].published
      BY DEF Published, Instance
    <3>2. CASE i \in Instance
      BY <3>1, <3>2, <2>4 DEF Published
    <3>3. CASE i \notin Instance
      BY <3>1, <3>3, <2>4 DEF Loaded
    <3> QED
      BY <3>2, <3>3
  <2> QED
    BY <1>2, <2>3, <2>5 DEF GetOrCreate, TheInstance, Contents, Types
<1> QED
  BY <1>1, <1>2

\* A change of an instance that leaves `published` alone publishes nothing.
LEMMA EditPublishes ==
    ASSUME Types, NEW k,
           \/ \E c \in Conn : inst' = [inst EXCEPT ![k].subs = @ \cup {c}]
           \/ \E s \in SUBSET Op : inst' = [inst EXCEPT ![k].ops = @ \cup s]
    PROVE  inst' \in Seq(Inst) /\ Len(inst') = Len(inst) /\ Published' = Published
<1>1. inst \in [1..Len(inst) -> Inst] /\ Len(inst) \in Nat
  BY DEF Types
<1>2. inst' \in [1..Len(inst) -> Inst]
  BY <1>1 DEF Inst
<1>3. \A i \in 1..Len(inst) : inst'[i].published = inst[i].published
  BY <1>1 DEF Inst
<1>4. inst' \in Seq(Inst) /\ Len(inst') = Len(inst)
  BY <1>1, <1>2
<1>5. \A o : o \in Published' <=> o \in Published
  BY <1>3, <1>4 DEF Published, Instance
<1> QED
  BY <1>4, <1>5

-----------------------------------------------------------------------------
(* How the steps change what is on its way to a saver *)

\* What is on its way to a saver is in its buffer or in a message.
LEMMA InOnItsWay ==
    ASSUME NEW c \in Conn, NEW o
    PROVE  o \in OnItsWay(c) <=>
             \E u : o \in u /\ (u \in buf[c] \/ \E k \in DOMAIN rx[c] : u \in rx[c][k].raw)
BY DEF OnItsWay

\* A step that leaves the savers alone and publishes only what was written.
LEMMA QuietStep ==
    ASSUME Skips, UNCHANGED <<rx, lagged, hearing, buf, before>>,
           Published' \subseteq Published \cup saved,
           saved \subseteq saved', failed \subseteq failed'
    PROVE  NothingSkipped'
<1> SUFFICES ASSUME NEW c \in Conn, hearing[c], ~lagged[c]
             PROVE  (Published \ before[c])' \subseteq (saved \cup failed \cup OnItsWay(c))'
  BY DEF NothingSkipped
<1>1. OnItsWay(c)' = OnItsWay(c)
  BY DEF OnItsWay
<1>2. Published \ before[c] \subseteq saved \cup failed \cup OnItsWay(c)
  BY DEF Skips, NothingSkipped
<1> QED
  BY <1>1, <1>2

\* A broadcast adds its messages to what every listening saver will hear.
LEMMA BroadcastAdds ==
    ASSUME Types, NEW msgs \in Seq(Message), Broadcast(msgs), UNCHANGED buf
    PROVE  /\ rx' \in [Conn -> Seq(Message)]
           /\ lagged' \in [Conn -> BOOLEAN]
           /\ \A c \in Conn : hearing[c] =>
                /\ lagged[c] => lagged'[c]
                /\ OnItsWay(c) \subseteq OnItsWay(c)'
                /\ \A k \in DOMAIN msgs : \A u \in msgs[k].raw : u \subseteq OnItsWay(c)'
<1>1. /\ rx' = [c \in Conn |-> IF hearing[c] THEN rx[c] \o msgs ELSE rx[c]]
      /\ lagged' = [c \in Conn |-> lagged[c] \/ (hearing[c] /\ Len(rx[c]) + Len(msgs) > Cap)]
  BY DEF Broadcast
<1>2. rx' \in [Conn -> Seq(Message)] /\ lagged' \in [Conn -> BOOLEAN]
  BY <1>1 DEF Types
<1>3. ASSUME NEW c \in Conn, hearing[c]
      PROVE  /\ lagged[c] => lagged'[c]
             /\ OnItsWay(c) \subseteq OnItsWay(c)'
             /\ \A k \in DOMAIN msgs : \A u \in msgs[k].raw : u \subseteq OnItsWay(c)'
  <2>1. rx'[c] = rx[c] \o msgs /\ rx[c] \in Seq(Message)
    BY <1>1, <1>3 DEF Types
  <2>2. \A k \in DOMAIN rx[c] : k \in DOMAIN rx'[c] /\ rx'[c][k] = rx[c][k]
    BY <2>1
  <2>3. \A k \in DOMAIN msgs : Len(rx[c]) + k \in DOMAIN rx'[c] /\ rx'[c][Len(rx[c]) + k] = msgs[k]
    BY <2>1
  <2>4. ASSUME NEW o \in OnItsWay(c)
        PROVE  o \in OnItsWay(c)'
    BY <2>2 DEF OnItsWay
  <2>5. ASSUME NEW k \in DOMAIN msgs, NEW u \in msgs[k].raw
        PROVE  u \subseteq OnItsWay(c)'
    BY <2>3 DEF OnItsWay
  <2>6. lagged[c] => lagged'[c]
    BY <1>1
  <2> QED
    BY <2>4, <2>5, <2>6
<1> QED
  BY <1>2, <1>3

-----------------------------------------------------------------------------
(* The steps that matter: publishing, hearing and writing *)

\* An announcement to at least one subscriber carries the change.
LEMMA AnnounceCarries ==
    ASSUME NEW ops \in SUBSET Op, NEW n \in Nat, n >= 1
    PROVE  /\ Announce(ops, n) \in Seq(Message)
           /\ 1 \in DOMAIN Announce(ops, n) /\ ops \in Announce(ops, n)[1].raw
<1>1. Raw(ops) \in Message /\ ops \in Raw(ops).raw
  BY DEF Raw, Message
<1> DEFINE R == Raw(ops)
           msgs == [k \in 1..n |-> R]
<1>2. msgs = Announce(ops, n)
  BY DEF Announce
<1> HIDE DEF R
<1>3. msgs \in [1..n -> Message]
  BY <1>1 DEF R
<1>4. 1 \in DOMAIN msgs /\ msgs[1] = R
  OBVIOUS
<1>5. msgs \in Seq(Message)
  BY <1>3
<1> QED
  BY <1>1, <1>2, <1>4, <1>5 DEF R

\* What an instance publishes is in at least one message to every saver.
LEMMA PublishKeeps ==
    ASSUME Skips, NEW i \in Instance, Publish(i)
    PROVE  Skips'
<1> DEFINE D == inst[i].ops \ inst[i].published
           n == Cardinality(inst[i].subs)
           msgs == Announce(D, n)
<1>1. inst[i] \in Inst /\ i \in DOMAIN inst /\ inst \in [1..Len(inst) -> Inst] /\ Len(inst) \in Nat
  BY DEF Skips, Types, Instance
<1>2. n \in Nat /\ n >= 1
  <2>1. IsFiniteSet(inst[i].subs) /\ inst[i].subs # {}
    BY <1>1, SaveUpdateAssumption, FS_Subset DEF Inst, Publish
  <2> QED
    BY <2>1, FS_CardinalityType, FS_EmptySet
<1>3. D \in SUBSET Op
  BY <1>1 DEF Inst
<1>4. msgs \in Seq(Message) /\ 1 \in DOMAIN msgs /\ D \in msgs[1].raw
  <2> HIDE DEF D, n
  <2> QED
    BY <1>2, <1>3, AnnounceCarries
<1>5. Broadcast(msgs) /\ UNCHANGED <<hearing, buf, before, rows, saved, failed, inbox, cache, snap, full>>
  BY DEF Publish, table, session, history, migrating
<1>6. /\ rx' \in [Conn -> Seq(Message)]
      /\ lagged' \in [Conn -> BOOLEAN]
      /\ \A c \in Conn : hearing[c] =>
           /\ lagged[c] => lagged'[c]
           /\ OnItsWay(c) \subseteq OnItsWay(c)'
           /\ D \subseteq OnItsWay(c)'
  BY <1>4, <1>5, BroadcastAdds DEF Skips
<1>7. inst' = [inst EXCEPT ![i].published = inst[i].ops]
  BY DEF Publish
<1>8. inst' \in [1..Len(inst) -> Inst]
  BY <1>1, <1>7 DEF Inst
<1>9. inst' \in Seq(Inst) /\ Len(inst') = Len(inst)
  BY <1>1, <1>8
<1>10. ASSUME NEW o \in Published'
       PROVE  o \in Published \cup D
  <2>1. PICK j \in 1..Len(inst) : o \in inst'[j].published
    BY <1>9 DEF Published, Instance
  <2>2. CASE j = i
    BY <1>1, <1>7, <2>1, <2>2 DEF Published, Inst
  <2>3. CASE j # i
    BY <1>1, <1>7, <2>1, <2>3 DEF Published, Instance
  <2> QED
    BY <2>2, <2>3
<1>11. ASSUME NEW c \in Conn, hearing'[c], ~lagged'[c]
       PROVE  (Published \ before[c])' \subseteq (saved \cup failed \cup OnItsWay(c))'
  <2>1. hearing[c] /\ ~lagged[c]
    BY <1>5, <1>6, <1>11
  <2>2. Published \ before[c] \subseteq saved \cup failed \cup OnItsWay(c)
    BY <2>1 DEF Skips, NothingSkipped
  <2> QED
    BY <1>5, <1>6, <1>10, <2>1, <2>2
<1>12. Types'
  BY <1>5, <1>6, <1>9 DEF Skips, Types
<1> QED
  BY <1>5, <1>11, <1>12 DEF Skips, NothingSkipped

\* CloseUser reaches every saver and publishes nothing.
LEMMA CloseUserKeeps ==
    ASSUME Skips, NEW d \in Conn, CloseUser(d)
    PROVE  Skips'
<1>1. <<CloseUserMsg(d)>> \in Seq(Message)
  BY DEF CloseUserMsg, Message
<1>2. /\ Broadcast(<<CloseUserMsg(d)>>)
      /\ UNCHANGED <<inst, hearing, buf, before, rows, saved, failed, inbox, cache, snap, full>>
  BY DEF CloseUser, memory, table, history, migrating
<1>3. /\ rx' \in [Conn -> Seq(Message)]
      /\ lagged' \in [Conn -> BOOLEAN]
      /\ \A c \in Conn : hearing[c] =>
           (lagged[c] => lagged'[c]) /\ OnItsWay(c) \subseteq OnItsWay(c)'
  BY <1>1, <1>2, BroadcastAdds DEF Skips
<1>4. Published' = Published
  BY <1>2 DEF Published, Instance
<1>5. ASSUME NEW c \in Conn, hearing'[c], ~lagged'[c]
      PROVE  (Published \ before[c])' \subseteq (saved \cup failed \cup OnItsWay(c))'
  <2>1. Published \ before[c] \subseteq saved \cup failed \cup OnItsWay(c)
    BY <1>2, <1>3, <1>5 DEF Skips, NothingSkipped
  <2> QED
    BY <1>2, <1>3, <1>4, <1>5, <2>1
<1>6. Types'
  BY <1>2, <1>3 DEF Skips, Types
<1> QED
  BY <1>2, <1>5, <1>6 DEF Skips, NothingSkipped

\* A saver answers for what is published from now on.
LEMMA StartSaverKeeps ==
    ASSUME Skips, NEW d \in Conn, StartSaver(d)
    PROVE  Skips'
<1>1. /\ UNCHANGED <<inst, rx, lagged, buf, rows, saved, failed, inbox, cache, snap, full>>
      /\ hearing' = [hearing EXCEPT ![d] = TRUE]
      /\ before' = [before EXCEPT ![d] = Published]
  BY DEF StartSaver, memory, table, migrating
<1>2. Published' = Published
  BY <1>1 DEF Published, Instance
<1>3. Published \in SUBSET Op
  <2>1. \A i \in Instance : inst[i].published \subseteq Op
    <3>1. \A i \in Instance : inst[i] \in Inst
      BY DEF Instance, Skips, Types
    <3> QED
      BY <3>1 DEF Inst
  <2> QED
    BY <2>1 DEF Published
<1>4. ASSUME NEW c \in Conn, hearing'[c], ~lagged'[c]
      PROVE  (Published \ before[c])' \subseteq (saved \cup failed \cup OnItsWay(c))'
  <2>1. CASE c = d
    BY <1>1, <1>2, <2>1 DEF Skips, Types
  <2>2. CASE c # d
    <3>1. Published \ before[c] \subseteq saved \cup failed \cup OnItsWay(c)
      BY <1>1, <1>4, <2>2 DEF Skips, Types, NothingSkipped
    <3>2. before'[c] = before[c] /\ OnItsWay(c)' = OnItsWay(c)
      BY <1>1, <2>2 DEF OnItsWay, Skips, Types
    <3> QED
      BY <1>1, <1>2, <3>1, <3>2
  <2> QED
    BY <2>1, <2>2
<1>5. Types'
  BY <1>1, <1>3 DEF Skips, Types
<1> QED
  BY <1>1, <1>4, <1>5 DEF Skips, NothingSkipped

\* What leaves the channel is in the buffer.
LEMMA HearKeeps ==
    ASSUME Skips, NEW d \in Conn, Hear(d)
    PROVE  Skips'
<1>1. /\ UNCHANGED <<inst, lagged, before, rows, saved, failed, inbox, cache, snap, full>>
      /\ rx[d] # <<>> /\ hearing[d]
      /\ buf' = [buf EXCEPT ![d] = @ \cup Head(rx[d]).raw]
      /\ hearing' = [hearing EXCEPT ![d] = d \notin Head(rx[d]).close]
      /\ rx' = [rx EXCEPT ![d] = Tail(@)]
  BY DEF Hear, memory, table, session, history, migrating
<1>2. rx[d] \in Seq(Message) /\ Head(rx[d]) \in Message /\ Tail(rx[d]) \in Seq(Message)
  BY <1>1 DEF Skips, Types
<1>3. Types'
  <2>1. rx' \in [Conn -> Seq(Message)]
    BY <1>1, <1>2 DEF Skips, Types
  <2>2. buf' \in [Conn -> SUBSET (SUBSET Op)]
    BY <1>1, <1>2 DEF Skips, Types, Message
  <2>3. hearing' \in [Conn -> BOOLEAN]
    BY <1>1 DEF Skips, Types
  <2> QED
    BY <1>1, <2>1, <2>2, <2>3 DEF Skips, Types
<1>4. Published' = Published
  BY <1>1 DEF Published, Instance
<1>5. ASSUME NEW c \in Conn
      PROVE  OnItsWay(c) \subseteq OnItsWay(c)'
  <2>1. CASE c # d
    BY <1>1, <2>1 DEF OnItsWay, Skips, Types
  <2>2. CASE c = d
    <3>1. /\ buf'[d] = buf[d] \cup rx[d][1].raw
          /\ \A k \in DOMAIN rx[d] : k # 1 => k - 1 \in DOMAIN rx'[d] /\ rx'[d][k - 1] = rx[d][k]
      BY <1>1, <1>2 DEF Skips, Types
    <3>2. ASSUME NEW o \in OnItsWay(d)
          PROVE  o \in OnItsWay(d)'
      <4>1. PICK u : o \in u /\ (u \in buf[d] \/ \E k \in DOMAIN rx[d] : u \in rx[d][k].raw)
        BY InOnItsWay
      <4>2. u \in buf'[d] \/ \E k \in DOMAIN rx'[d] : u \in rx'[d][k].raw
        BY <3>1, <4>1
      <4> QED
        BY <4>1, <4>2 DEF OnItsWay
    <3> QED
      BY <2>2, <3>2
  <2> QED
    BY <2>1, <2>2
<1>6. ASSUME NEW c \in Conn, hearing'[c], ~lagged'[c]
      PROVE  (Published \ before[c])' \subseteq (saved \cup failed \cup OnItsWay(c))'
  <2>1. hearing[c]
    BY <1>1, <1>6 DEF Skips, Types
  <2>2. Published \ before[c] \subseteq saved \cup failed \cup OnItsWay(c)
    BY <1>1, <1>6, <2>1 DEF Skips, NothingSkipped
  <2> QED
    BY <1>1, <1>4, <1>5, <2>2
<1> QED
  BY <1>1, <1>3, <1>6 DEF Skips, NothingSkipped

\* A saver that meets a gap listens no more.
LEMMA HearLagKeeps ==
    ASSUME Skips, NEW d \in Conn, HearLag(d)
    PROVE  Skips'
<1>1. /\ UNCHANGED <<inst, lagged, buf, before, rows, saved, failed, inbox, cache, snap, full>>
      /\ hearing' = [hearing EXCEPT ![d] = FALSE]
      /\ rx' = [rx EXCEPT ![d] = <<>>]
  BY DEF HearLag, memory, table, session, history, migrating
<1>2. Types'
  <2>1. <<>> \in Seq(Message)
    OBVIOUS
  <2> QED
    BY <1>1, <2>1 DEF Skips, Types
<1>3. Published' = Published
  BY <1>1 DEF Published, Instance
<1>4. ASSUME NEW c \in Conn, hearing'[c], ~lagged'[c]
      PROVE  (Published \ before[c])' \subseteq (saved \cup failed \cup OnItsWay(c))'
  <2>1. c # d /\ hearing[c]
    BY <1>1, <1>4 DEF Skips, Types
  <2>2. OnItsWay(c)' = OnItsWay(c)
    BY <1>1, <2>1 DEF OnItsWay, Skips, Types
  <2>3. Published \ before[c] \subseteq saved \cup failed \cup OnItsWay(c)
    BY <1>1, <1>4, <2>1 DEF Skips, NothingSkipped
  <2> QED
    BY <1>1, <1>3, <2>2, <2>3
<1> QED
  BY <1>1, <1>2, <1>4 DEF Skips, NothingSkipped

\* What leaves the buffer is written or given up.
LEMMA SaveKeeps ==
    ASSUME Skips, NEW d \in Conn, Save(d) \/ SaveFails(d)
    PROVE  Skips'
<1>1. PICK u \in buf[d] :
        /\ UNCHANGED <<inst, rx, hearing, lagged, before, inbox, cache, snap, full>>
        /\ buf' = [buf EXCEPT ![d] = @ \ {u}]
        /\ \/ rows' = rows \cup u /\ saved' = saved \cup u /\ UNCHANGED failed
           \/ UNCHANGED <<rows, saved>> /\ failed' = failed \cup u
  BY DEF Save, SaveFails, memory, table, session, migrating
<1>2. u \in SUBSET Op
  BY <1>1 DEF Skips, Types
<1>3. Types'
  BY <1>1, <1>2 DEF Skips, Types
<1>4. Published' = Published
  BY <1>1 DEF Published, Instance
<1>5. ASSUME NEW c \in Conn
      PROVE  OnItsWay(c) \subseteq OnItsWay(c)' \cup u
  <2>1. buf[c] \ {u} \subseteq buf'[c]
    BY <1>1 DEF Skips, Types
  <2> QED
    BY <1>1, <2>1 DEF OnItsWay
<1>6. ASSUME NEW c \in Conn, hearing'[c], ~lagged'[c]
      PROVE  (Published \ before[c])' \subseteq (saved \cup failed \cup OnItsWay(c))'
  <2>1. Published \ before[c] \subseteq saved \cup failed \cup OnItsWay(c)
    BY <1>1, <1>6 DEF Skips, NothingSkipped
  <2> QED
    BY <1>1, <1>4, <1>5, <2>1
<1>7. rows' \subseteq saved'
  BY <1>1 DEF Skips
<1> QED
  BY <1>3, <1>6, <1>7 DEF Skips, NothingSkipped

-----------------------------------------------------------------------------
(* The steps that leave the savers alone *)

\* Steps that neither publish nor write.
LEMMA IdleSteps ==
    ASSUME Skips,
           UNCHANGED <<inst, cache, rows, rx, lagged, hearing, buf, snap, full, saved, failed, before>>,
           inbox' \in [Conn -> SUBSET Op]
    PROVE  Skips'
<1>1. Published' = Published
  BY DEF Published, Instance
<1>2. Types'
  BY DEF Skips, Types
<1> QED
  BY <1>1, <1>2, QuietStep DEF Skips

\* Steps that look the workspace up, and may take its full update.
LEMMA LookupSteps ==
    ASSUME Skips, GetOrCreate, UNCHANGED <<rows, rx, lagged, hearing, buf, saved, failed, before, inbox>>,
           \/ UNCHANGED <<snap, full>>
           \/ UNCHANGED snap /\ full' = Contents
           \/ \E c \in Conn : snap' = [snap EXCEPT ![c] = Contents] /\ UNCHANGED full
    PROVE  Skips'
<1>1. /\ inst' \in Seq(Inst) /\ cache' \in 0..Len(inst')
      /\ Contents \in SUBSET Op
      /\ Published' \subseteq Published \cup rows
  BY GetPublishes DEF Skips
<1>2. Types'
  BY <1>1 DEF Skips, Types
<1>3. Published' \subseteq Published \cup saved
  BY <1>1 DEF Skips
<1> QED
  BY <1>2, <1>3, QuietStep DEF Skips

\* Steps that change an instance without publishing.
LEMMA EditSteps ==
    ASSUME Skips, NEW c \in Conn, Subscribe(c) \/ ApplyInbox(c)
    PROVE  Skips'
<1>1. /\ UNCHANGED <<cache, rows, rx, lagged, hearing, buf, snap, full, saved, failed, before>>
      /\ inbox' \in [Conn -> SUBSET Op]
  BY DEF Subscribe, ApplyInbox, table, saving, migrating, history, Skips, Types
<1>2. inst' \in Seq(Inst) /\ Len(inst') = Len(inst) /\ Published' = Published
  <2>1. CASE Subscribe(c)
    BY <2>1, EditPublishes DEF Subscribe, Skips
  <2>2. CASE ApplyInbox(c)
    <3>1. inbox[c] \in SUBSET Op /\ inst' = [inst EXCEPT ![applyWs[c]].ops = @ \cup inbox[c]]
      BY <2>2 DEF ApplyInbox, Skips, Types
    <3> QED
      BY <3>1, EditPublishes DEF Skips
  <2> QED
    BY <2>1, <2>2
<1>3. Types'
  BY <1>1, <1>2 DEF Skips, Types
<1> QED
  BY <1>1, <1>2, <1>3, QuietStep DEF Skips

\* Steps of a rewrite of the table.
LEMMA TableSteps ==
    ASSUME Skips,
           \/ FlushInit /\ UNCHANGED saved
           \/ FlushClear /\ UNCHANGED saved
           \/ \E s \in SUBSET Op : FlushWrite(s),
           UNCHANGED <<inst, cache, rx, lagged, hearing, buf, snap, full, failed, before, inbox>>
    PROVE  Skips'
<1>1. Published' = Published
  BY DEF Published, Instance
<1>2. Types' /\ rows' \subseteq saved' /\ saved \subseteq saved'
  BY DEF Skips, Types, FlushInit, FlushClear, FlushWrite
<1> QED
  BY <1>1, <1>2, QuietStep DEF Skips

-----------------------------------------------------------------------------
(* The invariant *)

\* At first nobody listens.
LEMMA InitSkips == Init => Skips
<1> SUFFICES ASSUME Init PROVE Skips
  OBVIOUS
<1>1. inst \in Seq(Inst) /\ Len(inst) = 0
  BY DEF Init
<1>2. rx \in [Conn -> Seq(Message)]
  BY DEF Init
<1>3. Types
  BY <1>1, <1>2 DEF Init, Types
<1>4. NothingSkipped
  BY DEF Init, NothingSkipped
<1> QED
  BY <1>3, <1>4 DEF Init, Skips

\* Every step of a connection keeps the invariant.
LEMMA ConnectionSkips ==
    ASSUME Skips, NEW c \in Conn,
           \/ Open(c) \/ InitFails(c) \/ Disconnect(c)
           \/ (\E o \in Op : ReceiveOp(c, o))
           \/ SaveFails(c)
           \/ HandlerStep(c) \/ ApplyStep(c) \/ HearStep(c) \/ SaverStep(c)
    PROVE  Skips'
<1>1. CASE \/ InitFails(c) \/ Disconnect(c) \/ InitSent(c) \/ SkipMigrate(c)
           \/ ApplyEnds(c) \/ SaverEnds(c) \/ (\E o \in Op : ReceiveOp(c, o))
  <2>1. UNCHANGED <<inst, cache, rows, rx, lagged, hearing, buf, snap, full, saved, failed, before>>
    BY <1>1 DEF InitFails, Disconnect, InitSent, SkipMigrate, ApplyEnds, SaverEnds, ReceiveOp,
                memory, table, session, saving, migrating, history
  <2>2. inbox' \in [Conn -> SUBSET Op]
    <3>1. CASE \E o \in Op : ReceiveOp(c, o)
      BY <3>1 DEF ReceiveOp, Skips, Types
    <3>2. CASE ~\E o \in Op : ReceiveOp(c, o)
      BY <1>1, <3>2 DEF InitFails, Disconnect, InitSent, SkipMigrate, ApplyEnds, SaverEnds,
                        session, Skips, Types
    <3> QED
      BY <3>1, <3>2
  <2> QED
    BY <2>1, <2>2, IdleSteps
<1>2. CASE StartApply(c)
  <2>1. UNCHANGED <<rows, rx, lagged, hearing, buf, snap, full, saved, failed, before, inbox>>
    BY <1>2 DEF StartApply, saving, migrating, history
  <2>2. CASE cache # 0 \/ exists
    BY <1>2, <2>1, <2>2, LookupSteps DEF StartApply
  <2>3. CASE ~(cache # 0 \/ exists)
    BY <1>2, <2>1, <2>3, IdleSteps DEF StartApply, memory, Skips, Types
  <2> QED
    BY <2>2, <2>3
<1>3. CASE Open(c) \/ StartMigrate(c) \/ RebuildRead(c)
  BY <1>3, LookupSteps
     DEF Open, StartMigrate, RebuildRead, saving, migrating, history, session
<1>4. CASE Subscribe(c) \/ ApplyInbox(c)
  BY <1>4, EditSteps
<1>5. CASE StartSaver(c)
  BY <1>5, StartSaverKeeps
<1>6. CASE MigrateInit(c) \/ MigrateClear(c) \/ RebuildDelete(c) \/ RebuildInit(c) \/ RebuildClear(c)
  BY <1>6, TableSteps
     DEF MigrateInit, MigrateClear, RebuildDelete, RebuildInit, RebuildClear,
         memory, session, saving, migrating, history
<1>7. CASE MigrateWrite(c) \/ RebuildWrite(c)
  <2>1. \E s \in SUBSET Op : FlushWrite(s)
    BY <1>7 DEF MigrateWrite, RebuildWrite, Skips, Types
  <2>2. UNCHANGED <<inst, cache, rx, lagged, hearing, buf, snap, full, failed, before, inbox>>
    BY <1>7 DEF MigrateWrite, RebuildWrite, memory, session, saving, migrating
  <2> QED
    BY <2>1, <2>2, TableSteps
<1>8. CASE CloseUser(c)
  BY <1>8, CloseUserKeeps
<1>9. CASE HearStep(c)
  BY <1>9, HearKeeps, HearLagKeeps DEF HearStep
<1>10. CASE Save(c) \/ SaveFails(c)
  BY <1>10, SaveKeeps
<1>11. CASE RebuildUncache(c)
  <2>1. /\ UNCHANGED <<inst, rows, rx, lagged, hearing, buf, snap, full, saved, failed, before, inbox>>
        /\ cache' = 0
    BY <1>11 DEF RebuildUncache, table, session, migrating, history
  <2>2. Published' = Published
    BY <2>1 DEF Published, Instance
  <2>3. Types'
    BY <2>1 DEF Skips, Types
  <2> QED
    BY <2>1, <2>2, <2>3, QuietStep DEF Skips
<1> QED
  BY <1>1, <1>2, <1>3, <1>4, <1>5, <1>6, <1>7, <1>8, <1>9, <1>10, <1>11
     DEF HandlerStep, ApplyStep, SaverStep

\* Every step keeps the invariant.
LEMMA NextSkips == Skips /\ [Next]_vars => Skips'
<1> SUFFICES ASSUME Skips, [Next]_vars PROVE Skips'
  OBVIOUS
<1>1. CASE Next
  BY <1>1, ConnectionSkips, PublishKeeps DEF Next
<1>2. CASE UNCHANGED vars
  <2>1. UNCHANGED <<inst, cache, rows, rx, lagged, hearing, buf, snap, full, saved, failed, before, inbox>>
    BY <1>2 DEF vars, memory, table, session, saving, migrating, history
  <2> QED
    BY <2>1, IdleSteps DEF Skips, Types
<1> QED
  BY <1>1, <1>2

\* save_update misses nothing: whatever any instance of the workspace published
\* since a saver subscribed was written, was refused by the database, or is
\* still in the saver's channel or buffer, as long as the saver listens and the
\* channel has not overrun it.
THEOREM SaversSkipNothing == Spec => []NothingSkipped
<1>1. Skips => NothingSkipped
  BY DEF Skips
<1> QED
  BY <1>1, InitSkips, NextSkips, PTL DEF Spec

-----------------------------------------------------------------------------
(* OneInstance *)

ConnState == {"off", "opening", "applying", "joining", "init", "open", "lost",
              "migrate", "replace", "cleared", "closing", "done"}
SaverState == {"off", "run", "rebuild", "uncache", "delete", "flush", "replace", "write", "done"}

Shapes ==
    /\ conn \in [Conn -> ConnState]
    /\ saver \in [Conn -> SaverState]
    /\ ws \in [Conn -> Nat]
    /\ applyWs \in [Conn -> Nat]

NoLag == \A c \in Conn : ~lagged[c]

\* Only a saver that fell behind rebuilds.
RebuildsAreLagged ==
    \A c \in Conn : lagged[c] \/ saver[c] \in {"off", "run", "done"}

\* Without a rebuild the cache keeps its first instance.
AllAtCache ==
    NoLag => \A c \in Conn :
        /\ conn[c] # "off" => ws[c] = cache /\ cache # 0
        /\ applyWs[c] # 0 => applyWs[c] = cache /\ cache # 0

Alone == Shapes /\ RebuildsAreLagged /\ AllAtCache

\* Nobody is there at first.
LEMMA InitAlone == Init => Alone
<1> SUFFICES ASSUME Init PROVE Alone
  OBVIOUS
<1>1. Shapes
  BY DEF Init, Shapes, ConnState, SaverState
<1>2. RebuildsAreLagged
  BY DEF Init, RebuildsAreLagged
<1>3. AllAtCache
  BY DEF Init, AllAtCache
<1> QED
  BY <1>1, <1>2, <1>3 DEF Alone

\* A gap is never forgotten.
LEMMA LagStays ==
    ASSUME Types, Next, NEW c \in Conn, lagged[c]
    PROVE  lagged'[c]
<1>1. ASSUME NEW msgs, Broadcast(msgs)
      PROVE  lagged'[c]
  BY <1>1 DEF Broadcast
<1>2. CASE \E i \in Instance : Publish(i)
  BY <1>1, <1>2 DEF Publish
<1>3. CASE \E d \in Conn : CloseUser(d)
  BY <1>1, <1>3 DEF CloseUser
<1>4. CASE /\ ~\E i \in Instance : Publish(i)
           /\ ~\E d \in Conn : CloseUser(d)
  <2>1. UNCHANGED lagged
    BY <1>4 DEF Next, HandlerStep, ApplyStep, HearStep, SaverStep, Open, InitFails, Disconnect,
       ReceiveOp, SaveFails, StartApply, Subscribe, StartSaver, InitSent, SkipMigrate,
       StartMigrate, MigrateInit, MigrateClear, MigrateWrite, ApplyInbox, ApplyEnds, Hear,
       HearLag, Save, SaverEnds, RebuildRead, RebuildUncache, RebuildDelete, RebuildInit,
       RebuildClear, RebuildWrite, saving
  <2> QED
    BY <2>1
<1> QED
  BY <1>2, <1>3, <1>4

\* Steps that leave the cache and everybody's instance alone.
LEMMA StayPut ==
    ASSUME Types, Alone, Next, Shapes', UNCHANGED <<cache, ws>>,
           \A c \in Conn : conn'[c] # "off" => conn[c] # "off",
           \A c \in Conn : applyWs'[c] \in {0, applyWs[c]},
           \A c \in Conn : saver'[c] \in {saver[c], "off", "run", "done"} \/ lagged[c]
    PROVE  Alone'
<1>1. RebuildsAreLagged'
  BY LagStays DEF Alone, RebuildsAreLagged
<1>2. NoLag' => NoLag
  BY LagStays DEF NoLag
<1>3. AllAtCache'
  BY <1>2 DEF Alone, AllAtCache
<1> QED
  BY <1>1, <1>3 DEF Alone

\* A lookup while somebody is there returns the instance they have.
LEMMA LookupFinds ==
    ASSUME Types, GetOrCreate
    PROVE  /\ TheInstance \in Nat \ {0} /\ cache' = TheInstance
           /\ cache # 0 => cache' = cache
BY DEF Types, GetOrCreate, TheInstance

\* The first connection decides the instance, the others find it.
LEMMA OpenAlone ==
    ASSUME Types, Alone, NEW c \in Conn, Open(c)
    PROVE  Alone'
<1>1. /\ GetOrCreate /\ UNCHANGED <<applyWs, lagged, saver>>
      /\ ws' = [ws EXCEPT ![c] = TheInstance]
      /\ conn' = [conn EXCEPT ![c] = "opening"]
  BY DEF Open, saving
<1>2. Shapes'
  BY <1>1, LookupFinds DEF Alone, Shapes, ConnState
<1>3. RebuildsAreLagged'
  BY <1>1 DEF Alone, RebuildsAreLagged
<1>4. AllAtCache'
  <2> SUFFICES ASSUME NoLag', NEW d \in Conn
               PROVE  /\ conn'[d] # "off" => ws'[d] = cache' /\ cache' # 0
                      /\ applyWs'[d] # 0 => applyWs'[d] = cache' /\ cache' # 0
    BY DEF AllAtCache
  <2>1. NoLag
    BY <1>1 DEF NoLag
  <2>2. /\ conn[d] # "off" => ws[d] = cache /\ cache # 0
        /\ applyWs[d] # 0 => applyWs[d] = cache /\ cache # 0
    BY <2>1 DEF Alone, AllAtCache
  <2> QED
    BY <1>1, <2>2, LookupFinds DEF Alone, Shapes
<1> QED
  BY <1>2, <1>3, <1>4 DEF Alone

\* apply_change finds the instance its handler has.
LEMMA StartApplyAlone ==
    ASSUME Types, Alone, NEW c \in Conn, StartApply(c)
    PROVE  Alone'
<1>1. /\ UNCHANGED <<ws, lagged, saver>> /\ conn[c] = "opening"
      /\ \A d \in Conn : conn'[d] # "off" => conn[d] # "off"
      /\ \/ /\ GetOrCreate
            /\ applyWs' = [applyWs EXCEPT ![c] = TheInstance]
         \/ UNCHANGED <<cache, applyWs>>
  BY DEF StartApply, saving, memory, Alone, Shapes
<1>2. conn' \in [Conn -> ConnState] /\ applyWs' \in [Conn -> Nat]
  BY <1>1, LookupFinds DEF StartApply, Alone, Shapes, ConnState
<1>3. Shapes'
  BY <1>1, <1>2 DEF Alone, Shapes
<1>4. RebuildsAreLagged'
  BY <1>1 DEF Alone, RebuildsAreLagged
<1>5. AllAtCache'
  <2> SUFFICES ASSUME NoLag', NEW d \in Conn
               PROVE  /\ conn'[d] # "off" => ws'[d] = cache' /\ cache' # 0
                      /\ applyWs'[d] # 0 => applyWs'[d] = cache' /\ cache' # 0
    BY DEF AllAtCache
  <2>1. NoLag
    BY <1>1 DEF NoLag
  <2>2. /\ conn[d] # "off" => ws[d] = cache /\ cache # 0
        /\ applyWs[d] # 0 => applyWs[d] = cache /\ cache # 0
        /\ cache # 0
    BY <1>1, <2>1 DEF Alone, AllAtCache
  <2> QED
    BY <1>1, <2>2, LookupFinds DEF Alone, Shapes
<1> QED
  BY <1>3, <1>4, <1>5 DEF Alone

\* A migration looks up the instance its handler has.
LEMMA StartMigrateAlone ==
    ASSUME Types, Alone, NEW c \in Conn, StartMigrate(c)
    PROVE  Alone'
<1>1. /\ GetOrCreate /\ UNCHANGED <<ws, applyWs, lagged, saver>>
      /\ conn[c] = "lost" /\ conn' = [conn EXCEPT ![c] = "migrate"]
  BY DEF StartMigrate, saving
<1>2. Shapes'
  BY <1>1 DEF Alone, Shapes, ConnState
<1>3. RebuildsAreLagged'
  BY <1>1 DEF Alone, RebuildsAreLagged
<1>4. AllAtCache'
  <2> SUFFICES ASSUME NoLag', NEW d \in Conn
               PROVE  /\ conn'[d] # "off" => ws'[d] = cache' /\ cache' # 0
                      /\ applyWs'[d] # 0 => applyWs'[d] = cache' /\ cache' # 0
    BY DEF AllAtCache
  <2>1. NoLag
    BY <1>1 DEF NoLag
  <2>2. /\ conn[d] # "off" => ws[d] = cache /\ cache # 0
        /\ applyWs[d] # 0 => applyWs[d] = cache /\ cache # 0
        /\ cache # 0
    BY <1>1, <2>1 DEF Alone, AllAtCache
  <2> QED
    BY <1>1, <2>2, LookupFinds DEF Alone, Shapes
<1> QED
  BY <1>2, <1>3, <1>4 DEF Alone

\* A rebuild happens only behind a gap, where OneInstance says nothing.
LEMMA RebuildAlone ==
    ASSUME Types, Alone, NEW c \in Conn, RebuildRead(c) \/ RebuildUncache(c)
    PROVE  Alone'
<1>1. /\ saver[c] \in {"rebuild", "uncache"} /\ UNCHANGED <<ws, applyWs, conn, lagged>>
      /\ \E q \in SaverState : saver' = [saver EXCEPT ![c] = q]
  BY DEF RebuildRead, RebuildUncache, session, SaverState
<1>2. lagged[c]
  BY <1>1 DEF Alone, RebuildsAreLagged
<1>3. Shapes' /\ RebuildsAreLagged'
  BY <1>1, <1>2 DEF Alone, Shapes, RebuildsAreLagged
<1>4. AllAtCache'
  BY <1>1, <1>2 DEF AllAtCache, NoLag
<1> QED
  BY <1>3, <1>4 DEF Alone

\* The other steps of a handler move it on.
LEMMA HandlerAlone ==
    ASSUME Types, Alone, Next, NEW c \in Conn,
           \/ Subscribe(c) \/ StartSaver(c) \/ InitSent(c) \/ InitFails(c) \/ Disconnect(c)
           \/ SkipMigrate(c) \/ MigrateInit(c) \/ MigrateClear(c) \/ MigrateWrite(c)
           \/ CloseUser(c)
    PROVE  Alone'
<1> USE DEF Subscribe, StartSaver, InitSent, InitFails, Disconnect, SkipMigrate, MigrateInit,
            MigrateClear, MigrateWrite, CloseUser
<1>1. UNCHANGED <<cache, ws, applyWs>>
  BY DEF memory
<1>2. conn[c] # "off" /\ \E q \in ConnState : conn' = [conn EXCEPT ![c] = q]
  BY DEF ConnState
<1>3. saver' = saver \/ saver' = [saver EXCEPT ![c] = "run"]
  BY DEF saving
<1> HIDE DEF Subscribe, StartSaver, InitSent, InitFails, Disconnect, SkipMigrate, MigrateInit,
             MigrateClear, MigrateWrite, CloseUser
<1>4. Shapes'
  BY <1>1, <1>2, <1>3 DEF Alone, Shapes, SaverState
<1>5. \A d \in Conn : conn'[d] # "off" => conn[d] # "off"
  BY <1>2 DEF Alone, Shapes
<1>6. \A d \in Conn : saver'[d] \in {saver[d], "off", "run", "done"} \/ lagged[d]
  BY <1>3 DEF Alone, Shapes
<1> QED
  BY <1>1, <1>4, <1>5, <1>6, StayPut

\* The steps of the other tasks leave the handlers alone.
LEMMA TaskAlone ==
    ASSUME Types, Alone, Next, NEW c \in Conn,
           \/ (\E o \in Op : ReceiveOp(c, o)) \/ ApplyStep(c) \/ HearStep(c)
           \/ Save(c) \/ SaveFails(c) \/ SaverEnds(c) \/ RebuildDelete(c)
           \/ RebuildInit(c) \/ RebuildClear(c) \/ RebuildWrite(c)
    PROVE  Alone'
<1> USE DEF ReceiveOp, ApplyStep, ApplyInbox, ApplyEnds, HearStep, Hear, HearLag, Save, SaveFails,
            SaverEnds, RebuildDelete, RebuildInit, RebuildClear, RebuildWrite
<1>1. UNCHANGED <<cache, ws, conn>>
  BY DEF memory, session
<1>2. applyWs' = applyWs \/ applyWs' = [applyWs EXCEPT ![c] = 0]
  BY DEF session
<1>3. \/ saver' = saver
      \/ saver' = [saver EXCEPT ![c] = "done"]
      \/ /\ lagged[c] \/ saver[c] \in {"delete", "flush", "replace", "write"}
         /\ \E q \in SaverState : saver' = [saver EXCEPT ![c] = q]
  <2>1. CASE SaverEnds(c)
    BY <2>1 DEF SaverState
  <2>2. CASE RebuildDelete(c) \/ RebuildInit(c) \/ RebuildClear(c) \/ RebuildWrite(c)
    BY <2>2 DEF SaverState
  <2>3. CASE ~(SaverEnds(c) \/ RebuildDelete(c) \/ RebuildInit(c) \/ RebuildClear(c) \/ RebuildWrite(c))
    <3> HIDE DEF SaverEnds, RebuildDelete, RebuildInit, RebuildClear, RebuildWrite
    <3> QED
      BY <2>3 DEF saving
  <2> QED
    BY <2>1, <2>2, <2>3
<1> HIDE DEF ReceiveOp, ApplyStep, ApplyInbox, ApplyEnds, HearStep, Hear, HearLag, Save, SaveFails,
             SaverEnds, RebuildDelete, RebuildInit, RebuildClear, RebuildWrite
<1>4. Shapes'
  BY <1>1, <1>2, <1>3 DEF Alone, Shapes, SaverState
<1>5. \A d \in Conn : applyWs'[d] \in {0, applyWs[d]}
  BY <1>2 DEF Alone, Shapes
<1>6. \A d \in Conn : saver'[d] \in {saver[d], "off", "run", "done"} \/ lagged[d]
  BY <1>3 DEF Alone, Shapes, RebuildsAreLagged
<1> QED
  BY <1>1, <1>4, <1>5, <1>6, StayPut

\* Every step keeps the invariant.
LEMMA NextAlone == Types /\ Alone /\ [Next]_vars => Alone'
<1> SUFFICES ASSUME Types, Alone, [Next]_vars PROVE Alone'
  OBVIOUS
<1>1. CASE UNCHANGED vars
  <2>1. UNCHANGED <<conn, saver, ws, applyWs, lagged, cache>>
    BY <1>1 DEF vars, memory, session, saving
  <2> QED
    BY <2>1 DEF Alone, Shapes, RebuildsAreLagged, AllAtCache, NoLag
<1>2. ASSUME Next, NEW i \in Instance, Publish(i) PROVE Alone'
  <2>1. UNCHANGED <<conn, saver, ws, applyWs, cache>>
    BY <1>2 DEF Publish, session
  <2> QED
    BY <1>2, <2>1, StayPut DEF Alone, Shapes
<1>3. ASSUME Next, ~\E i \in Instance : Publish(i) PROVE Alone'
  BY <1>3, OpenAlone, StartApplyAlone, StartMigrateAlone, RebuildAlone, HandlerAlone, TaskAlone
     DEF Next, HandlerStep, SaverStep
<1> QED
  BY <1>1, <1>2, <1>3

\* Until a saver falls behind every handler and every apply_change task of a
\* workspace holds the instance in the cache, for any number of connections.
THEOREM OneDocument == Spec => []OneInstance
<1>1. Alone => OneInstance
  BY DEF Alone, AllAtCache, NoLag, OneInstance, Joined
<1>2. Skips => Types
  BY DEF Skips
<1> QED
  BY <1>1, <1>2, InitSkips, NextSkips, InitAlone, NextAlone, PTL DEF Spec
=============================================================================
