-------------------------------- MODULE Cloud --------------------------------
(****************************************************************************)
(* The cloud server (apps/cloud): creating, publishing and deleting a       *)
(* workspace, inviting, accepting, leaving and removing members, reading    *)
(* it, the collaboration sockets of its members and, in UserChannel, the    *)
(* pushes to their user sockets.  A request is the sequence of the awaited  *)
(* steps of its handler; the database (cloud_database, outside this         *)
(* repository) is the pair ws, perm, changed atomically by each call.       *)
(****************************************************************************)
EXTENDS UserChannel

CONSTANTS Tasks,        \* requests served at the same time
          Owner,        \* the user who creates the workspace
          MaxEvents     \* bound: requests and sockets of a behaviour

ASSUME CloudAssumption ==
  Owner \in Users /\ MaxEvents \in Nat

VARIABLES
  ws,        \* [exists, public, stored]: the row of the workspace, its document
  perm,      \* the permission of a user [st, id]: "none", "invited" or "accepted"
  req,       \* the request of each task [user, whom, pid, todo]
  count,     \* requests and sockets so far
  sock,      \* the collaboration socket of a user [st, ch]
  chan,      \* the broadcast channel of the workspace in the map, 0 if none
  mailed,    \* invitations sent, or shown: <<user, id of the permission>>
  unsent,    \* invitations whose code could not be made
  raced      \* users whose socket was on its way in while it was to be closed

cloudVars == <<ws, perm, req, count, sock, chan, mailed, unsent, raced>>
vars == <<channelVars, cloudVars>>

Idle == [user |-> Owner, whom |-> Owner, pid |-> 0, todo |-> <<>>]

----------------------------------------------------------------------------
(* The handlers as the steps they await. *)

create_workspace == <<"create", "upload", "migrate", "observe">>
update_workspace == <<"can_admin", "update", "notify">>
delete_workspace == <<"is_owner", "delete", "notify", "close_all">>
get_workspaces == <<"list">>
get_workspace_by_id == <<"can_read", "read">>
get_doc == <<"can_read", "read">>
search_workspace == <<"can_read", "search">>
get_members == <<"can_admin", "list">>
query_user == <<"list">>
get_public_doc == <<"is_public", "read">>
get_public_page == <<"is_shared", "read">>
invite_member == <<"can_admin", "create_permission", "observe", "metadata", "encrypt", "mail">>
accept_invitation == <<"accept">>
\* Mutant: the user is not told that he left.
leave_untold == <<"leave_quietly", "close_user">>
leave_workspace == <<"leave", "close_user">>
\* Mutant: the sockets are closed before the permission is gone.
remove_closed_first == <<"can_admin", "find", "close_user", "remove">>
remove_user == <<"can_admin", "find", "remove", "close_user">>

Handlers == [create |-> create_workspace, update |-> update_workspace,
             delete |-> delete_workspace, list |-> get_workspaces,
             get |-> get_workspace_by_id, doc |-> get_doc, search |-> search_workspace,
             members |-> get_members, user |-> query_user, public |-> get_public_doc, page |-> get_public_page,
             invite |-> invite_member, accept |-> accept_invitation,
             leave |-> leave_workspace, remove |-> remove_user]

NoWorkspace == [exists |-> FALSE, public |-> FALSE, stored |-> FALSE]

At(t, step) == req[t].todo # <<>> /\ Head(req[t].todo) = step

\* The request has the step still to take.
Ahead(t, step) == \E i \in DOMAIN req[t].todo : req[t].todo[i] = step

\* What a client may ask for: create while there is no workspace, an invitation
\* he was sent, a permission he sees in the list of members.
Sensible(op, u, w) ==
  /\ op = "create" => u = Owner /\ ws = NoWorkspace /\ \A s \in Tasks : ~At(s, "create")
  /\ IF op \in {"invite", "remove"} THEN w # Owner ELSE w = u
  /\ op = "leave" => u # Owner

\* The permission a request names.
Named(op, w) == CASE op = "accept" -> {i \in 1..MaxEvents : <<w, i>> \in mailed}
                  [] op = "remove" -> {perm[w].id}
                  [] OTHER         -> {0}

Request(t, op, u, w, pid) ==
  /\ req[t] = Idle /\ count < MaxEvents
  /\ Sensible(op, u, w)
  /\ count' = count + 1
  /\ req' = [req EXCEPT ![t] = [user |-> u, whom |-> w, pid |-> pid, todo |-> Handlers[op]]]
  /\ UNCHANGED <<channelVars, ws, perm, sock, chan, mailed, unsent, raced>>

\* The response, of success or of failure.
Reply(t) == req' = [req EXCEPT ![t] = Idle]

\* On to the next step, or the answer after the last.
Continue(t) ==
  IF Len(req[t].todo) = 1 THEN Reply(t)
  ELSE req' = [req EXCEPT ![t].todo = Tail(@)]

Changed(S) == ver' = [u \in Users |-> IF u \in S THEN ver[u] + 1 ELSE ver[u]]

----------------------------------------------------------------------------
(* Permissions, as the database answers. *)

Accepted(u) == ws.exists /\ perm[u].st = "accepted"
Admin(u) == Accepted(u) /\ u = Owner

Allowed(step, u) ==
  CASE step = "can_read"  -> Accepted(u)
    [] step = "is_public" -> ws.public
    [] OTHER              -> Admin(u)

Check(t) ==
  /\ \E s \in {"can_read", "is_public", "can_admin", "is_owner"} :
       /\ At(t, s)
       /\ IF Allowed(s, req[t].user) THEN Continue(t) ELSE Reply(t)
  /\ UNCHANGED <<channelVars, ws, perm, count, sock, chan, mailed, unsent, raced>>

\* A page that is shared may be read from a workspace that is not public.
CheckPage(t) ==
  /\ At(t, "is_shared")
  /\ \/ Continue(t)
     \/ ~ws.public /\ Reply(t)
  /\ UNCHANGED <<channelVars, ws, perm, count, sock, chan, mailed, unsent, raced>>

\* Documents outlive their workspace; a page or a document may be missing.
ReadDoc(t) ==
  /\ At(t, "read") \/ At(t, "search") \/ At(t, "list")
  /\ Continue(t)
  /\ UNCHANGED <<channelVars, ws, perm, count, sock, chan, mailed, unsent, raced>>

----------------------------------------------------------------------------
(* Workspaces. *)

CreateRow(t) ==
  /\ At(t, "create")
  /\ ws' = [ws EXCEPT !.exists = TRUE]
  /\ perm' = [perm EXCEPT ![Owner].st = "accepted"]
  /\ Continue(t)
  /\ UNCHANGED <<channelVars, count, sock, chan, mailed, unsent, raced>>

Upload(t) ==
  /\ At(t, "upload")
  /\ Continue(t)
  /\ UNCHANGED <<channelVars, ws, perm, count, sock, chan, mailed, unsent, raced>>

\* When the document cannot be stored the row and the permission stay.
Migrate(t) ==
  /\ At(t, "migrate")
  /\ \/ ws' = [ws EXCEPT !.stored = TRUE] /\ Continue(t)
     \/ Reply(t) /\ UNCHANGED ws
  /\ UNCHANGED <<channelVars, perm, count, sock, chan, mailed, unsent, raced>>

\* add_user_observe; update_workspace keeps workspace_map locked meanwhile.
Observe(t) ==
  /\ At(t, "observe") /\ ~ \E s \in Tasks : At(s, "notified")
  /\ observers' = IF Accepted(req[t].whom) THEN observers \cup {req[t].whom} ELSE observers
  /\ jobs' = jobs \cup {Update(t, req[t].whom)}
  /\ req' = [req EXCEPT ![t].todo = <<"observed">> \o Tail(@)]
  /\ UNCHANGED <<gsock, queue, ver, told, ws, perm, count, sock, chan, mailed, unsent, raced>>

\* The observers are told one after the other; the order is not kept.
Notify(t) ==
  /\ At(t, "notify")
  /\ jobs' = jobs \cup {Update(t, u) : u \in observers}
  /\ req' = [req EXCEPT ![t].todo = <<"notified">> \o Tail(@)]
  /\ UNCHANGED <<observers, gsock, queue, ver, told, ws, perm, count, sock, chan, mailed, unsent, raced>>

Told(t) ==
  /\ At(t, "observed") \/ At(t, "notified")
  /\ ~Busy(t)
  /\ Continue(t)
  /\ UNCHANGED <<channelVars, ws, perm, count, sock, chan, mailed, unsent, raced>>

UpdateRow(t) ==
  /\ At(t, "update")
  /\ \/ /\ ws.exists
        /\ \E p \in BOOLEAN : ws' = [ws EXCEPT !.public = p]
        /\ Changed({u \in observers : Accepted(u)})
        /\ Continue(t)
     \/ /\ ~ws.exists /\ Reply(t)
        /\ UNCHANGED <<ws, ver>>
  /\ UNCHANGED <<observers, gsock, queue, jobs, told, perm, count, sock, chan, mailed, unsent, raced>>

DeleteRow(t) ==
  /\ At(t, "delete")
  /\ \/ /\ ws.exists
        /\ ws' = [ws EXCEPT !.exists = FALSE, !.public = FALSE]
        /\ perm' = [u \in Users |-> [perm[u] EXCEPT !.st = "none"]]
        /\ Changed({u \in observers : Accepted(u)})
        /\ Continue(t)
     \/ /\ ~ws.exists /\ Reply(t)
        /\ UNCHANGED <<ws, perm, ver>>
  /\ UNCHANGED <<observers, gsock, queue, jobs, told, count, sock, chan, mailed, unsent, raced>>

----------------------------------------------------------------------------
(* Members. *)

CreatePermission(t) ==
  LET w == req[t].whom
  IN /\ At(t, "create_permission")
     /\ \/ /\ ws.exists /\ perm[w].st = "none"
           /\ perm' = [perm EXCEPT ![w] = [st |-> "invited", id |-> @.id + 1]]
           /\ req' = [req EXCEPT ![t].pid = perm'[w].id, ![t].todo = Tail(@)]
        \/ /\ ws.exists /\ perm[w].st # "none" /\ Reply(t)
           /\ UNCHANGED perm
        \/ /\ ~ws.exists /\ Reply(t)
           /\ UNCHANGED perm
     /\ UNCHANGED <<channelVars, ws, count, sock, chan, mailed, unsent, raced>>

Holds(u, pid) == perm[u].id = pid /\ perm[u].st # "none"

\* delete_permission takes the permission of that id and no later one.
DeletePermission(u, pid) ==
  perm' = IF Holds(u, pid) THEN [perm EXCEPT ![u].st = "none"] ELSE perm

\* Mutant: a mail that fails leaves the permission.
MailOnly(t) ==
  /\ At(t, "mail")
  /\ \/ mailed' = mailed \cup {<<req[t].whom, req[t].pid>>} /\ Continue(t)
     \/ Reply(t) /\ UNCHANGED mailed
  /\ UNCHANGED <<channelVars, ws, perm, count, sock, chan, unsent, raced>>

(* The invitation is mailed, or shown for a test address; a mail that fails
   withdraws the permission. *)
Mail(t) ==
  /\ At(t, "mail")
  /\ \/ /\ mailed' = mailed \cup {<<req[t].whom, req[t].pid>>}
        /\ Continue(t) /\ UNCHANGED perm
     \/ /\ DeletePermission(req[t].whom, req[t].pid)
        /\ Reply(t) /\ UNCHANGED mailed
  /\ UNCHANGED <<channelVars, ws, count, sock, chan, unsent, raced>>

\* The name and the picture of the workspace go into the mail.
Metadata(t) ==
  /\ At(t, "metadata")
  /\ \/ Continue(t) /\ UNCHANGED perm
     \/ Reply(t) /\ DeletePermission(req[t].whom, req[t].pid)
  /\ UNCHANGED <<channelVars, ws, count, sock, chan, mailed, unsent, raced>>

\* The one failure that does not withdraw the permission.
Encrypt(t) ==
  /\ At(t, "encrypt")
  /\ \/ Continue(t) /\ UNCHANGED unsent
     \/ Reply(t) /\ unsent' = unsent \cup {<<req[t].whom, req[t].pid>>}
  /\ UNCHANGED <<channelVars, ws, perm, count, sock, chan, mailed, raced>>

AcceptPermission(t) ==
  LET u == req[t].user
  IN /\ At(t, "accept")
     /\ \/ /\ Holds(u, req[t].pid)
           /\ perm' = [perm EXCEPT ![u].st = "accepted"]
           /\ Changed({u})
           /\ jobs' = jobs \cup {Update(Spawned, u)}
           /\ Reply(t)
        \/ /\ ~Holds(u, req[t].pid) /\ Reply(t)
           /\ UNCHANGED <<perm, ver, jobs>>
     /\ UNCHANGED <<observers, gsock, queue, told, ws, count, sock, chan, mailed, unsent, raced>>

\* The row goes, the user is told and the socket is closed.
Leave(t) ==
  LET u == req[t].user
  IN /\ At(t, "leave") \/ At(t, "leave_quietly")
     /\ perm' = [perm EXCEPT ![u].st = "none"]
     /\ IF perm[u].st # "none"
        THEN /\ Changed({u})
             /\ jobs' = IF At(t, "leave") THEN jobs \cup {Update(Spawned, u)} ELSE jobs
             /\ Continue(t)
        ELSE /\ Reply(t) /\ UNCHANGED <<ver, jobs>>
     /\ UNCHANGED <<observers, gsock, queue, told, ws, count, sock, chan, mailed, unsent, raced>>

FindPermission(t) ==
  /\ At(t, "find")
  /\ IF Holds(req[t].whom, req[t].pid) THEN Continue(t) ELSE Reply(t)
  /\ UNCHANGED <<channelVars, ws, perm, count, sock, chan, mailed, unsent, raced>>

\* The user is told and disconnected even if somebody else was faster.
Remove(t) ==
  LET w == req[t].whom
  IN /\ At(t, "remove")
     /\ DeletePermission(w, req[t].pid)
     /\ Changed(IF Holds(w, req[t].pid) THEN {w} ELSE {})
     /\ jobs' = jobs \cup {Update(Spawned, w)}
     /\ Continue(t)
     /\ UNCHANGED <<observers, gsock, queue, told, ws, count, sock, chan, mailed, unsent, raced>>

----------------------------------------------------------------------------
(* Collaboration sockets.  A socket has read its permission, then holds the
   sender of a channel, then listens to it. *)

Closed == [st |-> "closed", ch |-> 0]

ws_handler(u) ==
  /\ sock[u] = Closed /\ count < MaxEvents
  /\ count' = count + 1
  /\ \/ /\ Allowed("can_read", u)
        /\ sock' = [sock EXCEPT ![u] = [st |-> "checked", ch |-> 0]]
        /\ raced' = raced \ {u}
  /\ UNCHANGED <<channelVars, ws, perm, req, chan, mailed, unsent>>

JoinChannel(u) ==
  /\ sock[u].st = "checked"
  /\ chan' = IF chan = 0 THEN count ELSE chan
  /\ sock' = [sock EXCEPT ![u] = [st |-> "joined", ch |-> chan']]
  /\ UNCHANGED <<channelVars, ws, perm, req, count, mailed, unsent, raced>>

Listen(u) ==
  /\ sock[u].st = "joined"
  /\ sock' = [sock EXCEPT ![u].st = "open"]
  /\ UNCHANGED <<channelVars, ws, perm, req, count, chan, mailed, unsent, raced>>

\* The handler ends on a close message, or because the client went away.
Disconnect(u) ==
  /\ sock[u].st \in {"open", "closing"}
  /\ sock' = [sock EXCEPT ![u] = Closed]
  /\ UNCHANGED <<channelVars, ws, perm, req, count, chan, mailed, unsent, raced>>

Closing(S) == [u \in Users |-> IF u \in S /\ sock[u].st = "open" /\ sock[u].ch = chan
                               THEN [sock[u] EXCEPT !.st = "closing"] ELSE sock[u]]

\* Users of S whose socket the message does not reach.
Missed(S) == {u \in S : sock[u].st # "closed" /\ ~(sock[u].st \in {"open", "closing"} /\ sock[u].ch = chan)}

(* close_websocket; a channel with at most one receiver left is forgotten, and
   a socket that has joined but does not listen yet has fewer than three. *)
CloseUser(t) ==
  /\ At(t, "close_user")
  /\ sock' = Closing({req[t].whom})
  /\ raced' = raced \cup Missed({req[t].whom})
  /\ \/ UNCHANGED chan
     \/ chan' = 0 /\ \A u \in Users : sock[u].st \in {"open", "closing"} => sock[u].ch # chan
  /\ Continue(t)
  /\ UNCHANGED <<channelVars, ws, perm, count, mailed, unsent>>

\* close_websocket_by_workspace; the blobs are deleted last (see BlobApi).
CloseAll(t) ==
  /\ At(t, "close_all")
  /\ sock' = Closing(Users)
  /\ raced' = raced \cup Missed(Users)
  /\ chan' = 0
  /\ Continue(t)
  /\ UNCHANGED <<channelVars, ws, perm, count, mailed, unsent>>

----------------------------------------------------------------------------

(* A new server, or one started again on its database: all else is in memory. *)
Init ==
  /\ ChannelInit
  /\ \/ /\ ws = NoWorkspace
        /\ perm = [u \in Users |-> [st |-> "none", id |-> 0]]
     \/ /\ ws = [exists |-> TRUE, public |-> FALSE, stored |-> TRUE]
        /\ perm \in [Users -> {[st |-> "none", id |-> 0], [st |-> "accepted", id |-> 0]}]
        /\ perm[Owner].st = "accepted"
  /\ req = [t \in Tasks |-> Idle]
  /\ count = 0
  /\ sock = [u \in Users |-> Closed]
  /\ chan = 0
  /\ mailed = {} /\ unsent = {} /\ raced = {}

Serve(t) ==
  \/ Check(t) \/ CheckPage(t) \/ ReadDoc(t)
  \/ CreateRow(t) \/ Upload(t) \/ Migrate(t) \/ Observe(t) \/ Notify(t) \/ Told(t)
  \/ UpdateRow(t) \/ DeleteRow(t)
  \/ CreatePermission(t) \/ Metadata(t) \/ Encrypt(t) \/ Mail(t)
  \/ AcceptPermission(t) \/ Leave(t) \/ FindPermission(t) \/ Remove(t)
  \/ CloseUser(t) \/ CloseAll(t)

Push(u) ==
  /\ \E j \in jobs : j.u = u /\ (PushRead(j) \/ PushSend(j))
  /\ UNCHANGED cloudVars

global_ws_handler(u) ==
  /\ count < MaxEvents
  /\ count' = count + 1
  /\ OpenGlobal(u, Accepted(u))
  /\ UNCHANGED <<ws, perm, req, sock, chan, mailed, unsent, raced>>

EndGlobal(u) == CloseGlobal(u) /\ UNCHANGED cloudVars

Drain(u) == Deliver(u) /\ UNCHANGED cloudVars

Next ==
  \/ \E t \in Tasks, op \in DOMAIN Handlers, u, w \in Users :
       \E pid \in Named(op, w) : Request(t, op, u, w, pid)
  \/ \E t \in Tasks : Serve(t)
  \/ \E u \in Users : Push(u) \/ global_ws_handler(u) \/ EndGlobal(u) \/ Drain(u)
  \/ \E u \in Users : ws_handler(u) \/ JoinChannel(u) \/ Listen(u) \/ Disconnect(u)

Spec == Init /\ [][Next]_vars

----------------------------------------------------------------------------
TypeOK ==
  /\ ws \in [exists : BOOLEAN, public : BOOLEAN, stored : BOOLEAN]
  /\ \A u \in Users : /\ perm[u].st \in {"none", "invited", "accepted"}
                      /\ perm[u].st # "none" => ws.exists
                      /\ sock[u].st \in {"closed", "checked", "joined", "open", "closing"}
                      /\ told[u] <= ver[u] /\ Len(queue[u]) <= QueueCap
  /\ \A t \in Tasks : req[t].todo = <<>> => req[t] = Idle
  /\ ws.public => ws.exists
  /\ observers \subseteq Users /\ raced \subseteq Users

(* Who has no permission has no open socket: leave_workspace, remove_user and
   delete_workspace take the permission away before they close the sockets, so
   a socket that is opened in between is not missed.  Left over are the sockets
   that had passed ws_handler's check and did not listen yet, or listened to a
   channel close_websocket had forgotten. *)
SocketsPermitted ==
  \A u \in Users :
    sock[u].st = "open" /\ ~Accepted(u) =>
      \/ u \in raced
      \/ \E t \in Tasks : \/ Ahead(t, "close_all")
                          \/ Ahead(t, "close_user") /\ req[t].whom = u

(* Nobody is invited without being told: when the workspace cannot be read or
   the mail cannot be sent, invite_member withdraws the permission it created,
   and not one created later.  Only a failing encryption leaves it behind. *)
NoSilentInvitation ==
  \A u \in Users :
    perm[u].st = "invited" =>
      \/ <<u, perm[u].id>> \in mailed \cup unsent
      \/ \E t \in Tasks : Ahead(t, "mail") /\ req[t].whom = u /\ req[t].pid = perm[u].id

(* No change is forgotten: while the list a user's open socket was last sent is
   out of date, a push that reads it again or carries the newest list is on its
   way, or a handler is still to start one.  accept_invitation, leave_workspace
   and remove_user push to the user, update_workspace and delete_workspace to
   every observer, and a push waits for room in a full channel. *)
NoChangeForgotten ==
  \A u \in Users :
    gsock[u] = "open" /\ told[u] < ver[u] =>
      \/ \E j \in jobs : j.u = u /\ (j.st = "read" \/ j.v = ver[u])
      \/ u \in observers /\ \E t \in Tasks : Ahead(t, "notify")

=============================================================================
