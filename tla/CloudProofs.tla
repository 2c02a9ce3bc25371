----------------------------- MODULE CloudProofs -----------------------------
(***************************************************************************)
(* Proofs about Cloud, for any users, requests and number of events: who   *)
(* has no permission has no open socket, nobody is invited without being   *)
(* told, and no change of a user's list is forgotten.                      *)
(***************************************************************************)
EXTENDS Cloud, TLAPS

\* What the requests of each handler may still have to do.
Workspace == {<<"create", "upload", "migrate", "observe">>, <<"upload", "migrate", "observe">>,
              <<"migrate", "observe">>, <<"can_admin", "update", "notify">>,
              <<"update", "notify">>}
Deleting == {<<"is_owner", "delete", "notify", "close_all">>,
             <<"delete", "notify", "close_all">>}
Closers == {<<"notify", "close_all">>, <<"notified", "close_all">>, <<"close_all">>}
Notices == {<<"notify">>, <<"notified">>, <<"observe">>, <<"observed">>}
Reading == {<<"can_read", "read">>, <<"can_read", "search">>, <<"can_admin", "list">>,
            <<"is_public", "read">>, <<"is_shared", "read">>, <<"read">>, <<"search">>, <<"list">>}
Invites == {<<"can_admin", "create_permission", "observe", "metadata", "encrypt", "mail">>,
            <<"create_permission", "observe", "metadata", "encrypt", "mail">>}
Invited == {<<"observe", "metadata", "encrypt", "mail">>,
            <<"observed", "metadata", "encrypt", "mail">>,
            <<"metadata", "encrypt", "mail">>, <<"encrypt", "mail">>, <<"mail">>}
Removing == {<<"can_admin", "find", "remove", "close_user">>,
             <<"find", "remove", "close_user">>, <<"remove", "close_user">>}
Leaving == {<<"leave", "close_user">>}
Accepting == {<<"accept">>}
Parting == {<<"close_user">>}

Todos == {<<>>} \cup Workspace \cup Deleting \cup Closers \cup Notices \cup Reading
           \cup Invites \cup Invited \cup Removing \cup Leaving \cup Accepting \cup Parting

Requests == [user : Users, whom : Users, pid : Nat, todo : Todos]
Jobs == [by : Users \cup Tasks \cup {Spawned}, u : Users, st : {"read", "send"}, v : Nat]

Shape ==
  /\ ws \in [exists : BOOLEAN, public : BOOLEAN, stored : BOOLEAN]
  /\ perm \in [Users -> [st : {"none", "invited", "accepted"}, id : Nat]]
  /\ req \in [Tasks -> Requests]
  /\ sock \in [Users -> [st : {"closed", "checked", "joined", "open", "closing"}, ch : Nat]]
  /\ count \in Nat /\ chan \in Nat
  /\ observers \subseteq Users
  /\ gsock \in [Users -> {"none", "open", "dead"}]
  /\ jobs \subseteq Jobs
  /\ ver \in [Users -> Nat] /\ told \in [Users -> Nat]
  /\ mailed \subseteq Users \X Nat

\* A request to invite or remove is about another than the owner, one to accept
\* or leave about its own user.
Persons ==
  \A t \in Tasks :
    /\ req[t].todo \in Invites \cup Invited => req[t].whom # Owner
    /\ req[t].todo \in Leaving \cup Accepting => req[t].whom = req[t].user

\* An invitation in the making: not mailed yet, of no other request, and
\* not accepted.
Inviting(t) == req[t].todo \in Invited
Fresh ==
  /\ \A p \in mailed : p[2] <= perm[p[1]].id
  /\ \A t \in Tasks : Inviting(t) =>
       /\ req[t].pid <= perm[req[t].whom].id
       /\ <<req[t].whom, req[t].pid>> \notin mailed
       /\ perm[req[t].whom].id = req[t].pid => perm[req[t].whom].st # "accepted"
  /\ \A s, t \in Tasks : Inviting(s) /\ Inviting(t) /\ s # t =>
       <<req[s].whom, req[s].pid>> # <<req[t].whom, req[t].pid>>
  /\ \A t \in Tasks : req[t].todo \in Accepting => <<req[t].user, req[t].pid>> \in mailed

(* A request that closes the sockets of u can no longer fail before it does,
   and a socket on its way in that has been passed over is in raced. *)
Closes(t, u) == \/ req[t].todo \in Closers
                \/ req[t].todo \in Parting /\ req[t].whom = u
SocketsClosed ==
  \A u \in Users :
    sock[u].st \in {"checked", "joined", "open"} /\ ~Accepted(u) =>
      u \in raced \/ \E t \in Tasks : Closes(t, u)

\* An invitation that was created is mailed by the request that created it.
Mails(t, u) == Inviting(t) /\ req[t].whom = u /\ req[t].pid = perm[u].id
InvitesMailed ==
  \A u \in Users :
    perm[u].st = "invited" =>
      <<u, perm[u].id>> \in mailed \cup unsent \/ \E t \in Tasks : Mails(t, u)

\* A list that is out of date is read again, or its observers are told next.
Newest(j, u) == j.u = u /\ (j.st = "read" \/ j.v = ver[u])
Notifies(t) == At(t, "notify")
PushesComing ==
  \A u \in Users :
    gsock[u] = "open" /\ told[u] < ver[u] =>
      \/ \E j \in jobs : Newest(j, u)
      \/ u \in observers /\ \E t \in Tasks : Notifies(t)

CloudInv == Shape /\ Persons /\ Fresh /\ SocketsClosed /\ InvitesMailed /\ PushesComing

-----------------------------------------------------------------------------
(* What a request still has to do, step by step. *)

Rest(x) == IF Len(x) = 1 THEN <<>> ELSE Tail(x)

LEMMA Rests ==
  /\ Head(<<"create", "upload", "migrate", "observe">>) = "create"
  /\ Rest(<<"create", "upload", "migrate", "observe">>) = <<"upload", "migrate", "observe">>
  /\ Head(<<"upload", "migrate", "observe">>) = "upload"
  /\ Rest(<<"upload", "migrate", "observe">>) = <<"migrate", "observe">>
  /\ Head(<<"migrate", "observe">>) = "migrate"
  /\ Rest(<<"migrate", "observe">>) = <<"observe">>
  /\ Head(<<"can_admin", "update", "notify">>) = "can_admin"
  /\ Rest(<<"can_admin", "update", "notify">>) = <<"update", "notify">>
  /\ Head(<<"update", "notify">>) = "update"
  /\ Rest(<<"update", "notify">>) = <<"notify">>
  /\ Head(<<"is_owner", "delete", "notify", "close_all">>) = "is_owner"
  /\ Rest(<<"is_owner", "delete", "notify", "close_all">>) = <<"delete", "notify", "close_all">>
  /\ Head(<<"delete", "notify", "close_all">>) = "delete"
  /\ Rest(<<"delete", "notify", "close_all">>) = <<"notify", "close_all">>
  /\ Head(<<"notify", "close_all">>) = "notify"
  /\ Rest(<<"notify", "close_all">>) = <<"close_all">>
  /\ Head(<<"notified", "close_all">>) = "notified"
  /\ Rest(<<"notified", "close_all">>) = <<"close_all">>
  /\ Head(<<"can_read", "read">>) = "can_read"
  /\ Rest(<<"can_read", "read">>) = <<"read">>
  /\ Head(<<"can_read", "search">>) = "can_read"
  /\ Rest(<<"can_read", "search">>) = <<"search">>
  /\ Head(<<"can_admin", "list">>) = "can_admin"
  /\ Rest(<<"can_admin", "list">>) = <<"list">>
  /\ Head(<<"is_public", "read">>) = "is_public"
  /\ Rest(<<"is_public", "read">>) = <<"read">>
  /\ Head(<<"is_shared", "read">>) = "is_shared"
  /\ Rest(<<"is_shared", "read">>) = <<"read">>
  /\ Head(<<"can_admin", "create_permission", "observe", "metadata", "encrypt", "mail">>) = "can_admin"
  /\ Rest(<<"can_admin", "create_permission", "observe", "metadata", "encrypt", "mail">>)
       = <<"create_permission", "observe", "metadata", "encrypt", "mail">>
  /\ Head(<<"create_permission", "observe", "metadata", "encrypt", "mail">>) = "create_permission"
  /\ Rest(<<"create_permission", "observe", "metadata", "encrypt", "mail">>)
       = <<"observe", "metadata", "encrypt", "mail">>
  /\ Head(<<"observe", "metadata", "encrypt", "mail">>) = "observe"
  /\ Rest(<<"observe", "metadata", "encrypt", "mail">>) = <<"metadata", "encrypt", "mail">>
  /\ Head(<<"observed", "metadata", "encrypt", "mail">>) = "observed"
  /\ Rest(<<"observed", "metadata", "encrypt", "mail">>) = <<"metadata", "encrypt", "mail">>
  /\ Head(<<"metadata", "encrypt", "mail">>) = "metadata"
  /\ Rest(<<"metadata", "encrypt", "mail">>) = <<"encrypt", "mail">>
  /\ Head(<<"encrypt", "mail">>) = "encrypt"
  /\ Rest(<<"encrypt", "mail">>) = <<"mail">>
  /\ Head(<<"can_admin", "find", "remove", "close_user">>) = "can_admin"
  /\ Rest(<<"can_admin", "find", "remove", "close_user">>) = <<"find", "remove", "close_user">>
  /\ Head(<<"find", "remove", "close_user">>) = "find"
  /\ Rest(<<"find", "remove", "close_user">>) = <<"remove", "close_user">>
  /\ Head(<<"remove", "close_user">>) = "remove"
  /\ Rest(<<"remove", "close_user">>) = <<"close_user">>
  /\ Head(<<"leave", "close_user">>) = "leave"
  /\ Rest(<<"leave", "close_user">>) = <<"close_user">>
  /\ Rest(<<"accept">>) = <<>> /\ Head(<<"accept">>) = "accept"
  /\ Rest(<<"close_all">>) = <<>> /\ Head(<<"close_all">>) = "close_all"
  /\ Rest(<<"close_user">>) = <<>> /\ Head(<<"close_user">>) = "close_user"
  /\ Rest(<<"list">>) = <<>> /\ Head(<<"list">>) = "list"
  /\ Rest(<<"mail">>) = <<>> /\ Head(<<"mail">>) = "mail"
  /\ Rest(<<"notified">>) = <<>> /\ Head(<<"notified">>) = "notified"
  /\ Rest(<<"notify">>) = <<>> /\ Head(<<"notify">>) = "notify"
  /\ Rest(<<"observe">>) = <<>> /\ Head(<<"observe">>) = "observe"
  /\ Rest(<<"observed">>) = <<>> /\ Head(<<"observed">>) = "observed"
  /\ Rest(<<"read">>) = <<>> /\ Head(<<"read">>) = "read"
  /\ Rest(<<"search">>) = <<>> /\ Head(<<"search">>) = "search"
  BY DEF Rest

LEMMA Walk ==
  ASSUME NEW x \in Todos, x # <<>>
  PROVE  /\ x \in Workspace => Rest(x) \in Workspace \cup Notices \cup {<<>>}
         /\ x \in Deleting => /\ Head(x) = "is_owner" => Rest(x) \in Deleting
                              /\ Head(x) = "delete" => Rest(x) = <<"notify", "close_all">>
                              /\ Head(x) \in {"is_owner", "delete"}
         /\ x \in Closers => /\ Head(x) = "notified" => Rest(x) = <<"close_all">>
                             /\ Head(x) = "close_all" => Rest(x) = <<>>
                             /\ Head(x) \in {"notify", "notified", "close_all"}
         /\ x \in Notices \cup Parting \cup Accepting => Rest(x) = <<>>
         /\ x \in Reading => Rest(x) \in Reading \cup {<<>>}
         /\ x \in Invites => /\ Head(x) = "can_admin" => Rest(x) \in Invites
                             /\ Head(x) = "create_permission" => Rest(x) \in Invited
                             /\ Head(x) \in {"can_admin", "create_permission"}
         /\ x \in Invited => /\ Head(x) = "mail" => Rest(x) = <<>>
                             /\ Head(x) # "mail" => Rest(x) \in Invited
         /\ x \in Removing => /\ Head(x) \in {"can_admin", "find"} => Rest(x) \in Removing
                              /\ Head(x) = "remove" => Rest(x) \in Parting
                              /\ Head(x) \in {"can_admin", "find", "remove"}
         /\ x \in Leaving => Rest(x) \in Parting
<1>1. x \in Workspace => Rest(x) \in Workspace \cup Notices \cup {<<>>}
  <2>1. /\ Head(<<"create", "upload", "migrate", "observe">>) = "create"
        /\ Rest(<<"create", "upload", "migrate", "observe">>) = <<"upload", "migrate", "observe">>
        /\ Head(<<"upload", "migrate", "observe">>) = "upload"
        /\ Rest(<<"upload", "migrate", "observe">>) = <<"migrate", "observe">>
        /\ Head(<<"migrate", "observe">>) = "migrate"
        /\ Rest(<<"migrate", "observe">>) = <<"observe">>
        /\ Head(<<"can_admin", "update", "notify">>) = "can_admin"
        /\ Rest(<<"can_admin", "update", "notify">>) = <<"update", "notify">>
        /\ Head(<<"update", "notify">>) = "update"
        /\ Rest(<<"update", "notify">>) = <<"notify">>
    BY Rests
  <2>2. QED BY <2>1 DEF Workspace, Notices
<1>2. x \in Deleting => /\ Head(x) = "is_owner" => Rest(x) \in Deleting
                        /\ Head(x) = "delete" => Rest(x) = <<"notify", "close_all">>
                        /\ Head(x) \in {"is_owner", "delete"}
  <2>1. /\ Head(<<"is_owner", "delete", "notify", "close_all">>) = "is_owner"
        /\ Rest(<<"is_owner", "delete", "notify", "close_all">>)
             = <<"delete", "notify", "close_all">>
        /\ Head(<<"delete", "notify", "close_all">>) = "delete"
        /\ Rest(<<"delete", "notify", "close_all">>) = <<"notify", "close_all">>
    BY Rests
  <2>2. QED BY <2>1 DEF Deleting
<1>3. x \in Closers => /\ Head(x) = "notified" => Rest(x) = <<"close_all">>
                       /\ Head(x) = "close_all" => Rest(x) = <<>>
                       /\ Head(x) \in {"notify", "notified", "close_all"}
  <2>1. /\ Head(<<"notify", "close_all">>) = "notify"
        /\ Rest(<<"notify", "close_all">>) = <<"close_all">>
        /\ Head(<<"notified", "close_all">>) = "notified"
        /\ Rest(<<"notified", "close_all">>) = <<"close_all">>
        /\ Head(<<"close_all">>) = "close_all"
        /\ Rest(<<"close_all">>) = <<>>
    BY Rests
  <2>2. QED BY <2>1 DEF Closers
<1>4. x \in Notices \cup Parting \cup Accepting => Rest(x) = <<>>
  <2>1. /\ Head(<<"notify">>) = "notify"
        /\ Rest(<<"notify">>) = <<>>
        /\ Head(<<"notified">>) = "notified"
        /\ Rest(<<"notified">>) = <<>>
        /\ Head(<<"observe">>) = "observe"
        /\ Rest(<<"observe">>) = <<>>
        /\ Head(<<"observed">>) = "observed"
        /\ Rest(<<"observed">>) = <<>>
        /\ Head(<<"close_user">>) = "close_user"
        /\ Rest(<<"close_user">>) = <<>>
        /\ Head(<<"accept">>) = "accept"
        /\ Rest(<<"accept">>) = <<>>
    BY Rests
  <2>2. QED BY <2>1 DEF Notices, Parting, Accepting
<1>5. x \in Reading => Rest(x) \in Reading \cup {<<>>}
  <2>1. /\ Head(<<"can_read", "read">>) = "can_read"
        /\ Rest(<<"can_read", "read">>) = <<"read">>
        /\ Head(<<"can_read", "search">>) = "can_read"
        /\ Rest(<<"can_read", "search">>) = <<"search">>
        /\ Head(<<"can_admin", "list">>) = "can_admin"
        /\ Rest(<<"can_admin", "list">>) = <<"list">>
        /\ Head(<<"is_public", "read">>) = "is_public"
        /\ Rest(<<"is_public", "read">>) = <<"read">>
        /\ Head(<<"is_shared", "read">>) = "is_shared"
        /\ Rest(<<"is_shared", "read">>) = <<"read">>
        /\ Head(<<"read">>) = "read"
        /\ Rest(<<"read">>) = <<>>
        /\ Head(<<"search">>) = "search"
        /\ Rest(<<"search">>) = <<>>
        /\ Head(<<"list">>) = "list"
        /\ Rest(<<"list">>) = <<>>
    BY Rests
  <2>2. QED BY <2>1 DEF Reading
<1>6. x \in Invites => /\ Head(x) = "can_admin" => Rest(x) \in Invites
                       /\ Head(x) = "create_permission" => Rest(x) \in Invited
                       /\ Head(x) \in {"can_admin", "create_permission"}
  <2>1. /\ Head(<<"can_admin", "create_permission", "observe", "metadata", "encrypt", "mail">>) = "can_admin"
        /\ Rest(<<"can_admin", "create_permission", "observe", "metadata", "encrypt", "mail">>)
             = <<"create_permission", "observe", "metadata", "encrypt", "mail">>
        /\ Head(<<"create_permission", "observe", "metadata", "encrypt", "mail">>) = "create_permission"
        /\ Rest(<<"create_permission", "observe", "metadata", "encrypt", "mail">>)
             = <<"observe", "metadata", "encrypt", "mail">>
    BY Rests
  <2>2. QED BY <2>1 DEF Invites, Invited
<1>7. x \in Invited => /\ Head(x) = "mail" => Rest(x) = <<>>
                       /\ Head(x) # "mail" => Rest(x) \in Invited
  <2>1. x \in {<<"encrypt", "mail">>, <<"mail">>, <<"metadata", "encrypt", "mail">>} =>
          /\ Head(x) = "mail" => Rest(x) = <<>>
          /\ Head(x) # "mail" => Rest(x) \in Invited
    BY Rests DEF Invited
  <2>2. x \in {<<"observe", "metadata", "encrypt", "mail">>, <<"observed", "metadata", "encrypt", "mail">>} =>
          Head(x) # "mail" /\ Rest(x) \in Invited
    BY Rests DEF Invited
  <2>3. QED  BY <2>1, <2>2 DEF Invited
<1>8. x \in Removing => /\ Head(x) \in {"can_admin", "find"} => Rest(x) \in Removing
                        /\ Head(x) = "remove" => Rest(x) \in Parting
                        /\ Head(x) \in {"can_admin", "find", "remove"}
  <2>1. /\ Head(<<"can_admin", "find", "remove", "close_user">>) = "can_admin"
        /\ Rest(<<"can_admin", "find", "remove", "close_user">>)
             = <<"find", "remove", "close_user">>
        /\ Head(<<"find", "remove", "close_user">>) = "find"
        /\ Rest(<<"find", "remove", "close_user">>) = <<"remove", "close_user">>
        /\ Head(<<"remove", "close_user">>) = "remove"
        /\ Rest(<<"remove", "close_user">>) = <<"close_user">>
    BY Rests
  <2>2. QED BY <2>1 DEF Removing, Parting
<1>9. x \in Leaving => Rest(x) \in Parting
  BY Rests DEF Leaving, Parting
<1>10. QED  BY <1>1, <1>2, <1>3, <1>4, <1>5, <1>6, <1>7, <1>8, <1>9

\* Which requests stand before a step.
LEMMA Before ==
  ASSUME NEW x \in Todos, x # <<>>
  PROVE  /\ Head(x) = "close_user" <=> x \in Parting
         /\ Head(x) = "close_all" <=> x = <<"close_all">>
         /\ Head(x) = "notify" => x \in Closers \cup Notices
         /\ Head(x) = "notified" => x \in Closers \cup Notices
         /\ Head(x) \in {"observe", "observed"} => x \in Invited \cup Notices \cup Workspace
         /\ Head(x) \in {"metadata", "encrypt", "mail"} => x \in Invited
         /\ Head(x) = "create_permission" => x \in Invites
         /\ Head(x) \in {"create", "upload", "migrate", "update"} => x \in Workspace
         /\ Head(x) = "delete" => x \in Deleting
         /\ Head(x) = "remove" => x \in Removing
         /\ Head(x) = "find" => x \in Removing
         /\ Head(x) \in {"leave", "leave_quietly"} => x \in Leaving
         /\ x \in Leaving => Head(x) = "leave"
         /\ Head(x) = "accept" <=> x \in Accepting
         /\ Head(x) \in {"can_read", "is_public", "is_shared", "read", "search", "list"} =>
              x \in Reading
         /\ Head(x) \in {"can_admin", "is_owner"} =>
              x \in Workspace \cup Deleting \cup Reading \cup Invites \cup Removing
<1>1. x \in Workspace =>
        Head(x) \in {"create", "upload", "migrate", "can_admin", "update"}
  BY DEF Workspace
<1>2. x \in Deleting => Head(x) \in {"is_owner", "delete"}
  BY DEF Deleting
<1>3. x \in Closers => /\ Head(x) \in {"notify", "notified", "close_all"}
                       /\ Head(x) = "close_all" => x = <<"close_all">>
  BY DEF Closers
<1>4. x \in Notices => Head(x) \in {"notify", "notified", "observe", "observed"}
  BY DEF Notices
<1>5. x \in Reading =>
        Head(x) \in {"can_read", "can_admin", "is_public", "is_shared", "read", "search", "list"}
  BY DEF Reading
<1>6. x \in Invites => Head(x) \in {"can_admin", "create_permission"}
  BY DEF Invites
<1>7. x \in Invited => Head(x) \in {"observe", "observed", "metadata", "encrypt", "mail"}
  BY DEF Invited
<1>8. x \in Removing => Head(x) \in {"can_admin", "find", "remove"}
  BY DEF Removing
<1>9. x \in Leaving => Head(x) = "leave"
  BY DEF Leaving
<1>10. x \in Accepting => Head(x) = "accept"
  BY DEF Accepting
<1>11. x \in Parting => Head(x) = "close_user"
  BY DEF Parting
<1>12. Head(<<"close_all">>) = "close_all"
  OBVIOUS
<1>13. x \in Workspace \cup Deleting \cup Closers \cup Notices \cup Reading \cup Invites
               \cup Invited \cup Removing \cup Leaving \cup Accepting \cup Parting
  BY DEF Todos
<1>14. QED
  BY <1>1, <1>2, <1>3, <1>4, <1>5, <1>6, <1>7, <1>8, <1>9, <1>10, <1>11, <1>12, <1>13


\* The steps of different handlers are told apart by what is left of them.
LEMMA Apart ==
  ASSUME NEW x
  PROVE  /\ x = <<>> => x \notin Closers \cup Parting \cup Invites \cup Invited \cup Accepting \cup Leaving
         /\ x \in Closers => x \notin Workspace \cup Deleting \cup Notices \cup Reading \cup Invites
                                      \cup Invited \cup Removing \cup Leaving \cup Accepting \cup Parting
         /\ x \in Parting => x \notin Workspace \cup Deleting \cup Notices \cup Reading \cup Invites
                                      \cup Invited \cup Removing \cup Leaving \cup Accepting
         /\ x \in Invites => x \notin Workspace \cup Deleting \cup Notices \cup Reading \cup Invited
                                      \cup Removing \cup Leaving \cup Accepting
         /\ x \in Invited => x \notin Workspace \cup Deleting \cup Notices \cup Reading
                                      \cup Removing \cup Leaving \cup Accepting
         /\ x \in Leaving \cup Accepting =>
              x \notin Workspace \cup Deleting \cup Notices \cup Reading \cup Removing
         /\ x \in Leaving => x \notin Accepting
<1>1. x = <<>> => x \notin Closers \cup Parting \cup Invites \cup Invited \cup Accepting \cup Leaving
  BY DEF Closers, Parting, Invites, Invited, Accepting, Leaving
<1>2. x \in Closers => x \notin Workspace \cup Deleting \cup Notices \cup Reading \cup Invites
                                \cup Invited \cup Removing \cup Leaving \cup Accepting \cup Parting
  <2>1. x \in Closers => x \notin Workspace \cup Deleting \cup Notices
    BY DEF Closers, Workspace, Deleting, Notices
  <2>2. x \in Closers => x \notin Reading \cup Invites \cup Invited
    BY DEF Closers, Reading, Invites, Invited
  <2>3. x \in Closers => x \notin Removing \cup Leaving \cup Accepting \cup Parting
    BY DEF Closers, Removing, Leaving, Accepting, Parting
  <2>4. QED  BY <2>1, <2>2, <2>3
<1>3. x \in Parting => x \notin Workspace \cup Deleting \cup Notices \cup Reading \cup Invites
                                \cup Invited \cup Removing \cup Leaving \cup Accepting
  BY DEF Parting, Workspace, Deleting, Notices, Reading, Invites, Invited, Removing, Leaving, Accepting
<1>4. x \in Invites => x \notin Workspace \cup Deleting \cup Notices \cup Reading \cup Invited
                                \cup Removing \cup Leaving \cup Accepting
  BY DEF Workspace, Deleting, Notices, Reading, Invites, Invited, Removing, Leaving, Accepting
<1>5. x \in Invited => x \notin Workspace \cup Deleting \cup Notices \cup Reading
                                \cup Removing \cup Leaving \cup Accepting
  BY DEF Workspace, Deleting, Notices, Reading, Invited, Removing, Leaving, Accepting
<1>6. x \in Leaving \cup Accepting =>
        x \notin Workspace \cup Deleting \cup Notices \cup Reading \cup Removing
  BY DEF Workspace, Deleting, Notices, Reading, Removing, Leaving, Accepting
<1>7. x \in Leaving => x \notin Accepting
  BY DEF Leaving, Accepting
<1>8. QED  BY <1>1, <1>2, <1>3, <1>4, <1>5, <1>6, <1>7

\* Every request that is not done has one step after the other.
LEMMA Continued ==
  ASSUME Shape, NEW t \in Tasks, req[t].todo # <<>>, Continue(t)
  PROVE  \E r \in Requests :
           /\ req' = [req EXCEPT ![t] = r]
           /\ r.todo = Rest(req[t].todo)
           /\ r.todo # <<>> => r.user = req[t].user /\ r.whom = req[t].whom /\ r.pid = req[t].pid
<1>1. req[t] \in Requests
  BY DEF Shape
<1>2. Rest(req[t].todo) \in Todos
  <2>1. req[t].todo \in Todos
    BY <1>1 DEF Requests
  <2>2. PICK x \in Todos : x = req[t].todo
    BY <2>1
  <2>3. Rest(x) \in Workspace \cup Notices \cup {<<>>} \cup Deleting \cup Closers \cup Reading
                    \cup Invites \cup Invited \cup Removing \cup Parting
    <3>1. <<"notify", "close_all">> \in Closers /\ <<"close_all">> \in Closers
      BY DEF Closers
    <3>2. x \in Workspace \cup Deleting \cup Closers \cup Notices \cup Reading
               \cup Invites \cup Invited \cup Removing \cup Leaving \cup Accepting \cup Parting
      BY <2>2 DEF Todos
    <3>3. x \in Closers /\ Head(x) = "notify" => Rest(x) \in Closers
      BY Rests DEF Closers
    <3>4. QED  BY <2>2, <3>1, <3>2, <3>3, Walk
  <2>4. QED  BY <2>2, <2>3 DEF Todos
<1>3. CASE Len(req[t].todo) = 1
  <2>1. Idle \in Requests /\ Idle.todo = <<>>
    BY CloudAssumption DEF Idle, Requests, Todos
  <2>2. QED  BY <1>3, <2>1 DEF Continue, Reply, Rest
<1>4. CASE Len(req[t].todo) # 1
  <2>1. PICK r : r = [req[t] EXCEPT !.todo = Tail(req[t].todo)]
    OBVIOUS
  <2>2. req' = [req EXCEPT ![t] = r]
    BY <1>4, <2>1 DEF Continue
  <2>3. r.todo = Rest(req[t].todo)
    BY <1>1, <1>4, <2>1 DEF Requests, Rest
  <2>4. r \in Requests /\ r.user = req[t].user /\ r.whom = req[t].whom /\ r.pid = req[t].pid
    BY <1>1, <1>2, <2>1, <2>3 DEF Requests
  <2>5. QED  BY <2>2, <2>3, <2>4
<1>5. QED  BY <1>3, <1>4

LEMMA Replied ==
  ASSUME NEW t \in Tasks, Reply(t)
  PROVE  \E r \in Requests : req' = [req EXCEPT ![t] = r] /\ r.todo = <<>>
<1>1. Idle \in Requests /\ Idle.todo = <<>>
  BY CloudAssumption DEF Idle, Requests, Todos
<1>2. QED  BY <1>1 DEF Reply

-----------------------------------------------------------------------------
(* One request goes on, the others wait: what each part of the invariant needs. *)

Moved(t, r) == req' = [req EXCEPT ![t] = r]

LEMMA OthersWait ==
  ASSUME Shape, NEW t \in Tasks, NEW r \in Requests, Moved(t, r)
  PROVE  /\ req' \in [Tasks -> Requests]
         /\ req'[t] = r
         /\ \A s \in Tasks : s # t => req'[s] = req[s]
  BY DEF Shape, Moved

LEMMA PersonsMove ==
  ASSUME Shape, Persons, NEW t \in Tasks, NEW r \in Requests, Moved(t, r),
         r.todo \in Invites \cup Invited => r.whom # Owner,
         r.todo \in Leaving \cup Accepting => r.whom = r.user
  PROVE  Persons'
  BY OthersWait DEF Persons

LEMMA FreshMove ==
  ASSUME Shape, Fresh, NEW t \in Tasks, NEW r \in Requests, Moved(t, r), mailed' = mailed,
         \A u \in Users : perm'[u].id = perm[u].id,
         \A u \in Users : perm'[u].st = "accepted" =>
           \/ perm[u].st = "accepted"
           \/ \A s \in Tasks : Inviting(s) => req[s].whom # u \/ req[s].pid # perm[u].id,
         r.todo \in Invited =>
           req[t].todo \in Invited /\ r.whom = req[t].whom /\ r.pid = req[t].pid,
         r.todo \in Accepting => <<r.user, r.pid>> \in mailed
  PROVE  Fresh'
<1>1. \A s \in Tasks : Inviting(s)' =>
        Inviting(s) /\ req'[s].whom = req[s].whom /\ req'[s].pid = req[s].pid /\ req[s].whom \in Users
  <2>1. \A s \in Tasks : req[s].whom \in Users
    BY DEF Shape, Requests
  <2>2. QED  BY <2>1, OthersWait DEF Inviting
<1>2. \A p \in mailed' : p[2] <= perm'[p[1]].id
  BY DEF Fresh, Shape
<1>3. \A s \in Tasks : Inviting(s)' =>
        /\ req'[s].pid <= perm'[req'[s].whom].id
        /\ <<req'[s].whom, req'[s].pid>> \notin mailed'
        /\ perm'[req'[s].whom].id = req'[s].pid => perm'[req'[s].whom].st # "accepted"
  BY <1>1 DEF Fresh
<1>4. \A s, u \in Tasks : Inviting(s)' /\ Inviting(u)' /\ s # u =>
        <<req'[s].whom, req'[s].pid>> # <<req'[u].whom, req'[u].pid>>
  BY <1>1 DEF Fresh
<1>5. \A s \in Tasks : req'[s].todo \in Accepting => <<req'[s].user, req'[s].pid>> \in mailed'
  BY OthersWait DEF Fresh
<1>6. QED  BY <1>2, <1>3, <1>4, <1>5 DEF Fresh, Inviting

LEMMA SocketsMove ==
  ASSUME Shape, SocketsClosed, NEW t \in Tasks, NEW r \in Requests, Moved(t, r),
         req[t].todo \in Closers => r.todo \in Closers,
         req[t].todo \notin Parting,
         \A u \in Users : sock'[u].st \in {"checked", "joined", "open"} /\ ~Accepted(u)' =>
           sock[u].st \in {"checked", "joined", "open"} /\ ~Accepted(u),
         raced \subseteq raced'
  PROVE  SocketsClosed'
<1>1. \A s \in Tasks, u \in Users : Closes(s, u) => Closes(s, u)'
  BY OthersWait DEF Closes
<1>2. QED  BY <1>1 DEF SocketsClosed

LEMMA InvitesMove ==
  ASSUME Shape, InvitesMailed, NEW t \in Tasks, NEW r \in Requests, Moved(t, r),
         \A u \in Users : perm'[u].st = "invited" =>
                            perm[u].st = "invited" /\ perm'[u].id = perm[u].id,
         mailed \subseteq mailed', unsent \subseteq unsent',
         req[t].todo \in Invited =>
           r.todo \in Invited /\ r.whom = req[t].whom /\ r.pid = req[t].pid
  PROVE  InvitesMailed'
<1>1. \A s \in Tasks, u \in Users : Mails(s, u) /\ perm'[u].st = "invited" => Mails(s, u)'
  BY OthersWait DEF Mails, Inviting
<1>2. QED  BY <1>1 DEF InvitesMailed

LEMMA PushesMove ==
  ASSUME Shape, PushesComing, NEW t \in Tasks, NEW r \in Requests, Moved(t, r),
         gsock' = gsock, told' = told, ver' = ver,
         jobs \subseteq jobs', observers \subseteq observers', ~At(t, "notify")
  PROVE  PushesComing'
<1>1. \A s \in Tasks : Notifies(s) => Notifies(s)'
  BY OthersWait DEF Notifies, At
<1>2. \A j, u : Newest(j, u) => Newest(j, u)'
  BY DEF Newest
<1>3. QED  BY <1>1, <1>2 DEF PushesComing

-----------------------------------------------------------------------------
(* Steps that touch no permission, no socket and no invitation. *)

Onward(q, r) ==
  /\ q.todo \in Closers => r.todo \in Closers
  /\ q.todo \notin Parting
  /\ r.todo \in Invites => q.todo \in Invites /\ r.whom = q.whom
  /\ r.todo \in Invited <=> q.todo \in Invited
  /\ r.todo \in Invited => r.whom = q.whom /\ r.pid = q.pid
  /\ r.todo \notin Accepting \cup Leaving

Quiet == /\ perm' = perm /\ ws'.exists = ws.exists
         /\ UNCHANGED <<sock, raced, mailed, unsent>>

LEMMA QuietStep ==
  ASSUME CloudInv, NEW t \in Tasks, NEW r \in Requests, Moved(t, r), Onward(req[t], r), Quiet
  PROVE  Persons' /\ Fresh' /\ SocketsClosed' /\ InvitesMailed'
<1> USE DEF CloudInv, Quiet
<1>1. Persons'
  <2>1. r.todo \in Invites \cup Invited => r.whom # Owner
    BY DEF Persons, Onward
  <2>2. QED  BY <2>1, PersonsMove DEF Onward
<1>2. Fresh'
  BY FreshMove DEF Onward
<1>3. SocketsClosed'
  <2>1. \A u \in Users : Accepted(u)' <=> Accepted(u)
    BY DEF Accepted
  <2>2. QED  BY <2>1, SocketsMove DEF Onward
<1>4. InvitesMailed'
  BY InvitesMove DEF Onward
<1>5. QED  BY <1>1, <1>2, <1>3, <1>4


\* A step that is neither taken on an invitation or before one, nor closes sockets.
LEMMA OnwardSteps ==
  ASSUME Shape, NEW t \in Tasks, req[t].todo # <<>>, Continue(t),
         Head(req[t].todo) \in {"can_read", "is_public", "can_admin", "is_owner", "is_shared",
                                "read", "search", "list", "create", "upload", "migrate", "update",
                                "observed", "notified", "find", "encrypt", "metadata"}
  PROVE  \E r \in Requests : Moved(t, r) /\ Onward(req[t], r) /\ ~At(t, "notify")
<1>1. PICK r \in Requests :
        /\ req' = [req EXCEPT ![t] = r]
        /\ r.todo = Rest(req[t].todo)
        /\ r.todo # <<>> => r.user = req[t].user /\ r.whom = req[t].whom /\ r.pid = req[t].pid
  BY Continued
<1>2. PICK x \in Todos : x = req[t].todo
  BY DEF Shape, Requests
<1>3. /\ Rest(x) = <<>> => Rest(x) \notin Closers \cup Parting \cup Invites \cup Invited \cup Accepting \cup Leaving
  BY Apart
<1>4. x \in Closers => Rest(x) \in Closers
  <2>1. <<"close_all">> \in Closers
    BY DEF Closers
  <2>2. QED  BY <1>2, <2>1, Walk
<1>5. x \notin Parting \cup Accepting \cup Leaving
  BY <1>2, Before
<1>6. Head(x) # "mail" /\ Head(x) # "delete" /\ Head(x) # "create_permission" /\ Head(x) # "remove"
  BY <1>2
<1>7. Onward(req[t], r)
  <2>1. CASE x \in Workspace \cup Deleting \cup Reading \cup Notices \cup Removing
    <3>1. Rest(x) \in Workspace \cup Deleting \cup Reading \cup Notices \cup Removing \cup {<<>>}
      BY <1>2, <1>6, <2>1, Walk
    <3>2. /\ Rest(x) \notin Invites \cup Invited \cup Accepting \cup Leaving
          /\ x \notin Closers \cup Invited
      BY <1>3, <2>1, <3>1, Apart
    <3>3. QED  BY <1>1, <1>2, <1>5, <3>2 DEF Onward
  <2>2. CASE x \in Closers
    <3>1. Rest(x) \notin Invites \cup Invited \cup Accepting \cup Leaving /\ x \notin Invited
      BY <1>4, <2>2, Apart
    <3>2. QED  BY <1>1, <1>2, <1>4, <1>5, <3>1 DEF Onward
  <2>3. CASE x \in Invites
    <3>1. Rest(x) \in Invites /\ x \notin Invited \cup Closers
      BY <1>2, <1>6, <2>3, Walk, Apart
    <3>2. Rest(x) \notin Invited \cup Accepting \cup Leaving \cup {<<>>}
      BY <1>3, <3>1, Apart
    <3>3. r.todo = Rest(x) /\ r.whom = req[t].whom /\ r.pid = req[t].pid
      BY <1>1, <1>2, <3>2
    <3>4. QED  BY <1>2, <1>5, <2>3, <3>1, <3>2, <3>3 DEF Onward
  <2>4. CASE x \in Invited
    <3>1. Rest(x) \in Invited /\ x \notin Invites \cup Closers
      BY <1>2, <1>6, <2>4, Walk, Apart
    <3>2. Rest(x) \notin Invites \cup Accepting \cup Leaving \cup {<<>>}
      BY <1>3, <3>1, Apart
    <3>3. r.todo = Rest(x) /\ r.whom = req[t].whom /\ r.pid = req[t].pid
      BY <1>1, <1>2, <3>2
    <3>4. QED  BY <1>2, <1>5, <2>4, <3>1, <3>2, <3>3 DEF Onward
  <2>5. QED  BY <1>2, <1>5, <2>1, <2>2, <2>3, <2>4 DEF Todos
<1>8. QED  BY <1>1, <1>2, <1>7 DEF Moved, At

\* A request that fails before it has changed anything.
LEMMA OnwardFails ==
  ASSUME Shape, NEW t \in Tasks, req[t].todo # <<>>, Reply(t),
         Head(req[t].todo) \in {"can_read", "is_public", "can_admin", "is_owner", "is_shared",
                                "migrate", "update", "delete", "find", "create_permission",
                                "accept", "leave", "leave_quietly"}
  PROVE  \E r \in Requests : Moved(t, r) /\ Onward(req[t], r) /\ ~At(t, "notify")
<1>1. PICK r \in Requests : req' = [req EXCEPT ![t] = r] /\ r.todo = <<>>
  BY Replied
<1>2. PICK x \in Todos : x = req[t].todo
  BY DEF Shape, Requests
<1>3. r.todo \notin Closers \cup Parting \cup Invites \cup Invited \cup Accepting \cup Leaving
  BY <1>1, Apart
<1>4. x \in Workspace \cup Deleting \cup Reading \cup Invites \cup Removing \cup Accepting \cup Leaving
  BY <1>2, Before
<1>5. x \notin Closers \cup Parting \cup Invited
  BY <1>4, Apart
<1>6. QED  BY <1>1, <1>2, <1>3, <1>5 DEF Moved, Onward, At

-----------------------------------------------------------------------------
(* The steps of a request. *)

Checks(t) == Check(t) \/ CheckPage(t) \/ ReadDoc(t) \/ Upload(t) \/ Migrate(t) \/ Told(t)
             \/ FindPermission(t)

LEMMA ChecksKeep ==
  ASSUME CloudInv, NEW t \in Tasks, Checks(t)
  PROVE  CloudInv'
<1> USE DEF CloudInv
<1>1. \E r \in Requests : Moved(t, r) /\ Onward(req[t], r) /\ ~At(t, "notify")
  <2>1. CASE Check(t)
    <3>1. PICK s \in {"can_read", "is_public", "can_admin", "is_owner"} :
            At(t, s) /\ IF Allowed(s, req[t].user) THEN Continue(t) ELSE Reply(t)
      BY <2>1 DEF Check
    <3>2. QED  BY <3>1, OnwardSteps, OnwardFails DEF At
  <2>2. CASE CheckPage(t)
    BY <2>2, OnwardSteps, OnwardFails DEF CheckPage, At
  <2>3. CASE ReadDoc(t)
    BY <2>3, OnwardSteps DEF ReadDoc, At
  <2>4. CASE Upload(t)
    BY <2>4, OnwardSteps DEF Upload, At
  <2>5. CASE Migrate(t)
    BY <2>5, OnwardSteps, OnwardFails DEF Migrate, At
  <2>6. CASE Told(t)
    BY <2>6, OnwardSteps DEF Told, At
  <2>7. CASE FindPermission(t)
    BY <2>7, OnwardSteps, OnwardFails DEF FindPermission, At
  <2>8. QED  BY <2>1, <2>2, <2>3, <2>4, <2>5, <2>6, <2>7 DEF Checks
<1>2. Quiet /\ ws' \in [exists : BOOLEAN, public : BOOLEAN, stored : BOOLEAN]
      /\ UNCHANGED <<channelVars, count, chan>>
  BY DEF Checks, Check, CheckPage, ReadDoc, Upload, Migrate, Told, FindPermission, Quiet, Shape
<1>3. PICK r \in Requests : Moved(t, r) /\ Onward(req[t], r) /\ ~At(t, "notify")
  BY <1>1
<1>4. Shape'
  BY <1>2, <1>3, OthersWait DEF Shape, Quiet, channelVars
<1>5. PushesComing'
  BY <1>2, <1>3, PushesMove DEF channelVars
<1>6. QED  BY <1>2, <1>3, <1>4, <1>5, QuietStep

\* A step put before what is left.
LEMMA Prepends ==
  ASSUME NEW a, NEW b, NEW c, NEW d
  PROVE  /\ <<a>> \o <<b, c, d>> = <<a, b, c, d>>
         /\ <<a>> \o <<b>> = <<a, b>>
         /\ <<a>> \o <<>> = <<a>>
<1>1. /\ <<b, c, d>> \in Seq({a, b, c, d}) /\ <<a>> \in Seq({a, b, c, d})
      /\ <<b>> \in Seq({a, b, c, d}) /\ <<>> \in Seq({a, b, c, d})
  OBVIOUS
<1>2. <<a>> \o <<b, c, d>> = <<a, b, c, d>>
  <2>1. PICK n : n = <<a>> \o <<b, c, d>>
    OBVIOUS
  <2>2. PICK m : m = <<a, b, c, d>>
    OBVIOUS
  <2>3. Len(n) = 4 /\ n \in Seq({a, b, c, d})
    BY <1>1, <2>1
  <2>4. n[1] = a /\ n[2] = b /\ n[3] = c /\ n[4] = d
    BY <1>1, <2>1
  <2>5. m \in Seq({a, b, c, d}) /\ Len(m) = 4 /\ \A i \in 1..4 : m[i] = n[i]
    BY <2>2, <2>4
  <2>6. m = n
    BY <2>3, <2>5
  <2>7. QED  BY <2>1, <2>2, <2>6
<1>3. <<a>> \o <<b>> = <<a, b>>
  <2>1. PICK n : n = <<a>> \o <<b>>
    OBVIOUS
  <2>2. PICK m : m = <<a, b>>
    OBVIOUS
  <2>3. Len(n) = 2 /\ n \in Seq({a, b, c, d}) /\ n[1] = a /\ n[2] = b
    BY <1>1, <2>1
  <2>4. m \in Seq({a, b, c, d}) /\ Len(m) = 2 /\ \A i \in 1..2 : m[i] = n[i]
    BY <2>2, <2>3
  <2>5. m = n
    BY <2>3, <2>4
  <2>6. QED  BY <2>1, <2>2, <2>5
<1>4. <<a>> \o <<>> = <<a>>
  BY <1>1
<1>5. QED  BY <1>2, <1>3, <1>4

LEMMA ObserveKeeps ==
  ASSUME CloudInv, NEW t \in Tasks, Observe(t)
  PROVE  CloudInv'
<1> USE DEF CloudInv
<1>1. PICK x \in Todos : x = req[t].todo
  BY DEF Shape, Requests
<1>2. x \in Invited \cup Notices \cup Workspace /\ x # <<>> /\ Head(x) = "observe"
  BY <1>1, Before DEF Observe, At
<1>3. x = <<"observe">> \/ x = <<"observe", "metadata", "encrypt", "mail">>
      \/ x \in Workspace
  BY <1>2, Rests DEF Invited, Notices
<1>4. x \notin Workspace
  BY <1>2, Rests DEF Workspace
<1>5. PICK n : n = <<"observed">> \o Tail(x)
  OBVIOUS
<1>6. \/ x = <<"observe">> /\ n = <<"observed">>
      \/ x = <<"observe", "metadata", "encrypt", "mail">>
         /\ n = <<"observed", "metadata", "encrypt", "mail">>
  <2>1. CASE x = <<"observe">>
    BY <1>5, <2>1
  <2>2. CASE x = <<"observe", "metadata", "encrypt", "mail">>
    <3>1. Tail(x) = <<"metadata", "encrypt", "mail">>
      BY <2>2
    <3>2. <<"observed">> \o <<"metadata", "encrypt", "mail">>
            = <<"observed", "metadata", "encrypt", "mail">>
      BY Prepends
    <3>3. QED  BY <1>5, <2>2, <3>1, <3>2
  <2>3. QED  BY <1>3, <1>4, <2>1, <2>2
<1>7. PICK r : r = [req[t] EXCEPT !.todo = n]
  OBVIOUS
<1>8. n \in Todos
  BY <1>6 DEF Todos, Notices, Invited
<1>9. /\ r \in Requests /\ r.todo = n
      /\ r.user = req[t].user /\ r.whom = req[t].whom /\ r.pid = req[t].pid
  BY <1>7, <1>8 DEF Shape, Requests
<1>10. Moved(t, r)
  BY <1>1, <1>5, <1>7 DEF Observe, Moved
<1>11. Onward(req[t], r)
  <2>1. CASE x = <<"observe">>
    <3>1. x \in Notices /\ n \in Notices
      BY <1>6, <2>1 DEF Notices
    <3>2. QED  BY <1>1, <1>9, <3>1, Apart DEF Onward
  <2>2. CASE x = <<"observe", "metadata", "encrypt", "mail">>
    <3>1. x \in Invited /\ n \in Invited
      BY <1>6, <2>2 DEF Invited
    <3>2. QED  BY <1>1, <1>9, <3>1, Apart DEF Onward
  <2>3. QED  BY <1>3, <1>4, <2>1, <2>2
<1>12. Quiet /\ UNCHANGED <<ws, count, chan, gsock, ver, told>>
       /\ jobs \subseteq jobs' /\ observers \subseteq observers'
  BY DEF Observe, Quiet
<1>13. jobs' \subseteq Jobs /\ observers' \subseteq Users
  BY DEF Observe, Update, Jobs, Shape, Requests
<1>14. Shape'
  BY <1>9, <1>10, <1>12, <1>13, OthersWait DEF Shape, Quiet
<1>15. PushesComing'
  BY <1>1, <1>2, <1>9, <1>10, <1>12, PushesMove DEF At
<1>16. QED  BY <1>9, <1>10, <1>11, <1>12, <1>14, <1>15, QuietStep


LEMMA NotifyKeeps ==
  ASSUME CloudInv, NEW t \in Tasks, Notify(t)
  PROVE  CloudInv'
<1> USE DEF CloudInv
<1>1. PICK x \in Todos : x = req[t].todo
  BY DEF Shape, Requests
<1>2. x \in Closers \cup Notices /\ x # <<>> /\ Head(x) = "notify"
  BY <1>1, Before DEF Notify, At
<1>3. x = <<"notify">> \/ x = <<"notify", "close_all">>
  BY <1>2, Rests DEF Closers, Notices
<1>4. PICK n : n = <<"notified">> \o Tail(x)
  OBVIOUS
<1>5. \/ x = <<"notify">> /\ n = <<"notified">>
      \/ x = <<"notify", "close_all">> /\ n = <<"notified", "close_all">>
  <2>1. CASE x = <<"notify">>
    BY <1>4, <2>1
  <2>2. CASE x = <<"notify", "close_all">>
    <3>1. Tail(x) = <<"close_all">>
      BY <2>2
    <3>2. <<"notified">> \o <<"close_all">> = <<"notified", "close_all">>
      BY Prepends
    <3>3. QED  BY <1>4, <2>2, <3>1, <3>2
  <2>3. QED  BY <1>3, <2>1, <2>2
<1>6. PICK r : r = [req[t] EXCEPT !.todo = n]
  OBVIOUS
<1>7. n \in Todos
  BY <1>5 DEF Todos, Notices, Closers
<1>8. /\ r \in Requests /\ r.todo = n
      /\ r.user = req[t].user /\ r.whom = req[t].whom /\ r.pid = req[t].pid
  BY <1>6, <1>7 DEF Shape, Requests
<1>9. Moved(t, r)
  BY <1>1, <1>4, <1>6 DEF Notify, Moved
<1>10. Onward(req[t], r)
  <2>1. CASE x = <<"notify">>
    <3>1. x \in Notices /\ n \in Notices
      BY <1>5, <2>1 DEF Notices
    <3>2. QED  BY <1>1, <1>8, <3>1, Apart DEF Onward
  <2>2. CASE x = <<"notify", "close_all">>
    <3>1. x \in Closers /\ n \in Closers
      BY <1>5, <2>2 DEF Closers
    <3>2. QED  BY <1>1, <1>8, <3>1, Apart DEF Onward
  <2>3. QED  BY <1>3, <2>1, <2>2
<1>11. Quiet /\ UNCHANGED <<ws, count, chan, gsock, ver, told, observers>>
       /\ jobs' = jobs \cup {Update(t, u) : u \in observers}
  BY DEF Notify, Quiet
<1>12. \A u \in observers : Update(t, u) \in Jobs
  BY DEF Update, Jobs, Shape
<1>13. Shape'
  BY <1>8, <1>9, <1>11, <1>12, OthersWait DEF Shape, Quiet
\* Every observer is read again, whatever request was to tell him.
<1>14. PushesComing'
  <2>1. SUFFICES ASSUME NEW u \in Users, gsock'[u] = "open", told'[u] < ver'[u]
                 PROVE  \/ \E j \in jobs' : Newest(j, u)'
                        \/ u \in observers' /\ \E s \in Tasks : Notifies(s)'
    BY DEF PushesComing
  <2>2. CASE \E j \in jobs : Newest(j, u)
    BY <1>11, <2>2 DEF Newest
  <2>3. CASE u \in observers
    <3>1. Update(t, u) \in jobs' /\ Newest(Update(t, u), u)'
      BY <1>11, <2>3 DEF Newest, Update
    <3>2. QED  BY <3>1
  <2>4. QED  BY <1>11, <2>1, <2>2, <2>3 DEF PushesComing
<1>15. QED  BY <1>8, <1>9, <1>10, <1>11, <1>13, <1>14, QuietStep

LEMMA UpdateRowKeeps ==
  ASSUME CloudInv, NEW t \in Tasks, UpdateRow(t)
  PROVE  CloudInv'
<1> USE DEF CloudInv
<1>1. CASE ~ws.exists /\ Reply(t) /\ UNCHANGED <<ws, ver>>
  <2>1. PICK r \in Requests : Moved(t, r) /\ Onward(req[t], r) /\ ~At(t, "notify")
    BY <1>1, OnwardFails DEF UpdateRow, At
  <2>2. Quiet /\ UNCHANGED <<channelVars, count, chan, ws>>
    BY <1>1 DEF UpdateRow, Quiet, channelVars
  <2>3. Shape'
    BY <2>1, <2>2, OthersWait DEF Shape, Quiet, channelVars
  <2>4. PushesComing'
    BY <2>1, <2>2, PushesMove DEF channelVars
  <2>5. QED  BY <2>1, <2>2, <2>3, <2>4, QuietStep
<1>2. CASE /\ ws.exists
           /\ \E p \in BOOLEAN : ws' = [ws EXCEPT !.public = p]
           /\ Changed({u \in observers : Accepted(u)})
           /\ Continue(t)
  <2>1. PICK r \in Requests :
          /\ Moved(t, r) /\ Onward(req[t], r) /\ ~At(t, "notify")
    BY <1>2, OnwardSteps DEF UpdateRow, At
  <2>2. Quiet /\ UNCHANGED <<gsock, told, jobs, observers, count, chan>>
        /\ ws' \in [exists : BOOLEAN, public : BOOLEAN, stored : BOOLEAN]
    BY <1>2 DEF UpdateRow, Quiet, Shape
  <2>3. ver' \in [Users -> Nat] /\ \A u \in Users \ observers : ver'[u] = ver[u]
    BY <1>2 DEF Changed, Shape
  <2>4. Shape'
    BY <2>1, <2>2, <2>3, OthersWait DEF Shape, Quiet
  <2>5. At(t, "notify")'
    <3>1. PICK x \in Todos : x = req[t].todo
      BY DEF Shape, Requests
    <3>2. x # <<>> /\ Head(x) = "update" /\ x \in Workspace
      BY <3>1, Before DEF UpdateRow, At
    <3>3. x = <<"update", "notify">>
      BY <3>2, Rests DEF Workspace
    <3>4. PICK q \in Requests : req' = [req EXCEPT ![t] = q] /\ q.todo = Rest(x)
      BY <1>2, <3>1, <3>2, Continued
    <3>5. q.todo = <<"notify">>
      BY <3>3, <3>4, Rests
    <3>6. req'[t].todo = <<"notify">>
      BY <3>4, <3>5 DEF Shape
    <3>7. QED  BY <3>6 DEF At
  <2>6. PushesComing'
    <3>1. SUFFICES ASSUME NEW u \in Users, gsock'[u] = "open", told'[u] < ver'[u]
                   PROVE  \/ \E j \in jobs' : Newest(j, u)'
                          \/ u \in observers' /\ \E s \in Tasks : Notifies(s)'
      BY DEF PushesComing
    <3>2. CASE u \in observers
      BY <2>2, <2>5, <3>2 DEF Notifies
    <3>3. CASE u \notin observers
      BY <2>2, <2>3, <3>1, <3>3 DEF PushesComing, Newest
    <3>4. QED  BY <3>2, <3>3
  <2>7. QED  BY <2>1, <2>2, <2>4, <2>6, QuietStep
<1>3. QED  BY <1>1, <1>2 DEF UpdateRow


LEMMA CreateRowKeeps ==
  ASSUME CloudInv, NEW t \in Tasks, CreateRow(t)
  PROVE  CloudInv'
<1> USE DEF CloudInv
<1>1. PICK r \in Requests : Moved(t, r) /\ Onward(req[t], r) /\ ~At(t, "notify")
  BY OnwardSteps DEF CreateRow, At
<1>2. /\ ws' \in [exists : BOOLEAN, public : BOOLEAN, stored : BOOLEAN] /\ ws'.exists
      /\ perm' \in [Users -> [st : {"none", "invited", "accepted"}, id : Nat]]
      /\ \A u \in Users : perm'[u].id = perm[u].id
      /\ perm'[Owner].st = "accepted"
      /\ \A u \in Users : u # Owner => perm'[u].st = perm[u].st
      /\ UNCHANGED <<channelVars, count, sock, chan, mailed, unsent, raced>>
  <2>1. ws' = [ws EXCEPT !.exists = TRUE] /\ perm' = [perm EXCEPT ![Owner].st = "accepted"]
    BY DEF CreateRow
  <2>2. /\ ws \in [exists : BOOLEAN, public : BOOLEAN, stored : BOOLEAN]
        /\ perm \in [Users -> [st : {"none", "invited", "accepted"}, id : Nat]]
    BY DEF Shape
  <2>3. ws' \in [exists : BOOLEAN, public : BOOLEAN, stored : BOOLEAN] /\ ws'.exists
    BY <2>1, <2>2
  <2>4. /\ perm' \in [Users -> [st : {"none", "invited", "accepted"}, id : Nat]]
        /\ \A u \in Users : perm'[u].id = perm[u].id
        /\ perm'[Owner].st = "accepted"
        /\ \A u \in Users : u # Owner => perm'[u].st = perm[u].st
    BY <2>1, <2>2, CloudAssumption
  <2>5. UNCHANGED <<channelVars, count, sock, chan, mailed, unsent, raced>>
    BY DEF CreateRow
  <2>6. QED  BY <2>3, <2>4, <2>5
<1>3. Shape'
  BY <1>1, <1>2, OthersWait DEF Shape, channelVars
<1>4. Persons'
  <2>1. r.todo \in Invites \cup Invited => r.whom # Owner
    BY <1>1 DEF Persons, Onward
  <2>2. QED  BY <1>1, <2>1, PersonsMove DEF Onward
<1>5. Fresh'
  <2>1. \A u \in Users : perm'[u].st = "accepted" =>
          \/ perm[u].st = "accepted"
          \/ \A s \in Tasks : Inviting(s) => req[s].whom # u \/ req[s].pid # perm[u].id
    BY <1>2 DEF Persons, Inviting
  <2>2. QED  BY <1>1, <1>2, <2>1, FreshMove DEF Onward
<1>6. SocketsClosed'
  <2>1. \A u \in Users : Accepted(u) => Accepted(u)'
    BY <1>2 DEF Accepted
  <2>2. QED  BY <1>1, <1>2, <2>1, SocketsMove DEF Onward
<1>7. InvitesMailed'
  BY <1>1, <1>2, InvitesMove DEF Onward
<1>8. PushesComing'
  BY <1>1, <1>2, PushesMove DEF channelVars
<1>9. QED  BY <1>3, <1>4, <1>5, <1>6, <1>7, <1>8

LEMMA DeleteRowKeeps ==
  ASSUME CloudInv, NEW t \in Tasks, DeleteRow(t)
  PROVE  CloudInv'
<1> USE DEF CloudInv
<1>1. CASE ~ws.exists /\ Reply(t) /\ UNCHANGED <<ws, perm, ver>>
  <2>1. PICK r \in Requests : Moved(t, r) /\ Onward(req[t], r) /\ ~At(t, "notify")
    BY <1>1, OnwardFails DEF DeleteRow, At
  <2>2. Quiet /\ UNCHANGED <<channelVars, count, chan, ws>>
    BY <1>1 DEF DeleteRow, Quiet, channelVars
  <2>3. Shape'
    BY <2>1, <2>2, OthersWait DEF Shape, Quiet, channelVars
  <2>4. PushesComing'
    BY <2>1, <2>2, PushesMove DEF channelVars
  <2>5. QED  BY <2>1, <2>2, <2>3, <2>4, QuietStep
<1>2. CASE /\ ws.exists
           /\ ws' = [ws EXCEPT !.exists = FALSE, !.public = FALSE]
           /\ perm' = [u \in Users |-> [perm[u] EXCEPT !.st = "none"]]
           /\ Changed({u \in observers : Accepted(u)})
           /\ Continue(t)
  <2>1. PICK x \in Todos : x = req[t].todo
    BY DEF Shape, Requests
  <2>2. x # <<>> /\ Head(x) = "delete" /\ x \in Deleting
    BY <2>1, Before DEF DeleteRow, At
  <2>3. PICK r \in Requests :
          /\ Moved(t, r) /\ r.todo = <<"notify", "close_all">>
          /\ r.whom = req[t].whom
    <3>1. Rest(x) = <<"notify", "close_all">> /\ Rest(x) # <<>>
      BY <2>2, Walk
    <3>2. Shape /\ req[t].todo # <<>> /\ Continue(t)
      BY <1>2, <2>1, <2>2
    <3>3. PICK r \in Requests :
            /\ req' = [req EXCEPT ![t] = r]
            /\ r.todo = Rest(req[t].todo)
            /\ r.todo # <<>> => r.user = req[t].user /\ r.whom = req[t].whom /\ r.pid = req[t].pid
      BY <3>2, Continued
    <3>4. r.todo = <<"notify", "close_all">> /\ r.whom = req[t].whom
      BY <2>1, <3>1, <3>3
    <3>5. QED  BY <3>3, <3>4 DEF Moved
  <2>4. r.todo \in Closers
    BY <2>3 DEF Closers
  <2>5. /\ r.todo \notin Invites \cup Invited \cup Leaving \cup Accepting
        /\ x \notin Parting \cup Invited
    BY <2>2, <2>4, Apart
  <2>6. /\ ws' \in [exists : BOOLEAN, public : BOOLEAN, stored : BOOLEAN]
        /\ perm' \in [Users -> [st : {"none", "invited", "accepted"}, id : Nat]]
        /\ \A u \in Users : perm'[u].id = perm[u].id /\ perm'[u].st = "none"
        /\ UNCHANGED <<gsock, told, jobs, observers, queue, count, sock, chan, mailed, unsent, raced>>
    <3>1. PICK w : w = [ws EXCEPT !.exists = FALSE, !.public = FALSE]
      OBVIOUS
    <3>2. w \in [exists : BOOLEAN, public : BOOLEAN, stored : BOOLEAN] /\ ws' = w
      BY <1>2, <3>1 DEF Shape
    <3>3. /\ perm' \in [Users -> [st : {"none", "invited", "accepted"}, id : Nat]]
          /\ \A u \in Users : perm'[u].id = perm[u].id /\ perm'[u].st = "none"
      BY <1>2 DEF Shape
    <3>4. QED  BY <3>2, <3>3 DEF DeleteRow
  <2>7. ver' \in [Users -> Nat] /\ \A u \in Users \ observers : ver'[u] = ver[u]
    BY <1>2 DEF Changed, Shape
  <2>8. Shape'
    BY <2>3, <2>6, <2>7, OthersWait DEF Shape
  <2>9. Persons'
    BY <2>3, <2>5, PersonsMove
  <2>10. Fresh'
    BY <2>3, <2>5, <2>6, FreshMove
  \* The request that deletes the workspace closes every socket of it.
  <2>11. SocketsClosed'
    <3>1. \A u \in Users : Closes(t, u)'
      BY <2>3, <2>4, OthersWait DEF Closes
    <3>2. QED  BY <3>1 DEF SocketsClosed
  <2>12. InvitesMailed'
    BY <2>6 DEF InvitesMailed
  <2>13. PushesComing'
    <3>1. Notifies(t)'
      <4>1. req'[t].todo = <<"notify", "close_all">>
        BY <2>3, OthersWait
      <4>2. QED  BY <4>1 DEF Notifies, At
    <3>2. SUFFICES ASSUME NEW u \in Users, gsock'[u] = "open", told'[u] < ver'[u]
                   PROVE  \/ \E j \in jobs' : Newest(j, u)'
                          \/ u \in observers' /\ \E s \in Tasks : Notifies(s)'
      BY DEF PushesComing
    <3>3. CASE u \in observers
      BY <2>6, <3>1, <3>3
    <3>4. CASE u \notin observers
      BY <2>6, <2>7, <3>2, <3>4 DEF PushesComing, Newest
    <3>5. QED  BY <3>3, <3>4
  <2>14. QED  BY <2>8, <2>9, <2>10, <2>11, <2>12, <2>13
<1>3. QED  BY <1>1, <1>2 DEF DeleteRow


LEMMA CreatePermissionKeeps ==
  ASSUME CloudInv, NEW t \in Tasks, CreatePermission(t)
  PROVE  CloudInv'
<1> USE DEF CloudInv
<1>1. PICK x \in Todos : x = req[t].todo
  BY DEF Shape, Requests
<1>2. x # <<>> /\ Head(x) = "create_permission" /\ x \in Invites
  BY <1>1, Before DEF CreatePermission, At
<1>3. PICK w \in Users : w = req[t].whom /\ w # Owner
  BY <1>1, <1>2 DEF Persons, Shape, Requests
<1>4. CASE Reply(t) /\ UNCHANGED perm
  <2>1. PICK r \in Requests : Moved(t, r) /\ Onward(req[t], r) /\ ~At(t, "notify")
    BY <1>1, <1>2, <1>4, OnwardFails
  <2>2. Quiet /\ UNCHANGED <<channelVars, count, chan, ws>>
    BY <1>4 DEF CreatePermission, Quiet, channelVars
  <2>3. Shape'
    BY <2>1, <2>2, OthersWait DEF Shape, Quiet, channelVars
  <2>4. PushesComing'
    BY <2>1, <2>2, PushesMove DEF channelVars
  <2>5. QED  BY <2>1, <2>2, <2>3, <2>4, QuietStep
<1>5. CASE /\ ws.exists /\ perm[w].st = "none"
           /\ perm' = [perm EXCEPT ![w] = [st |-> "invited", id |-> @.id + 1]]
           /\ req' = [req EXCEPT ![t].pid = perm'[w].id, ![t].todo = Tail(@)]
  <2>1. /\ perm' \in [Users -> [st : {"none", "invited", "accepted"}, id : Nat]]
        /\ perm'[w].id = perm[w].id + 1 /\ perm'[w].st = "invited"
        /\ \A u \in Users : u # w => perm'[u] = perm[u]
    BY <1>3, <1>5 DEF Shape
  <2>2. Rest(x) = Tail(x) /\ Rest(x) \in Invited
    <3>1. Len(x) # 1
      BY <1>2 DEF Invites
    <3>2. QED  BY <1>2, <3>1, Walk DEF Rest
  <2>3. PICK r : r = [req[t] EXCEPT !.pid = perm'[w].id, !.todo = Tail(x)]
    OBVIOUS
  <2>4. /\ r \in Requests /\ r.todo \in Invited /\ r.todo = Tail(x)
        /\ r.whom = w /\ r.pid = perm[w].id + 1
    <3>1. Tail(x) \in Todos
      BY <2>2 DEF Todos
    <3>2. PICK i \in Nat : i = perm'[w].id
      BY <1>3, <2>1
    <3>3. req[t] \in Requests /\ r = [req[t] EXCEPT !.pid = i, !.todo = Tail(x)]
      BY <2>3, <3>2 DEF Shape
    <3>4. r \in Requests /\ r.todo = Tail(x) /\ r.whom = req[t].whom /\ r.pid = i
      BY <3>1, <3>3 DEF Requests
    <3>5. QED  BY <1>3, <2>1, <2>2, <3>2, <3>4
  <2>5. Moved(t, r)
    BY <1>1, <1>5, <2>3 DEF Moved, Shape, Requests
  <2>6. UNCHANGED <<channelVars, ws, count, sock, chan, mailed, unsent, raced>>
    BY DEF CreatePermission
  <2>7. /\ r.todo \notin Closers \cup Invites \cup Parting \cup Leaving \cup Accepting
        /\ x \notin Closers \cup Invited \cup Parting
    BY <1>2, <2>4, Apart
  <2>8. Shape'
    BY <2>1, <2>4, <2>5, <2>6, OthersWait DEF Shape, channelVars
  <2>9. Persons'
    BY <1>3, <2>4, <2>5, <2>7, PersonsMove
  \* The permission is newer than every other of the user.
  <2>10. Fresh'
    <3>1. \A p \in mailed : p[2] <= perm[p[1]].id /\ p[1] \in Users /\ p[2] \in Nat
      BY DEF Fresh, Shape
    <3>2. \A p \in mailed : p[2] <= perm'[p[1]].id
      BY <1>3, <2>1, <3>1 DEF Shape
    <3>3. \A s \in Tasks : s # t /\ Inviting(s)' =>
            /\ Inviting(s) /\ req'[s] = req[s]
            /\ req[s].whom \in Users /\ req[s].pid \in Nat
            /\ req[s].pid <= perm[req[s].whom].id
      <4>1. \A s \in Tasks : s # t => req'[s] = req[s]
        BY <2>4, <2>5, OthersWait
      <4>2. \A s \in Tasks : req[s].whom \in Users /\ req[s].pid \in Nat
        BY DEF Shape, Requests
      <4>3. QED  BY <4>1, <4>2 DEF Fresh, Inviting
    <3>4. \A s \in Tasks : Inviting(s)' =>
            /\ req'[s].pid <= perm'[req'[s].whom].id
            /\ <<req'[s].whom, req'[s].pid>> \notin mailed
            /\ perm'[req'[s].whom].id = req'[s].pid => perm'[req'[s].whom].st # "accepted"
      <4>1. SUFFICES ASSUME NEW s \in Tasks, Inviting(s)'
                     PROVE  /\ req'[s].pid <= perm'[req'[s].whom].id
                            /\ <<req'[s].whom, req'[s].pid>> \notin mailed
                            /\ perm'[req'[s].whom].id = req'[s].pid
                                 => perm'[req'[s].whom].st # "accepted"
        OBVIOUS
      <4>2. CASE s = t
        <5>1. req'[s] = r
          BY <2>4, <2>5, <4>2, OthersWait
        <5>2. <<w, perm[w].id + 1>> \notin mailed
          BY <1>3, <3>1 DEF Shape
        <5>3. perm'[w].id = perm[w].id + 1 /\ perm[w].id + 1 <= perm'[w].id
          BY <1>3, <2>1 DEF Shape
        <5>4. QED  BY <2>1, <2>4, <5>1, <5>2, <5>3
      <4>3. CASE s # t
        <5>1. /\ req'[s] = req[s] /\ Inviting(s)
              /\ <<req[s].whom, req[s].pid>> \notin mailed
              /\ perm[req[s].whom].id = req[s].pid => perm[req[s].whom].st # "accepted"
          BY <3>3, <4>1, <4>3 DEF Fresh
        <5>2. perm'[req[s].whom].id \in Nat /\ perm[req[s].whom].id \in Nat
              /\ req[s].pid <= perm[req[s].whom].id
          BY <2>1, <3>3, <4>1, <4>3 DEF Shape
        <5>3. QED  BY <2>1, <3>3, <4>1, <4>3, <5>1, <5>2
      <4>4. QED  BY <4>2, <4>3
    <3>5. \A s, u \in Tasks : Inviting(s)' /\ Inviting(u)' /\ s # u =>
            <<req'[s].whom, req'[s].pid>> # <<req'[u].whom, req'[u].pid>>
      <4>1. \A s \in Tasks : s # t /\ Inviting(s)' =>
              <<req'[s].whom, req'[s].pid>> # <<w, perm[w].id + 1>>
        BY <1>3, <3>3 DEF Shape
      <4>2. req'[t].whom = w /\ req'[t].pid = perm[w].id + 1
        BY <2>4, <2>5, OthersWait
      <4>3. QED  BY <3>3, <4>1, <4>2 DEF Fresh
    <3>6. \A s \in Tasks : req'[s].todo \in Accepting => <<req'[s].user, req'[s].pid>> \in mailed
      <4>1. \A s \in Tasks : req'[s].todo \in Accepting => req'[s] = req[s]
        BY <2>4, <2>5, <2>7, OthersWait
      <4>2. \A s \in Tasks : req[s].todo \in Accepting => <<req[s].user, req[s].pid>> \in mailed
        BY DEF Fresh
      <4>3. QED  BY <4>1, <4>2
    <3>7. QED  BY <2>6, <3>2, <3>4, <3>5, <3>6 DEF Fresh, Inviting
  <2>11. SocketsClosed'
    <3>1. \A u \in Users : Accepted(u) => Accepted(u)'
      BY <1>5, <2>1, <2>6 DEF Accepted
    <3>2. QED  BY <1>1, <2>4, <2>5, <2>6, <2>7, <3>1, SocketsMove
  <2>12. InvitesMailed'
    <3>1. Mails(t, w)'
      BY <2>1, <2>4, <2>5, OthersWait DEF Mails, Inviting
    <3>2. \A s \in Tasks, u \in Users : u # w /\ Mails(s, u) => Mails(s, u)'
      BY <1>1, <2>1, <2>4, <2>5, <2>7, OthersWait DEF Mails, Inviting
    <3>3. QED  BY <2>1, <2>6, <3>1, <3>2 DEF InvitesMailed
  <2>13. PushesComing'
    BY <1>1, <1>2, <2>4, <2>5, <2>6, PushesMove DEF channelVars, At
  <2>14. QED  BY <2>8, <2>9, <2>10, <2>11, <2>12, <2>13
<1>6. QED  BY <1>3, <1>4, <1>5 DEF CreatePermission


\* Holds only for the permission of that id, which no request to invite has made
\* if it is accepted.
LEMMA DeletePermissionChanges ==
  ASSUME Shape, NEW w \in Users, NEW pid \in Nat, DeletePermission(w, pid)
  PROVE  /\ perm' \in [Users -> [st : {"none", "invited", "accepted"}, id : Nat]]
         /\ \A u \in Users : perm'[u].id = perm[u].id
         /\ \A u \in Users : perm'[u].st # "none" => perm'[u] = perm[u]
         /\ \A u \in Users : perm'[u] # perm[u] => u = w /\ perm[w].id = pid
         /\ perm'[w].id = pid => perm'[w].st = "none"
<1>1. CASE Holds(w, pid)
  <2>1. perm' = [perm EXCEPT ![w].st = "none"] /\ perm[w].id = pid
    BY <1>1 DEF DeletePermission, Holds
  <2>2. QED  BY <2>1 DEF Shape
<1>2. CASE ~Holds(w, pid)
  <2>1. perm' = perm
    BY <1>2 DEF DeletePermission
  <2>2. QED  BY <1>2, <2>1 DEF Shape, Holds
<1>3. QED  BY <1>1, <1>2

(* A request that invites has mailed, or fails; a failure withdraws the
   permission or notes it as unsent. *)
LEMMA InviteEnds ==
  ASSUME CloudInv, NEW t \in Tasks, NEW r \in Requests, Moved(t, r), r.todo = <<>>,
         Inviting(t), Shape', UNCHANGED <<channelVars, ws, sock, raced>>,
         LET w == req[t].whom  pid == req[t].pid
         IN \/ mailed' = mailed \cup {<<w, pid>>} /\ UNCHANGED <<perm, unsent>>
            \/ unsent' = unsent \cup {<<w, pid>>} /\ UNCHANGED <<perm, mailed>>
            \/ DeletePermission(w, pid) /\ UNCHANGED <<mailed, unsent>>
  PROVE  CloudInv'
<1> USE DEF CloudInv
<1>1. PICK x \in Todos : x = req[t].todo
  BY DEF Shape, Requests
<1>2. PICK w \in Users : w = req[t].whom
  BY DEF Shape, Requests
<1>3. PICK pid \in Nat : pid = req[t].pid
  BY DEF Shape, Requests
<1>4. x \in Invited /\ x \notin Closers \cup Parting
  BY <1>1, Apart DEF Inviting
<1>5. /\ r.todo \notin Closers \cup Parting \cup Invites \cup Invited \cup Accepting \cup Leaving
  BY Apart
<1>6. /\ \A u \in Users : perm'[u].id = perm[u].id
      /\ \A u \in Users : perm'[u].st # "none" => perm'[u] = perm[u]
      /\ \A u \in Users : perm'[u] # perm[u] => u = w /\ perm[w].id = pid
  BY <1>2, <1>3, DeletePermissionChanges
<1>7. Persons'
  BY <1>5, PersonsMove
<1>8. Fresh'
  <2>1. CASE mailed' = mailed
    BY <1>5, <1>6, <2>1, FreshMove
  <2>2. CASE mailed' = mailed \cup {<<w, pid>>} /\ UNCHANGED perm
    <3>1. \A s \in Tasks : Inviting(s)' => s # t /\ Inviting(s) /\ req'[s] = req[s]
      BY <1>5, OthersWait DEF Inviting
    <3>2. \A s \in Tasks : Inviting(s) /\ s # t => <<req[s].whom, req[s].pid>> # <<w, pid>>
      BY <1>2, <1>3 DEF Fresh
    <3>3. \A s \in Tasks : Inviting(s)' =>
            /\ req'[s].pid <= perm'[req'[s].whom].id
            /\ <<req'[s].whom, req'[s].pid>> \notin mailed'
            /\ perm'[req'[s].whom].id = req'[s].pid => perm'[req'[s].whom].st # "accepted"
      BY <2>2, <3>1, <3>2 DEF Fresh
    <3>4. \A s, u \in Tasks : Inviting(s)' /\ Inviting(u)' /\ s # u =>
            <<req'[s].whom, req'[s].pid>> # <<req'[u].whom, req'[u].pid>>
      BY <3>1 DEF Fresh
    <3>5. \A s \in Tasks : req'[s].todo \in Accepting => req'[s] = req[s]
      BY <1>5, OthersWait
    <3>6. \A s \in Tasks : req'[s].todo \in Accepting => <<req'[s].user, req'[s].pid>> \in mailed'
      BY <2>2, <3>5 DEF Fresh
    <3>7. \A p \in mailed' : p[2] <= perm'[p[1]].id
      <4>1. pid <= perm[w].id
        BY <1>2, <1>3 DEF Fresh
      <4>2. QED  BY <2>2, <4>1 DEF Fresh
    <3>8. QED  BY <3>3, <3>4, <3>6, <3>7 DEF Fresh, Inviting
  <2>3. QED  BY <1>2, <1>3, <2>1, <2>2
<1>9. SocketsClosed'
  \* What an invitation made is not accepted before it is mailed.
  <2>1. \A u \in Users : Accepted(u) => Accepted(u)'
    <3>1. perm[w].id = pid => perm[w].st # "accepted"
      BY <1>2, <1>3 DEF Fresh
    <3>2. QED  BY <1>6, <3>1 DEF Accepted
  <2>2. QED  BY <1>1, <1>4, <2>1, SocketsMove
<1>10. InvitesMailed'
  <2>1. SUFFICES ASSUME NEW u \in Users, perm'[u].st = "invited"
                 PROVE  \/ <<u, perm'[u].id>> \in mailed' \cup unsent'
                        \/ \E s \in Tasks : Mails(s, u)'
    BY DEF InvitesMailed
  <2>2. perm'[u] = perm[u] /\ perm[u].st = "invited"
    BY <1>6, <2>1
  <2>3. CASE <<u, perm[u].id>> \in mailed \cup unsent
    BY <2>2, <2>3
  <2>4. CASE \E s \in Tasks : Mails(s, u)
    <3>1. PICK s \in Tasks : Mails(s, u)
      BY <2>4
    <3>2. CASE s # t
      <4>1. Mails(s, u)'
        BY <2>2, <3>1, <3>2, OthersWait DEF Mails, Inviting
      <4>2. QED  BY <4>1
    <3>3. CASE s = t
      <4>1. u = w /\ perm[u].id = pid
        BY <1>2, <1>3, <3>1, <3>3 DEF Mails
      <4>2. ~DeletePermission(w, pid)
        BY <2>1, <2>2, <4>1, DeletePermissionChanges
      <4>3. <<w, pid>> \in mailed' \cup unsent'
        BY <1>2, <1>3, <4>2
      <4>4. QED  BY <2>2, <4>1, <4>3
    <3>4. QED  BY <3>2, <3>3
  <2>5. QED  BY <2>2, <2>3, <2>4 DEF InvitesMailed
<1>11. PushesComing'
  <2>1. ~At(t, "notify")
    BY <1>1, <1>4, Before, Apart DEF At
  <2>2. QED  BY <2>1, PushesMove DEF channelVars
<1>12. QED  BY <1>7, <1>8, <1>9, <1>10, <1>11


LEMMA InvitingKeeps ==
  ASSUME CloudInv, NEW t \in Tasks, Mail(t) \/ Metadata(t) \/ Encrypt(t)
  PROVE  CloudInv'
<1> USE DEF CloudInv
<1>1. PICK x \in Todos : x = req[t].todo
  BY DEF Shape, Requests
<1>2. x # <<>> /\ Head(x) \in {"metadata", "encrypt", "mail"} /\ x \in Invited
  BY <1>1, Before DEF Mail, Metadata, Encrypt, At
<1>3. Inviting(t)
  BY <1>1, <1>2 DEF Inviting
<1>4. UNCHANGED <<channelVars, ws, count, sock, chan, raced>>
  BY DEF Mail, Metadata, Encrypt
<1>5. CASE Continue(t) /\ perm' = perm /\ mailed' = mailed /\ unsent' = unsent /\ Head(x) # "mail"
  <2>1. PICK r \in Requests : Moved(t, r) /\ Onward(req[t], r) /\ ~At(t, "notify")
    BY <1>1, <1>2, <1>5, OnwardSteps
  <2>2. Shape'
    BY <1>4, <1>5, <2>1, OthersWait DEF Shape, channelVars
  <2>3. PushesComing'
    BY <1>4, <2>1, PushesMove DEF channelVars
  <2>4. QED  BY <1>4, <1>5, <2>1, <2>2, <2>3, QuietStep DEF Quiet
<1>6. CASE ~(Continue(t) /\ perm' = perm /\ mailed' = mailed /\ unsent' = unsent
             /\ Head(x) # "mail")
  <2>1. PICK w \in Users : w = req[t].whom
    BY DEF Shape, Requests
  <2>2. PICK pid \in Nat : pid = req[t].pid
    BY DEF Shape, Requests
  <2>3. \/ mailed' = mailed \cup {<<w, pid>>} /\ UNCHANGED <<perm, unsent>>
        \/ unsent' = unsent \cup {<<w, pid>>} /\ UNCHANGED <<perm, mailed>>
        \/ DeletePermission(w, pid) /\ UNCHANGED <<mailed, unsent>>
    BY <1>1, <1>2, <1>6, <2>1, <2>2 DEF Mail, Metadata, Encrypt, At
  <2>4. PICK r \in Requests : Moved(t, r) /\ r.todo = <<>>
    <3>1. Reply(t) \/ (Continue(t) /\ Head(x) = "mail")
      <4>1. CASE Mail(t)
        BY <1>1, <4>1 DEF Mail, At
      <4>2. CASE Metadata(t)
        BY <1>1, <1>6, <4>2 DEF Metadata, At
      <4>3. CASE Encrypt(t)
        BY <1>1, <1>6, <4>3 DEF Encrypt, At
      <4>4. QED  BY <4>1, <4>2, <4>3
    <3>2. Head(x) = "mail" => Rest(x) = <<>>
      BY <1>2, Walk
    <3>3. CASE Reply(t)
      BY <3>3, Replied DEF Moved
    <3>4. CASE Continue(t) /\ Head(x) = "mail"
      BY <1>1, <1>2, <3>2, <3>4, Continued DEF Moved
    <3>5. QED  BY <3>1, <3>3, <3>4
  <2>5. /\ perm' \in [Users -> [st : {"none", "invited", "accepted"}, id : Nat]]
        /\ mailed' \subseteq Users \X Nat
    BY <2>3, DeletePermissionChanges DEF Shape
  <2>6. Shape'
    BY <1>4, <2>4, <2>5, OthersWait DEF Shape, channelVars
  <2>7. QED  BY <1>3, <1>4, <2>1, <2>2, <2>3, <2>4, <2>6, InviteEnds
<1>7. QED  BY <1>5, <1>6

(* Permissions change, every user whose list changes is read again, and no
   invitation is concerned. *)
LEMMA PushedKeeps ==
  ASSUME Shape, PushesComing, NEW t \in Tasks, NEW r \in Requests, Moved(t, r), NEW w \in Users,
         NEW by, jobs' = jobs \cup {Update(by, w)},
         \A u \in Users : u # w => ver'[u] = ver[u],
         UNCHANGED <<gsock, told, observers>>, ~At(t, "notify")
  PROVE  PushesComing'
<1>1. \A s \in Tasks : Notifies(s) => Notifies(s)'
  BY OthersWait DEF Notifies, At
<1>2. Update(by, w) \in jobs' /\ Newest(Update(by, w), w)'
  BY DEF Newest, Update
<1>3. \A j, u : u \in Users /\ u # w /\ Newest(j, u) => Newest(j, u)'
  BY DEF Newest
<1>4. SUFFICES ASSUME NEW u \in Users, gsock'[u] = "open", told'[u] < ver'[u]
               PROVE  \/ \E j \in jobs' : Newest(j, u)'
                      \/ u \in observers' /\ \E s \in Tasks : Notifies(s)'
  BY DEF PushesComing
<1>5. CASE u = w
  BY <1>2, <1>5
<1>6. CASE u # w
  BY <1>1, <1>3, <1>4, <1>6 DEF PushesComing
<1>7. QED  BY <1>5, <1>6

LEMMA AcceptKeeps ==
  ASSUME CloudInv, NEW t \in Tasks, AcceptPermission(t)
  PROVE  CloudInv'
<1> USE DEF CloudInv
<1>1. PICK x \in Todos : x = req[t].todo
  BY DEF Shape, Requests
<1>2. x # <<>> /\ Head(x) = "accept" /\ x \in Accepting
  BY <1>1, Before DEF AcceptPermission, At
<1>3. PICK u \in Users : u = req[t].user
  BY DEF Shape, Requests
<1>4. PICK pid \in Nat : pid = req[t].pid /\ <<u, pid>> \in mailed
  BY <1>1, <1>2, <1>3 DEF Fresh, Shape, Requests
<1>5. CASE ~Holds(u, pid)
  <2>1. Reply(t) /\ UNCHANGED <<perm, ver, jobs>>
    BY <1>3, <1>4, <1>5 DEF AcceptPermission
  <2>2. PICK r \in Requests : Moved(t, r) /\ Onward(req[t], r) /\ ~At(t, "notify")
    BY <1>1, <1>2, <2>1, OnwardFails
  <2>3. Quiet /\ UNCHANGED <<channelVars, count, chan, ws>>
    BY <2>1 DEF AcceptPermission, Quiet, channelVars
  <2>4. Shape'
    BY <2>2, <2>3, OthersWait DEF Shape, Quiet, channelVars
  <2>5. PushesComing'
    BY <2>2, <2>3, PushesMove DEF channelVars
  <2>6. QED  BY <2>2, <2>3, <2>4, <2>5, QuietStep
<1>6. CASE Holds(u, pid)
  <2>1. /\ perm' = [perm EXCEPT ![u].st = "accepted"] /\ Changed({u})
        /\ jobs' = jobs \cup {Update(Spawned, u)} /\ Reply(t)
        /\ UNCHANGED <<observers, gsock, queue, told, ws, count, sock, chan, mailed, unsent, raced>>
    BY <1>3, <1>4, <1>6 DEF AcceptPermission
  <2>2. PICK r \in Requests : Moved(t, r) /\ Onward(req[t], r) /\ ~At(t, "notify")
    BY <1>1, <1>2, <2>1, OnwardFails
  <2>3. PICK q \in Requests : Moved(t, q) /\ q.todo = <<>>
    BY <2>1, Replied DEF Moved
  <2>4. q = r
    BY <2>2, <2>3, OthersWait
  <2>5. /\ perm' \in [Users -> [st : {"none", "invited", "accepted"}, id : Nat]]
        /\ \A v \in Users : perm'[v].id = perm[v].id
        /\ perm'[u].st = "accepted"
        /\ \A v \in Users : v # u => perm'[v] = perm[v]
    BY <2>1 DEF Shape
  <2>6. ver' \in [Users -> Nat] /\ \A v \in Users : v # u => ver'[v] = ver[v]
    BY <2>1 DEF Changed, Shape
  <2>7. Update(Spawned, u) \in Jobs
    BY DEF Update, Jobs
  <2>8. Shape'
    BY <2>1, <2>2, <2>5, <2>6, <2>7, OthersWait DEF Shape
  <2>9. r.todo \notin Invites \cup Invited \cup Closers \cup Leaving \cup Accepting
    BY <2>3, <2>4, Apart
  <2>10. Persons'
    BY <2>2, <2>9, PersonsMove
  \* No request that still invites has made a permission that is accepted.
  <2>11. Fresh'
    <3>1. \A s \in Tasks : Inviting(s) => req[s].whom # u \/ req[s].pid # perm[u].id
      BY <1>4, <1>6 DEF Fresh, Holds
    <3>2. \A v \in Users : perm'[v].st = "accepted" =>
            \/ perm[v].st = "accepted"
            \/ \A s \in Tasks : Inviting(s) => req[s].whom # v \/ req[s].pid # perm[v].id
      BY <2>5, <3>1
    <3>3. r.todo \in Invited =>
            req[t].todo \in Invited /\ r.whom = req[t].whom /\ r.pid = req[t].pid
      BY <2>9
    <3>4. r.todo \in Accepting => <<r.user, r.pid>> \in mailed
      BY <2>9
    <3>5. mailed' = mailed
      BY <2>1
    <3>6. QED  BY <2>2, <2>5, <3>2, <3>3, <3>4, <3>5, FreshMove
  <2>12. SocketsClosed'
    <3>1. \A v \in Users : Accepted(v) => Accepted(v)'
      BY <2>1, <2>5 DEF Accepted
    <3>2. QED  BY <2>1, <2>2, <3>1, SocketsMove DEF Onward
  <2>13. InvitesMailed'
    BY <2>1, <2>2, <2>5, InvitesMove DEF Onward
  <2>14. PushesComing'
    BY <2>1, <2>2, <2>6, PushedKeeps
  <2>15. QED  BY <2>8, <2>10, <2>11, <2>12, <2>13, <2>14
<1>7. QED  BY <1>5, <1>6


(* Who leaves or is removed has no permission when his socket is closed, by the
   same request and next. *)
LEMMA PartingKeeps ==
  ASSUME CloudInv, NEW t \in Tasks, NEW r \in Requests, Moved(t, r), r.todo \in Parting,
         req[t].todo \in Leaving \cup Removing,
         NEW w \in Users, r.whom = w,
         perm' \in [Users -> [st : {"none", "invited", "accepted"}, id : Nat]],
         \A u \in Users : perm'[u].id = perm[u].id,
         \A u \in Users : u # w => perm'[u] = perm[u],
         perm'[w] # perm[w] => perm'[w].st = "none",
         jobs' = jobs \cup {Update(Spawned, w)},
         ver' \in [Users -> Nat], \A u \in Users : u # w => ver'[u] = ver[u],
         UNCHANGED <<observers, gsock, queue, told, ws, count, sock, chan, mailed, unsent, raced>>
  PROVE  CloudInv'
<1> USE DEF CloudInv
<1>1. r.todo \notin Invites \cup Invited \cup Closers \cup Leaving \cup Accepting
  BY Apart
<1>2. req[t].todo \notin Closers \cup Parting \cup Invited
  BY Apart
<1>3. Update(Spawned, w) \in Jobs
  BY DEF Update, Jobs
<1>4. Shape'
  BY <1>3, OthersWait DEF Shape
<1>5. Persons'
  BY <1>1, PersonsMove
<1>6. Fresh'
  <2>1. \A v \in Users : perm'[v].st = "accepted" => perm[v].st = "accepted"
    OBVIOUS
  <2>2. r.todo \in Accepting => <<r.user, r.pid>> \in mailed
    BY <1>1
  <2>3. r.todo \in Invited =>
          req[t].todo \in Invited /\ r.whom = req[t].whom /\ r.pid = req[t].pid
    BY <1>1
  <2>4. QED  BY <2>1, <2>2, <2>3, FreshMove
<1>7. SocketsClosed'
  <2>1. Closes(t, w)'
    BY OthersWait DEF Closes
  <2>2. \A s \in Tasks, u \in Users : Closes(s, u) => Closes(s, u)'
    BY <1>2, OthersWait DEF Closes
  <2>3. \A u \in Users : u # w => (Accepted(u)' <=> Accepted(u))
    BY DEF Accepted
  <2>4. QED  BY <2>1, <2>2, <2>3 DEF SocketsClosed
<1>8. InvitesMailed'
  <2>1. \A u \in Users : perm'[u].st = "invited" =>
                            perm[u].st = "invited" /\ perm'[u].id = perm[u].id
    OBVIOUS
  <2>2. QED  BY <1>2, <2>1, InvitesMove
<1>9. PushesComing'
  <2>1. ~At(t, "notify")
    <3>1. PICK x \in Todos : x = req[t].todo
      BY DEF Shape, Requests
    <3>2. x # <<>> => Head(x) # "notify"
      BY <3>1, Before, Walk
    <3>3. QED  BY <3>1, <3>2 DEF At
  <2>2. QED  BY <2>1, PushedKeeps
<1>10. QED  BY <1>4, <1>5, <1>6, <1>7, <1>8, <1>9

LEMMA LeaveKeeps ==
  ASSUME CloudInv, NEW t \in Tasks, Leave(t)
  PROVE  CloudInv'
<1> USE DEF CloudInv
<1>1. PICK x \in Todos : x = req[t].todo
  BY DEF Shape, Requests
<1>2. x # <<>> /\ Head(x) = "leave" /\ x \in Leaving
  BY <1>1, Before DEF Leave, At
<1>3. PICK w \in Users : w = req[t].user /\ w = req[t].whom
  BY <1>1, <1>2 DEF Persons, Shape, Requests
<1>4. CASE perm[w].st = "none"
  <2>1. Reply(t) /\ perm' = perm /\ UNCHANGED <<ver, jobs>>
    <3>1. perm' = [perm EXCEPT ![w].st = "none"]
      BY <1>3 DEF Leave
    <3>2. perm' = perm
      BY <1>4, <3>1 DEF Shape
    <3>3. QED  BY <1>3, <1>4, <3>2 DEF Leave
  <2>2. PICK r \in Requests : Moved(t, r) /\ Onward(req[t], r) /\ ~At(t, "notify")
    BY <1>1, <1>2, <2>1, OnwardFails
  <2>3. Quiet /\ UNCHANGED <<channelVars, count, chan, ws>>
    BY <2>1 DEF Leave, Quiet, channelVars
  <2>4. Shape'
    BY <2>2, <2>3, OthersWait DEF Shape, Quiet, channelVars
  <2>5. PushesComing'
    BY <2>2, <2>3, PushesMove DEF channelVars
  <2>6. QED  BY <2>2, <2>3, <2>4, <2>5, QuietStep
<1>5. CASE perm[w].st # "none"
  <2>1. /\ perm' = [perm EXCEPT ![w].st = "none"] /\ Changed({w})
        /\ jobs' = jobs \cup {Update(Spawned, w)} /\ Continue(t)
        /\ UNCHANGED <<observers, gsock, queue, told, ws, count, sock, chan, mailed, unsent, raced>>
    BY <1>1, <1>2, <1>3, <1>5 DEF Leave, At
  <2>2. PICK r \in Requests : Moved(t, r) /\ r.todo \in Parting /\ r.whom = w
    <3>1. Rest(x) \in Parting /\ Rest(x) # <<>>
      BY <1>2, Walk, Apart
    <3>2. QED  BY <1>1, <1>2, <1>3, <2>1, <3>1, Continued DEF Moved
  <2>3. /\ perm' \in [Users -> [st : {"none", "invited", "accepted"}, id : Nat]]
        /\ \A v \in Users : perm'[v].id = perm[v].id
        /\ perm'[w].st = "none"
        /\ \A v \in Users : v # w => perm'[v] = perm[v]
    BY <2>1 DEF Shape
  <2>4. ver' \in [Users -> Nat] /\ \A v \in Users : v # w => ver'[v] = ver[v]
    BY <2>1 DEF Changed, Shape
  <2>5. QED  BY <1>1, <1>2, <2>1, <2>2, <2>3, <2>4, PartingKeeps
<1>6. QED  BY <1>4, <1>5

LEMMA RemoveKeeps ==
  ASSUME CloudInv, NEW t \in Tasks, Remove(t)
  PROVE  CloudInv'
<1> USE DEF CloudInv
<1>1. PICK x \in Todos : x = req[t].todo
  BY DEF Shape, Requests
<1>2. x # <<>> /\ Head(x) = "remove" /\ x \in Removing
  BY <1>1, Before DEF Remove, At
<1>3. PICK w \in Users : w = req[t].whom
  BY DEF Shape, Requests
<1>4. PICK pid \in Nat : pid = req[t].pid
  BY DEF Shape, Requests
<1>5. /\ DeletePermission(w, pid)
      /\ Changed(IF Holds(w, pid) THEN {w} ELSE {})
      /\ jobs' = jobs \cup {Update(Spawned, w)} /\ Continue(t)
      /\ UNCHANGED <<observers, gsock, queue, told, ws, count, sock, chan, mailed, unsent, raced>>
  BY <1>3, <1>4 DEF Remove
<1>6. PICK r \in Requests : Moved(t, r) /\ r.todo \in Parting /\ r.whom = w
  <2>1. Rest(x) \in Parting /\ Rest(x) # <<>>
    BY <1>2, Walk, Apart
  <2>2. QED  BY <1>1, <1>2, <1>3, <1>5, <2>1, Continued DEF Moved
<1>7. ver' \in [Users -> Nat] /\ \A v \in Users : v # w => ver'[v] = ver[v]
  BY <1>5 DEF Changed, Shape
<1>8. /\ perm' \in [Users -> [st : {"none", "invited", "accepted"}, id : Nat]]
      /\ \A v \in Users : perm'[v].id = perm[v].id
      /\ \A v \in Users : v # w => perm'[v] = perm[v]
      /\ perm'[w] # perm[w] => perm'[w].st = "none"
  BY <1>5, DeletePermissionChanges
<1>9. QED  BY <1>1, <1>2, <1>5, <1>6, <1>7, <1>8, PartingKeeps


(* A socket that is closed, or is passed over and noted, no longer waits for a
   request to close it. *)
LEMMA CloseUserKeeps ==
  ASSUME CloudInv, NEW t \in Tasks, CloseUser(t)
  PROVE  CloudInv'
<1> USE DEF CloudInv
<1>1. PICK x \in Todos : x = req[t].todo
  BY DEF Shape, Requests
<1>2. x # <<>> /\ x \in Parting
  BY <1>1, Before DEF CloseUser, At
<1>3. PICK w \in Users : w = req[t].whom
  BY DEF Shape, Requests
<1>4. PICK r \in Requests : Moved(t, r) /\ r.todo = <<>>
  <2>1. Rest(x) = <<>>
    BY <1>2, Walk
  <2>2. QED  BY <1>1, <1>2, <2>1, Continued DEF CloseUser, Moved
<1>5. /\ sock' = Closing({w}) /\ raced' = raced \cup Missed({w})
      /\ chan' = chan \/ chan' = 0
      /\ UNCHANGED <<channelVars, ws, perm, count, mailed, unsent>>
  BY <1>3 DEF CloseUser
<1>6. sock' \in [Users -> [st : {"closed", "checked", "joined", "open", "closing"}, ch : Nat]]
  BY <1>5 DEF Closing, Shape
<1>7. Shape'
  <2>1. chan' \in Nat
    BY <1>5 DEF Shape
  <2>2. req' \in [Tasks -> Requests]
    BY <1>4, OthersWait
  <2>3. QED  BY <1>5, <1>6, <2>1, <2>2 DEF Shape, channelVars
<1>8. /\ r.todo \notin Closers \cup Parting \cup Invites \cup Invited \cup Accepting \cup Leaving
      /\ x \notin Closers \cup Invited \cup Notices
  BY <1>2, <1>4, Apart
<1>9. Persons'
  BY <1>4, <1>8, PersonsMove
<1>10. Fresh'
  BY <1>4, <1>5, <1>8, FreshMove
<1>11. SocketsClosed'
  <2>1. SUFFICES ASSUME NEW u \in Users, sock'[u].st \in {"checked", "joined", "open"},
                        ~Accepted(u)'
                 PROVE  u \in raced' \/ \E s \in Tasks : Closes(s, u)'
    BY DEF SocketsClosed
  <2>2. CASE u = w
    BY <1>5, <2>1, <2>2 DEF Closing, Missed, Shape
  <2>3. CASE u # w
    <3>1. sock'[u] = sock[u] /\ ~Accepted(u)
      BY <1>5, <2>1, <2>3 DEF Closing, Accepted
    <3>2. \A s \in Tasks : Closes(s, u) => Closes(s, u)'
      BY <1>1, <1>3, <1>4, <1>8, <2>3, OthersWait DEF Closes
    <3>3. QED  BY <1>5, <2>1, <3>1, <3>2 DEF SocketsClosed
  <2>4. QED  BY <2>2, <2>3
<1>12. InvitesMailed'
  BY <1>1, <1>4, <1>5, <1>8, InvitesMove
<1>13. PushesComing'
  <2>1. ~At(t, "notify")
    BY <1>1, <1>2, Before DEF At
  <2>2. QED  BY <1>4, <1>5, <2>1, PushesMove DEF channelVars
<1>14. QED  BY <1>7, <1>9, <1>10, <1>11, <1>12, <1>13

LEMMA CloseAllKeeps ==
  ASSUME CloudInv, NEW t \in Tasks, CloseAll(t)
  PROVE  CloudInv'
<1> USE DEF CloudInv
<1>1. PICK x \in Todos : x = req[t].todo
  BY DEF Shape, Requests
<1>2. x # <<>> /\ Head(x) = "close_all" /\ x = <<"close_all">> /\ x \in Closers
  <2>1. <<"close_all">> \in Closers
    BY DEF Closers
  <2>2. QED  BY <1>1, <2>1, Before DEF CloseAll, At
<1>3. PICK r \in Requests : Moved(t, r) /\ r.todo = <<>>
  <2>1. Rest(x) = <<>>
    BY <1>2, Walk
  <2>2. QED  BY <1>1, <1>2, <2>1, Continued DEF CloseAll, Moved
<1>4. /\ sock' = Closing(Users) /\ raced' = raced \cup Missed(Users) /\ chan' = 0
      /\ UNCHANGED <<channelVars, ws, perm, count, mailed, unsent>>
  BY DEF CloseAll
<1>5. sock' \in [Users -> [st : {"closed", "checked", "joined", "open", "closing"}, ch : Nat]]
  BY <1>4 DEF Closing, Shape
<1>6. Missed(Users) \subseteq Users
  BY DEF Missed
<1>7. Shape'
  BY <1>3, <1>4, <1>5, <1>6, OthersWait DEF Shape, channelVars
<1>8. /\ r.todo \notin Closers \cup Parting \cup Invites \cup Invited \cup Accepting \cup Leaving
      /\ x \notin Invited
  BY <1>2, <1>3, Apart
<1>9. Persons'
  BY <1>3, <1>8, PersonsMove
<1>10. Fresh'
  BY <1>3, <1>4, <1>8, FreshMove
<1>11. SocketsClosed'
  BY <1>4 DEF SocketsClosed, Closing, Missed, Shape
<1>12. InvitesMailed'
  BY <1>1, <1>3, <1>4, <1>8, InvitesMove
<1>13. PushesComing'
  BY <1>1, <1>2, <1>3, <1>4, PushesMove DEF channelVars, At
<1>14. QED  BY <1>7, <1>9, <1>10, <1>11, <1>12, <1>13

\* Which handlers begin how.
LEMMA Begins ==
  ASSUME NEW op \in DOMAIN Handlers
  PROVE  \/ op = "invite" /\ Handlers[op] \in Invites
         \/ op = "accept" /\ Handlers[op] \in Accepting
         \/ op = "leave" /\ Handlers[op] \in Leaving
         \/ Handlers[op] \in Workspace \cup Deleting \cup Reading \cup Removing
<1>1. op \in {"create", "update", "delete", "list", "get", "doc", "search", "members", "user",
              "public", "page", "invite", "accept", "leave", "remove"}
  BY DEF Handlers
<1>2. CASE op \in {"create", "update"}
  BY <1>2 DEF Handlers, Workspace, create_workspace, update_workspace
<1>3. CASE op \in {"delete", "remove"}
  BY <1>3 DEF Handlers, Deleting, Removing, delete_workspace, remove_user
<1>4. CASE op \in {"list", "get", "doc", "search"}
  BY <1>4 DEF Handlers, Reading, get_workspaces, get_workspace_by_id, get_doc, search_workspace
<1>5. CASE op \in {"members", "user", "public", "page"}
  BY <1>5 DEF Handlers, Reading, get_members, query_user, get_public_doc, get_public_page
<1>6. CASE op = "invite"
  BY <1>6 DEF Handlers, Invites, invite_member
<1>7. CASE op = "accept"
  BY <1>7 DEF Handlers, Accepting, accept_invitation
<1>8. CASE op = "leave"
  BY <1>8 DEF Handlers, Leaving, leave_workspace
<1>9. QED  BY <1>1, <1>2, <1>3, <1>4, <1>5, <1>6, <1>7, <1>8

LEMMA RequestKeeps ==
  ASSUME CloudInv, NEW t \in Tasks, NEW op \in DOMAIN Handlers, NEW u \in Users, NEW w \in Users,
         NEW pid \in Named(op, w), Request(t, op, u, w, pid)
  PROVE  CloudInv'
<1> USE DEF CloudInv
<1>1. PICK r : r = [user |-> u, whom |-> w, pid |-> pid, todo |-> Handlers[op]]
  OBVIOUS
<1>2. pid \in Nat /\ (op = "accept" => <<w, pid>> \in mailed)
  BY CloudAssumption DEF Named, Shape
<1>3. Handlers[op] \in Todos
  BY Begins DEF Todos
<1>4. /\ r \in Requests /\ r.user = u /\ r.whom = w /\ r.pid = pid /\ r.todo = Handlers[op]
      /\ Moved(t, r)
  BY <1>1, <1>2, <1>3 DEF Request, Moved, Requests
<1>5. req[t].todo = <<>>
  BY DEF Request, Idle
<1>6. req[t].todo \notin Closers \cup Parting \cup Invited
  BY <1>5, Apart
<1>7. UNCHANGED <<channelVars, ws, perm, sock, chan, mailed, unsent, raced>> /\ count' = count + 1
  BY DEF Request
<1>8. Shape'
  BY <1>4, <1>7, OthersWait DEF Shape, channelVars
<1>9. /\ r.todo \notin Invited
      /\ r.todo \in Invites => op = "invite"
      /\ r.todo \in Accepting => op = "accept"
      /\ r.todo \in Leaving => op = "leave"
  BY <1>4, Begins, Apart
<1>10. /\ op = "invite" => w # Owner
       /\ op \in {"accept", "leave"} => w = u
  BY DEF Request, Sensible
<1>11. Persons'
  BY <1>4, <1>9, <1>10, PersonsMove
<1>12. Fresh'
  BY <1>2, <1>4, <1>7, <1>9, <1>10, FreshMove
<1>13. SocketsClosed'
  <2>1. \A v \in Users : Accepted(v)' <=> Accepted(v)
    BY <1>7 DEF Accepted
  <2>2. QED  BY <1>4, <1>6, <1>7, <2>1, SocketsMove
<1>14. InvitesMailed'
  BY <1>4, <1>6, <1>7, InvitesMove
<1>15. PushesComing'
  BY <1>4, <1>5, <1>7, PushesMove DEF channelVars, At
<1>16. QED  BY <1>8, <1>11, <1>12, <1>13, <1>14, <1>15

-----------------------------------------------------------------------------
(* Sockets come and go while every request waits. *)

LEMMA SocketKeeps ==
  ASSUME CloudInv, NEW u \in Users,
         ws_handler(u) \/ JoinChannel(u) \/ Listen(u) \/ Disconnect(u)
  PROVE  CloudInv'
<1> USE DEF CloudInv
<1>1. UNCHANGED <<channelVars, ws, perm, req, mailed, unsent>>
  BY DEF ws_handler, JoinChannel, Listen, Disconnect
<1>2. count' \in Nat /\ chan' \in Nat
  BY DEF ws_handler, JoinChannel, Listen, Disconnect, Shape
<1>3. sock' \in [Users -> [st : {"closed", "checked", "joined", "open", "closing"}, ch : Nat]]
  <2>1. CASE ws_handler(u)
    BY <2>1 DEF ws_handler, Shape
  <2>2. CASE JoinChannel(u)
    BY <1>2, <2>2 DEF JoinChannel, Shape
  <2>3. CASE Listen(u)
    BY <2>3 DEF Listen, Shape
  <2>4. CASE Disconnect(u)
    BY <2>4 DEF Disconnect, Closed, Shape
  <2>5. QED  BY <2>1, <2>2, <2>3, <2>4
<1>4. Shape'
  BY <1>1, <1>2, <1>3 DEF Shape, channelVars
<1>5. Persons' /\ Fresh' /\ InvitesMailed'
  BY <1>1 DEF Persons, Fresh, InvitesMailed, Inviting, Mails
<1>6. PushesComing'
  BY <1>1 DEF PushesComing, Newest, Notifies, At, channelVars
<1>7. \A v \in Users : Accepted(v)' <=> Accepted(v)
  BY <1>1 DEF Accepted
<1>8. \A s, v : Closes(s, v)' <=> Closes(s, v)
  BY <1>1 DEF Closes
\* A socket is only let in with a permission.
<1>9. SocketsClosed'
  <2>1. CASE ws_handler(u)
    <3>1. Accepted(u) /\ raced' = raced \ {u} /\ \A v \in Users : v # u => sock'[v] = sock[v]
      BY <2>1 DEF ws_handler, Allowed, Shape
    <3>2. QED  BY <1>7, <1>8, <3>1 DEF SocketsClosed
  <2>2. CASE JoinChannel(u) \/ Listen(u) \/ Disconnect(u)
    <3>1. /\ raced' = raced
          /\ \A v \in Users : sock'[v].st \in {"checked", "joined", "open"} =>
               sock[v].st \in {"checked", "joined", "open"}
      BY <2>2 DEF JoinChannel, Listen, Disconnect, Closed, Shape
    <3>2. QED  BY <1>7, <1>8, <3>1 DEF SocketsClosed
  <2>3. QED  BY <2>1, <2>2
<1>10. QED  BY <1>4, <1>5, <1>6, <1>9

-----------------------------------------------------------------------------
(* Pushes to the sockets of a user. *)

LEMMA OthersOfCloud ==
  ASSUME CloudInv, UNCHANGED <<ws, perm, req, sock, chan, mailed, unsent, raced>>
  PROVE  Persons' /\ Fresh' /\ InvitesMailed' /\ SocketsClosed'
  BY DEF CloudInv, Persons, Fresh, InvitesMailed, SocketsClosed, Inviting, Mails, Closes, Accepted

\* A push that reads has the newest list.
LEMMA ReadKeeps ==
  ASSUME CloudInv, NEW j \in jobs, PushRead(j), UNCHANGED cloudVars
  PROVE  CloudInv'
<1> USE DEF CloudInv
<1>1. PICK n : n = [j EXCEPT !.st = "send", !.v = ver[j.u]]
  OBVIOUS
<1>2. j \in Jobs /\ j.u \in Users /\ ver[j.u] \in Nat
  BY DEF Shape, Jobs
<1>3. n \in Jobs /\ n.u = j.u /\ n.v = ver[j.u]
  BY <1>1, <1>2 DEF Jobs
<1>4. jobs' = (jobs \ {j}) \cup {n} /\ UNCHANGED <<observers, gsock, queue, ver, told>>
  BY <1>1 DEF PushRead
<1>5. UNCHANGED <<ws, perm, req, count, sock, chan, mailed, unsent, raced>>
  BY DEF cloudVars
<1>6. Shape'
  BY <1>3, <1>4, <1>5 DEF Shape
<1>7. PushesComing'
  <2>1. SUFFICES ASSUME NEW u \in Users, gsock'[u] = "open", told'[u] < ver'[u]
                 PROVE  \/ \E k \in jobs' : Newest(k, u)'
                        \/ u \in observers' /\ \E s \in Tasks : Notifies(s)'
    BY DEF PushesComing
  <2>2. CASE \E k \in jobs : Newest(k, u)
    <3>1. PICK k \in jobs : Newest(k, u)
      BY <2>2
    <3>2. CASE k = j
      <4>1. n \in jobs' /\ Newest(n, u)'
        BY <1>3, <1>4, <3>1, <3>2 DEF Newest
      <4>2. QED  BY <4>1
    <3>3. CASE k # j
      <4>1. k \in jobs' /\ Newest(k, u)'
        BY <1>4, <3>1, <3>3 DEF Newest
      <4>2. QED  BY <4>1
    <3>4. QED  BY <3>2, <3>3
  <2>3. CASE u \in observers /\ \E s \in Tasks : Notifies(s)
    BY <1>4, <1>5, <2>3 DEF Notifies, At
  <2>4. QED  BY <1>4, <2>1, <2>2, <2>3 DEF PushesComing
<1>8. QED  BY <1>5, <1>6, <1>7, OthersOfCloud

\* What a push sends is told, and what it had to tell is told with it.
LEMMA SendKeeps ==
  ASSUME CloudInv, NEW j \in jobs, PushSend(j), UNCHANGED cloudVars
  PROVE  CloudInv'
<1> USE DEF CloudInv
<1>1. j \in Jobs /\ j.u \in Users /\ j.v \in Nat /\ j.st = "send"
  BY DEF Shape, Jobs, PushSend
<1>2. UNCHANGED <<ws, perm, req, count, sock, chan, mailed, unsent, raced>>
  BY DEF cloudVars
<1>3. /\ jobs' = jobs \ {j} /\ UNCHANGED <<observers, ver>>
      /\ gsock' \in [Users -> {"none", "open", "dead"}] /\ told' \in [Users -> Nat]
      /\ \A u \in Users : gsock'[u] = "open" =>
           /\ gsock[u] = "open"
           /\ told'[u] = told[u] \/ (told[u] <= told'[u] /\ told'[u] \in Nat)
           /\ u = j.u => j.v <= told'[u]
  <2>1. CASE gsock[j.u] = "open"
    BY <1>1, <2>1 DEF PushSend, Shape
  <2>2. CASE gsock[j.u] # "open"
    BY <1>1, <2>2 DEF PushSend, Shape
  <2>3. QED  BY <2>1, <2>2
<1>4. Shape'
  BY <1>2, <1>3 DEF Shape
<1>5. PushesComing'
  <2>1. SUFFICES ASSUME NEW u \in Users, gsock'[u] = "open", told'[u] < ver'[u]
                 PROVE  \/ \E k \in jobs' : Newest(k, u)'
                        \/ u \in observers' /\ \E s \in Tasks : Notifies(s)'
    BY DEF PushesComing
  <2>2. gsock[u] = "open" /\ told[u] < ver[u]
    BY <1>3, <2>1 DEF Shape
  <2>3. CASE \E k \in jobs : Newest(k, u)
    <3>1. PICK k \in jobs : Newest(k, u)
      BY <2>3
    <3>2. k # j
      BY <1>1, <1>3, <2>1, <3>1 DEF Newest, Shape
    <3>3. k \in jobs' /\ Newest(k, u)'
      BY <1>3, <3>1, <3>2 DEF Newest
    <3>4. QED  BY <3>3
  <2>4. CASE u \in observers /\ \E s \in Tasks : Notifies(s)
    BY <1>2, <1>3, <2>4 DEF Notifies, At
  <2>5. QED  BY <2>2, <2>3, <2>4 DEF PushesComing
<1>6. QED  BY <1>2, <1>4, <1>5, OthersOfCloud

LEMMA GlobalKeeps ==
  ASSUME CloudInv, NEW u \in Users, global_ws_handler(u) \/ EndGlobal(u) \/ Drain(u)
  PROVE  CloudInv'
<1> USE DEF CloudInv
<1>1. UNCHANGED <<ws, perm, req, sock, chan, mailed, unsent, raced>> /\ count' \in Nat
  BY DEF global_ws_handler, EndGlobal, Drain, cloudVars, Shape
<1>2. CASE global_ws_handler(u)
  <2>1. /\ gsock' = [gsock EXCEPT ![u] = "open"] /\ told' = [told EXCEPT ![u] = 0]
        /\ observers \subseteq observers' /\ observers' \subseteq Users
        /\ jobs' = jobs \cup {Update(u, u)} /\ ver' = ver
    BY <1>2 DEF global_ws_handler, OpenGlobal, Shape
  <2>2. Update(u, u) \in Jobs
    BY DEF Update, Jobs
  <2>3. Shape'
    BY <1>1, <2>1, <2>2 DEF Shape
  <2>4. PushesComing'
    <3>1. Update(u, u) \in jobs' /\ Newest(Update(u, u), u)'
      BY <2>1 DEF Newest, Update
    <3>2. \A v \in Users : v # u => gsock'[v] = gsock[v] /\ told'[v] = told[v]
      BY <2>1 DEF Shape
    <3>3. QED  BY <1>1, <2>1, <3>1, <3>2 DEF PushesComing, Newest, Notifies, At
  <2>5. QED  BY <1>1, <2>3, <2>4, OthersOfCloud
<1>3. CASE EndGlobal(u) \/ Drain(u)
  <2>1. /\ UNCHANGED <<observers, jobs, ver, told>>
        /\ gsock' \in [Users -> {"none", "open", "dead"}]
        /\ \A v \in Users : gsock'[v] = "open" => gsock[v] = "open"
    BY <1>3 DEF EndGlobal, CloseGlobal, Drain, Deliver, Shape
  <2>2. Shape'
    BY <1>1, <2>1 DEF Shape
  <2>3. PushesComing'
    BY <1>1, <2>1 DEF PushesComing, Newest, Notifies, At
  <2>4. QED  BY <1>1, <2>2, <2>3, OthersOfCloud
<1>4. QED  BY <1>2, <1>3

-----------------------------------------------------------------------------
(* The invariant holds throughout. *)

LEMMA CloudBegins == Init => CloudInv
<1> SUFFICES ASSUME Init PROVE CloudInv
  OBVIOUS
<1>1. Idle \in Requests /\ Idle.todo = <<>>
  BY CloudAssumption DEF Idle, Requests, Todos
<1>2. \A t \in Tasks : req[t] = Idle
  BY DEF Init
<1>3. <<>> \notin Closers \cup Parting \cup Invites \cup Invited \cup Accepting \cup Leaving
  BY Apart
<1>4. /\ ws \in [exists : BOOLEAN, public : BOOLEAN, stored : BOOLEAN]
      /\ perm \in [Users -> [st : {"none", "invited", "accepted"}, id : Nat]]
      /\ \A u \in Users : perm[u].st # "invited"
  <2>1. CASE ws = NoWorkspace /\ perm = [u \in Users |-> [st |-> "none", id |-> 0]]
    BY <2>1 DEF NoWorkspace
  <2>2. CASE /\ ws = [exists |-> TRUE, public |-> FALSE, stored |-> TRUE]
             /\ perm \in [Users -> {[st |-> "none", id |-> 0], [st |-> "accepted", id |-> 0]}]
    BY <2>2
  <2>3. QED  BY <2>1, <2>2 DEF Init
<1>5. Shape
  BY <1>1, <1>4 DEF Init, ChannelInit, Closed, Shape
<1>6. Persons /\ Fresh
  BY <1>1, <1>2, <1>3 DEF Init, Persons, Fresh, Inviting
<1>7. SocketsClosed /\ InvitesMailed
  BY <1>4 DEF Init, Closed, SocketsClosed, InvitesMailed
<1>8. PushesComing
  BY DEF Init, ChannelInit, PushesComing
<1>9. QED  BY <1>5, <1>6, <1>7, <1>8 DEF CloudInv

LEMMA CloudStays == CloudInv /\ [Next]_vars => CloudInv'
<1> SUFFICES ASSUME CloudInv, [Next]_vars PROVE CloudInv'
  OBVIOUS
<1>1. CASE \E t \in Tasks, op \in DOMAIN Handlers, u, w \in Users :
             \E pid \in Named(op, w) : Request(t, op, u, w, pid)
  BY <1>1, RequestKeeps
<1>2. CASE \E t \in Tasks : Serve(t)
  <2>1. PICK t \in Tasks : Serve(t)
    BY <1>2
  <2>2. CASE Checks(t)
    BY <2>2, ChecksKeep
  <2>3. CASE CreateRow(t) \/ Observe(t) \/ Notify(t) \/ UpdateRow(t) \/ DeleteRow(t)
    BY <2>3, CreateRowKeeps, ObserveKeeps, NotifyKeeps, UpdateRowKeeps, DeleteRowKeeps
  <2>4. CASE CreatePermission(t) \/ Metadata(t) \/ Encrypt(t) \/ Mail(t)
    BY <2>4, CreatePermissionKeeps, InvitingKeeps
  <2>5. CASE AcceptPermission(t) \/ Leave(t) \/ Remove(t) \/ CloseUser(t) \/ CloseAll(t)
    BY <2>5, AcceptKeeps, LeaveKeeps, RemoveKeeps, CloseUserKeeps, CloseAllKeeps
  <2>6. QED  BY <2>1, <2>2, <2>3, <2>4, <2>5 DEF Serve, Checks
<1>3. CASE \E u \in Users : Push(u) \/ global_ws_handler(u) \/ EndGlobal(u) \/ Drain(u)
  <2>1. CASE \E u \in Users : Push(u)
    BY <2>1, ReadKeeps, SendKeeps DEF Push
  <2>2. CASE \E u \in Users : global_ws_handler(u) \/ EndGlobal(u) \/ Drain(u)
    BY <2>2, GlobalKeeps
  <2>3. QED  BY <1>3, <2>1, <2>2
<1>4. CASE \E u \in Users : ws_handler(u) \/ JoinChannel(u) \/ Listen(u) \/ Disconnect(u)
  BY <1>4, SocketKeeps
<1>5. CASE UNCHANGED vars
  BY <1>5 DEF vars, channelVars, cloudVars, CloudInv, Shape, Persons, Fresh, SocketsClosed,
              InvitesMailed, PushesComing, Inviting, Closes, Mails, Newest, Notifies, At, Accepted
<1>6. QED  BY <1>1, <1>2, <1>3, <1>4, <1>5 DEF Next

LEMMA CloudHolds == Spec => []CloudInv
  BY CloudBegins, CloudStays, PTL DEF Spec

\* A request that closes sockets, or still mails, has that step ahead.
LEMMA AheadOf ==
  ASSUME NEW t \in Tasks
  PROVE  /\ req[t].todo \in Closers => Ahead(t, "close_all")
         /\ req[t].todo \in Parting => Ahead(t, "close_user")
         /\ req[t].todo \in Invited => Ahead(t, "mail")
         /\ req[t].todo # <<>> /\ req[t].todo \in Closers \cup Notices /\ At(t, "notify") => Ahead(t, "notify")
<1>1. req[t].todo \in Closers => Ahead(t, "close_all")
  BY DEF Closers, Ahead
<1>2. req[t].todo \in Parting => Ahead(t, "close_user")
  BY DEF Parting, Ahead
<1>3. req[t].todo \in Invited => Ahead(t, "mail")
  BY DEF Invited, Ahead
<1>4. req[t].todo \in Closers \cup Notices /\ At(t, "notify") => Ahead(t, "notify")
  BY Rests DEF Closers, Notices, At, Ahead
<1>5. QED  BY <1>1, <1>2, <1>3, <1>4

(* Who has no permission has no open socket, for any users and requests: only
   sockets that were on their way in when they were to be closed are left, or a
   request that has taken the permission away is about to close them. *)
THEOREM NoSocketUnpermitted == Spec => []SocketsPermitted
<1>1. CloudInv => SocketsPermitted
  BY AheadOf DEF CloudInv, SocketsClosed, SocketsPermitted, Closes
<1>2. QED  BY <1>1, CloudHolds, PTL

(* Nobody is invited without being told, for any users and requests: the request
   that created the permission is on its way to the mail, unless the code of the
   invitation could not be made. *)
THEOREM EveryInvitationSent == Spec => []NoSilentInvitation
<1>1. CloudInv => NoSilentInvitation
  BY AheadOf DEF CloudInv, InvitesMailed, NoSilentInvitation, Mails, Inviting
<1>2. QED  BY <1>1, CloudHolds, PTL

(* No change of a user's list is forgotten, for any users, any number of pushes
   and any room in the channels. *)
THEOREM ChangesArePushed == Spec => []NoChangeForgotten
<1>1. CloudInv => NoChangeForgotten
  <2>1. SUFFICES ASSUME CloudInv PROVE NoChangeForgotten
    OBVIOUS
  <2>2. \A t \in Tasks : Notifies(t) => Ahead(t, "notify")
    <3>1. \A t \in Tasks : req[t].todo \in Todos
      BY <2>1 DEF CloudInv, Shape, Requests
    <3>2. QED  BY <3>1, Before, AheadOf DEF Notifies, At
  <2>3. QED  BY <2>1, <2>2 DEF CloudInv, PushesComing, NoChangeForgotten, Newest
<1>2. QED  BY <1>1, CloudHolds, PTL

=============================================================================
