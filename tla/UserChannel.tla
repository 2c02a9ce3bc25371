----------------------------- MODULE UserChannel -----------------------------
(****************************************************************************)
(* The user channel of the cloud server (api/user_channel.rs): a socket per *)
(* user over which the list of the user's workspaces is pushed whenever it  *)
(* changes.  A push is an update of UserChannel: it reads the list from the *)
(* database and later sends it, so pushes overtake one another.  The list   *)
(* of a user is abstracted to the number of its changes.                    *)
(****************************************************************************)
EXTENDS Naturals, Sequences, FiniteSets

CONSTANTS Users, QueueCap

ASSUME QueueAssumption == QueueCap \in Nat \ {0}

VARIABLES
  observers,  \* workspace_map: who is told of changes of the workspace
  gsock,      \* the entry of a user in channel: "none", "open" or "dead"
  queue,      \* pushes in the channel of a user's socket
  jobs,       \* running updates [by, u, st, v]
  ver,        \* changes of the list of a user in the database
  told        \* the newest list sent to the open socket of a user

channelVars == <<observers, gsock, queue, jobs, ver, told>>

Spawned == "spawned"
Update(by, u) == [by |-> by, u |-> u, st |-> "read", v |-> 0]
Busy(by) == \E j \in jobs : j.by = by

(* update holds the lock of the map of sockets while it waits for room in one. *)
Blocked == \E j \in jobs : /\ j.st = "send" /\ gsock[j.u] = "open"
                           /\ Len(queue[j.u]) >= QueueCap

ChannelInit ==
  /\ observers = {}
  /\ gsock = [u \in Users |-> "none"]
  /\ queue = [u \in Users |-> <<>>]
  /\ jobs = {}
  /\ ver = [u \in Users |-> 0]
  /\ told = [u \in Users |-> 0]

(* get_workspace_list *)
PushRead(j) ==
  /\ j \in jobs /\ j.st = "read"
  /\ jobs' = (jobs \ {j}) \cup {[j EXCEPT !.st = "send", !.v = ver[j.u]]}
  /\ UNCHANGED <<observers, gsock, queue, ver, told>>

(* The rest of update: send to the user's socket, drop it when it is closed. *)
PushSend(j) ==
  /\ j \in jobs /\ j.st = "send"
  /\ jobs' = jobs \ {j}
  /\ \/ /\ gsock[j.u] = "open" /\ Len(queue[j.u]) < QueueCap
        /\ queue' = [queue EXCEPT ![j.u] = Append(@, j.v)]
        /\ told' = [told EXCEPT ![j.u] = IF j.v > @ THEN j.v ELSE @]
        /\ UNCHANGED gsock
     \/ /\ gsock[j.u] = "dead"
        /\ gsock' = [gsock EXCEPT ![j.u] = "none"]
        /\ UNCHANGED <<queue, told>>
     \/ /\ gsock[j.u] = "none"
        /\ UNCHANGED <<gsock, queue, told>>
  /\ UNCHANGED <<observers, ver>>

(* handle_socket: the entry, then add_user_observe, whose first push follows.
   remove_user_observe finds nothing, for nothing is ever put into user_map. *)
OpenGlobal(u, lists) ==
  /\ gsock[u] = "none" /\ ~Blocked /\ ~Busy(u)
  /\ gsock' = [gsock EXCEPT ![u] = "open"]
  /\ told' = [told EXCEPT ![u] = 0]
  /\ observers' = IF lists THEN observers \cup {u} ELSE observers
  /\ jobs' = jobs \cup {Update(u, u)}
  /\ UNCHANGED <<queue, ver>>

\* The socket thread takes a message to the client, or ends when it cannot.
Deliver(u) ==
  /\ gsock[u] = "open" /\ queue[u] # <<>>
  /\ \/ queue' = [queue EXCEPT ![u] = Tail(@)] /\ UNCHANGED gsock
     \/ queue' = [queue EXCEPT ![u] = <<>>] /\ gsock' = [gsock EXCEPT ![u] = "dead"]
  /\ UNCHANGED <<observers, jobs, ver, told>>

CloseGlobal(u) ==
  /\ gsock[u] # "none" /\ ~Blocked /\ ~Busy(u)
  /\ gsock' = [gsock EXCEPT ![u] = "none"]
  /\ queue' = [queue EXCEPT ![u] = <<>>]
  /\ UNCHANGED <<observers, jobs, ver, told>>

=============================================================================
