----------------------------- MODULE ServerList -----------------------------
(***************************************************************************)
(* The session directory of ServerList (src/src/ServerList.cpp) and the    *)
(* threads that share it; what the admin option adds is in AdminMirror:    *)
(*                                                                         *)
(*   bind      the accept thread: setServer, getServer                     *)
(*   list      the ServerList thread: its messages and its tasks           *)
(*   managers  the threads of the connections, which post the messages     *)
(*                                                                         *)
(* A peer_info is its address, and a message names it by that address.     *)
(* The steps are the critical sections of peer_lock: the search (read      *)
(* lock), the re-creation and the additions (write lock), the two halves   *)
(* of processMessage (one read lock).                                      *)
(*                                                                         *)
(* bind and list change the counter connecting of a server under read      *)
(* locks: each reads it and writes it later, so that a change may be lost. *)
(* The counters connected, finished and disconnected are only changed by   *)
(* list and, while list is not in processMessage, under the write lock.    *)
(***************************************************************************)
EXTENDS ServerSelection, FiniteSets, PeerPhases

CONSTANTS
  Clients,
  Servers,         (* The servers list as it is configured.                *)
  filter_list,
  Infos,           (* Bound: the addresses a peer_info may get.            *)
  MaxConnections,  (* Bound: the connections that are accepted in a run.   *)
  MaxOf,           (* Bound: how many of them are of a client.             *)
  MaxTasks,        (* Bound: the clean and purge tasks of a run.           *)
  MaxWithTasks,    (* Bound: the connections of a run that has tasks.      *)
  QueueSize        (* The messages jq holds; post() then waits.            *)

Ips == {Servers[s].ip : s \in DOMAIN Servers}

NoInfo == "NULL"

ASSUME DirectoryAssumption ==
  /\ Servers \in Seq(ServerType(Ips)) /\ Servers # <<>>
  /\ NoInfo \notin Infos
  /\ {MaxConnections, MaxTasks, MaxWithTasks} \subseteq Nat
  /\ MaxOf \in [Clients -> Nat]
  /\ QueueSize \in Nat \ {0, 1}
  /\ MaxWithTasks <= MaxConnections
  /\ IsFiniteSet(Infos) /\ Cardinality(Infos) >= MaxConnections

VARIABLES
  servers_list, last_server_assigned,
  bind_read,    (* The connecting of a server that bind has read to add 1, *)
  list_read,    (* and that list has read, which will be written back.     *)
  peer_list,    (* The directory: a sequence of peer_infos.                *)
  info,         (* What every peer_info holds, once it was allocated.      *)
  freed,        (* The peer_infos that were deleted.                       *)
  modified,     (* The peer_infos by their time "modified", the last last. *)
  jq,           (* The messages to the ServerList.                         *)
  connection,   (* The ConnectionPeers: their peer_info and phase.         *)
  to_be_closed, (* The close requests of the managers.                     *)
  bind, list,   (* The two threads: their pc and local variables.          *)
  tasks         (* How many tasks have run.                                *)

directory == <<peer_list, info, freed, modified>>
counters == <<servers_list, last_server_assigned, bind_read, list_read>>
outside == <<jq, connection, to_be_closed>>
vars == <<directory, counters, outside, bind, list, tasks>>

-----------------------------------------------------------------------------
(***************************************************************************)
(* The statuses of a peer_info and the ids of the messages: their side bit *)
(* (STATUS_CLIENT_SERVER_MASK in utiles.h) is masked whenever they matter  *)
(* here.                                                                   *)
(***************************************************************************)

PeerDisconnected == {"CONNECTION_LOST", "CONNECTION_FAILED"}
PeerNotConnected == PeerDisconnected \cup {"DISCONNECTED_OK"}
Bans == {"PEER_CONNECTION_BAN_THIS", "PEER_CONNECTION_BAN_ALL"}
Statuses == PeerNotConnected \cup Bans \cup
              {"CONNECTING_SERVER", "CONNECTION_ESTABLISHED"}

Masked(id) ==
  CASE id \in {"CLIENT_CONNECTION_LOST", "SERVER_CONNECTION_LOST"} -> "CONNECTION_LOST"
    [] id \in {"CLIENT_DISCONNECTED_OK", "SERVER_DISCONNECTED_OK"} -> "DISCONNECTED_OK"
    [] id \in {"CONNECTION_ESTABLISHED", "CONNECTION_FAILED"} -> id

NoMessage == [id |-> "none", param |-> NoInfo]

Allocated == DOMAIN info \ freed

(* The allocator does not hand out the address of a deleted peer_info: what *)
(* a late message to such an address does is not followed further, the run  *)
(* of CleanedIsOver shows that there are such messages.  Which new address  *)
(* is given makes no difference.                                            *)
Fresh == CHOOSE p \in Infos : p \notin DOMAIN info

Touch(p) == Append(Projection(modified, Infos \ {p}), p)

With(p, record) == [q \in DOMAIN info \cup {p} |-> IF q = p THEN record ELSE info[q]]

NewInfo(client, port, server) ==
  [client |-> client, port |-> port, server |-> server,
   status |-> "CONNECTING_SERVER", old |-> FALSE]

Reduced(n, k) == IF n > k THEN n - k ELSE 0

Decreased(n) == Reduced(n, 1)

(* A session is found by its server's ip alone, from the end of the list. *)
ServerOf(p) ==
  CHOOSE s \in DOMAIN servers_list :
    /\ servers_list[s].ip = servers_list[info[p].server].ip
    /\ \A t \in DOMAIN servers_list :
         servers_list[t].ip = servers_list[s].ip => t <= s

-----------------------------------------------------------------------------
Nothing == [server |-> 0, connecting |-> 0]

Idle == [pc |-> "idle", client |-> "none", port |-> 0, index |-> 0,
         server |-> 0, info |-> NoInfo]

Init ==
  /\ servers_list = Servers
  /\ last_server_assigned = Len(Servers)
  /\ bind_read = Nothing
  /\ list_read = 0
  /\ peer_list = <<>>
  /\ info = <<>>
  /\ freed = {}
  /\ modified = <<>>
  /\ jq = <<>>
  /\ connection = <<>>
  /\ to_be_closed = {}
  /\ bind = Idle
  /\ list = [pc |-> "idle", msg |-> NoMessage]
  /\ tasks = 0

-----------------------------------------------------------------------------
(* getServer.  peer_lock is held by processMessage between its two halves. *)

PeerLockFree == list.pc = "idle"

(* The sessions of a client that may be taken up again. *)
Sessions(client) ==
  {i \in DOMAIN peer_list :
     /\ info[peer_list[i]].client = client
     /\ info[peer_list[i]].status # "CONNECTION_FAILED"
     /\ ~servers_list[ServerOf(peer_list[i])].failed}

Exact(client, port) ==
  {i \in Sessions(client) : info[peer_list[i]].port = port}

(* The one that was modified last. *)
LatestSession(client) ==
  CHOOSE i \in Sessions(client) :
    \A j \in Sessions(client) :
      Max({k \in DOMAIN modified : modified[k] = peer_list[j]})
        <= Max({k \in DOMAIN modified : modified[k] = peer_list[i]})

(* connecting++ of server s: it is read in one step and written in another. *)
ReadOf(s) == [server |-> s, connecting |-> servers_list[s].connecting]

(* The same client and port: the peer_info is used again. *)
SearchExact(client, port) ==
  LET p == peer_list[Min(Exact(client, port))]
  IN  /\ Exact(client, port) # {}
      /\ info' = [info EXCEPT ![p].status = "CONNECTING_SERVER"]
      /\ modified' = Touch(p)
      /\ bind_read' = ReadOf(ServerOf(p))
      /\ bind' = [Idle EXCEPT !.pc = "connect", !.client = client,
                              !.port = port, !.info = p]

SearchLatest(client, port) ==
  /\ Exact(client, port) = {}
  /\ bind' = IF Sessions(client) = {}
             THEN [Idle EXCEPT !.pc = "select", !.client = client, !.port = port]
             ELSE LET i == LatestSession(client)
                  IN  [Idle EXCEPT !.pc = "recreate", !.client = client,
                                   !.port = port, !.index = i,
                                   !.server = ServerOf(peer_list[i])]
  /\ UNCHANGED <<info, modified, bind_read>>

(* A client comes from a port of its own or from one that it has used. *)
PortsOf(client) == {info[p].port : p \in {q \in DOMAIN info : info[q].client = client}}

ConnectionsOf(client) ==
  {c \in DOMAIN connection : info[connection[c].info].client = client}

Search ==
  /\ bind.pc = "idle"
  /\ Len(connection) < IF tasks = 0 THEN MaxConnections ELSE MaxWithTasks
  /\ \E client \in {k \in Clients : Cardinality(ConnectionsOf(k)) < MaxOf[k]} :
       \E port \in {Len(connection) + 1} \cup PortsOf(client) :
         SearchExact(client, port) \/ SearchLatest(client, port)
  /\ UNCHANGED <<peer_list, freed, servers_list, last_server_assigned, list_read,
                 outside, list, tasks>>

CountConnecting ==
  /\ bind_read # Nothing
  /\ servers_list' = [servers_list EXCEPT ![bind_read.server].connecting =
                                             bind_read.connecting + 1]
  /\ bind_read' = Nothing
  /\ UNCHANGED <<directory, last_server_assigned, list_read, outside, bind, list, tasks>>

-----------------------------------------------------------------------------
(* The sessions of the client that are over are replaced by the new one.   *)
(* Under the write lock nobody else changes a counter.                     *)

Replaced == {i \in DOMAIN peer_list :
               /\ info[peer_list[i]].client = bind.client
               /\ info[peer_list[i]].status \in PeerNotConnected}

(* Mutation: all of them are taken off either counter. *)
CountedDownAll(n, statuses) == Reduced(n, Cardinality(Replaced))

(* A counter is decreased once for each of them that has such a status; all *)
(* of them are taken off the server of the session.                         *)
CountedDown(n, statuses) ==
  Reduced(n, Cardinality({i \in Replaced : info[peer_list[i]].status \in statuses}))

(* Mutation: their status is not asked. *)
KeptOthers == Projection(peer_list, {p \in DOMAIN info : info[p].client # bind.client})

Kept == Projection(peer_list, ToSet(peer_list) \ {peer_list[i] : i \in Replaced})

(* The index was found before the lock was given up: what is there by now   *)
(* is only asked for its client.                                            *)
StillThere ==
  /\ bind.index <= Len(peer_list)
  /\ info[peer_list[bind.index]].client = bind.client

Recreate ==
  /\ bind.pc = "recreate"
  /\ PeerLockFree
  /\ StillThere
  /\ info' = With(Fresh, NewInfo(bind.client, bind.port,
                                 info[peer_list[bind.index]].server))
  /\ modified' = Touch(Fresh)
  /\ peer_list' = Append(Kept, Fresh)
  /\ bind' = [bind EXCEPT !.pc = "connect", !.info = Fresh]
  /\ servers_list' =
       [servers_list EXCEPT
          ![bind.server].connecting = @ + 1,
          ![bind.server].disconnected = CountedDown(@, PeerDisconnected),
          ![bind.server].finished = CountedDown(@, Statuses \ PeerDisconnected)]
  /\ UNCHANGED <<freed, last_server_assigned, bind_read, list_read, outside, list, tasks>>

RecreateFails ==
  /\ bind.pc = "recreate"
  /\ PeerLockFree
  /\ ~StillThere
  /\ bind' = [bind EXCEPT !.pc = "select"]
  /\ UNCHANGED <<directory, counters, outside, list, tasks>>

-----------------------------------------------------------------------------
(* A new session, which nobody else knows before it is in the directory. *)
Assign ==
  /\ bind.pc = "select"
  /\ LET best == Select(servers_list, filter_list, last_server_assigned, bind.client)
         s == best.next.server
     IN  IF best.assigned
         THEN /\ last_server_assigned' = s
              /\ info' = With(Fresh, NewInfo(bind.client, bind.port, s))
              /\ modified' = Touch(Fresh)
              /\ bind_read' = ReadOf(s)
              /\ bind' = [bind EXCEPT !.pc = "add", !.info = Fresh]
         ELSE /\ last_server_assigned' = Turn(servers_list, last_server_assigned)
              /\ bind' = Idle
              /\ UNCHANGED <<bind_read, info, modified>>
  /\ UNCHANGED <<peer_list, freed, servers_list, list_read, outside, list, tasks>>

Add ==
  /\ bind.pc = "add" /\ bind_read = Nothing
  /\ PeerLockFree
  /\ peer_list' = Append(peer_list, bind.info)
  /\ bind' = [bind EXCEPT !.pc = "connect"]
  /\ UNCHANGED <<info, freed, modified, counters, outside, list, tasks>>

(* setServer makes the connection, which takes its time, and hands it over. *)
SetServer ==
  /\ bind.pc = "connect" /\ bind_read = Nothing
  /\ connection' = Append(connection, [info |-> bind.info, phase |-> "connecting"])
  /\ bind' = Idle
  /\ UNCHANGED <<directory, counters, jq, to_be_closed, list, tasks>>

-----------------------------------------------------------------------------
(* The managers: a round of a loop, and a close request, which may reach    *)
(* the peers that have the peer_info or come too early (see                 *)
(* ThreadedConnectionManager).                                              *)

Messages(p, posts) ==
  [i \in DOMAIN posts |-> [id |-> Masked(posts[i]), param |-> p]]

Post(p, posts) ==
  /\ Len(jq) + Len(posts) <= QueueSize
  /\ jq' = jq \o Messages(p, posts)

Serve ==
  \E c \in DOMAIN connection :
    \E o \in Served(connection[c].phase) :
      /\ o.phase # connection[c].phase
      /\ connection' = [connection EXCEPT ![c].phase = o.phase]
      /\ Post(connection[c].info, o.posts)
      /\ UNCHANGED <<directory, counters, to_be_closed, bind, list, tasks>>

ClosePInfo ==
  \E p \in to_be_closed :
    /\ to_be_closed' = to_be_closed \ {p}
    /\ \/ UNCHANGED <<connection, jq>>
       \/ \E c \in DOMAIN connection :
            /\ connection[c].info = p
            /\ connection' = [connection EXCEPT ![c].phase = Kicked.phase]
            /\ Post(p, Kicked.posts)
    /\ UNCHANGED <<directory, counters, bind, list, tasks>>

-----------------------------------------------------------------------------
WritesConnecting(id) == id \in {"CONNECTION_FAILED", "CONNECTION_ESTABLISHED"}

(* processMessage: it may read connecting of the server at once... *)
Take(msg) ==
  /\ list' = [pc |-> "counting", msg |-> msg]
  /\ list_read' = IF WritesConnecting(msg.id)
                  THEN servers_list[info[msg.param].server].connecting ELSE 0

(* Mutation: the status is not set. *)
ProcessMessageKeepsStatus ==
  /\ list.pc = "idle"
  /\ jq # <<>>
  /\ jq' = Tail(jq)
  /\ IF Head(jq).param \in ToSet(peer_list)
     THEN Take(Head(jq)) ELSE UNCHANGED <<list, list_read>>
  /\ UNCHANGED <<directory, servers_list, last_server_assigned, bind_read, connection,
                 to_be_closed, bind, tasks>>

(* A kick is handed to the manager, any other message is the status...     *)
TakeStatus(msg) ==
  /\ msg.id # "PEER_CONNECTION_KICKED"
  /\ info' = [info EXCEPT ![msg.param].status = msg.id]
  /\ modified' = Touch(msg.param)
  /\ UNCHANGED to_be_closed

TakeKick(msg) ==
  /\ msg.id = "PEER_CONNECTION_KICKED"
  /\ to_be_closed' = to_be_closed \cup {msg.param}
  /\ UNCHANGED <<info, modified>>

(* Mutation: the message's peer_info is not looked for. *)
ProcessMessageUnsearched ==
  /\ list.pc = "idle"
  /\ jq # <<>>
  /\ jq' = Tail(jq)
  /\ TakeStatus(Head(jq)) \/ TakeKick(Head(jq))
  /\ Take(Head(jq))
  /\ UNCHANGED <<peer_list, freed, servers_list, last_server_assigned, bind_read,
                 connection, bind, tasks>>

ProcessMessage ==
  /\ list.pc = "idle"
  /\ jq # <<>>
  /\ jq' = Tail(jq)
  /\ LET msg == Head(jq)
     IN  IF msg.param \in ToSet(peer_list)
         THEN /\ TakeStatus(msg) \/ TakeKick(msg)
              /\ Take(msg)
         ELSE UNCHANGED <<info, modified, to_be_closed, list, list_read>>
  /\ UNCHANGED <<peer_list, freed, servers_list, last_server_assigned, bind_read,
                 connection, bind, tasks>>

(* ... and the counters.  Another session of the client makes this one      *)
(* superfluous, and so does a purge after it was created.                   *)
OtherConnected(p) ==
  \E i \in DOMAIN peer_list :
    /\ peer_list[i] # p
    /\ info[peer_list[i]].status \notin PeerNotConnected
    /\ info[peer_list[i]].client = info[p].client

Forgotten(p) == OtherConnected(p) \/ info[p].old

Ended(server, id, forgotten) ==
  [server EXCEPT
     !.failed = @ \/ id = "CONNECTION_FAILED",
     !.connecting = IF id = "CONNECTION_FAILED" THEN Decreased(@) ELSE @,
     !.connected = IF id = "CONNECTION_FAILED" THEN @ ELSE Decreased(@),
     !.disconnected = IF ~forgotten /\ id \in PeerDisconnected THEN @ + 1 ELSE @,
     !.finished = IF ~forgotten /\ id \notin PeerDisconnected THEN @ + 1 ELSE @]

Established(server) ==
  [server EXCEPT !.connected = @ + 1, !.connecting = Decreased(@),
                 !.failed = FALSE]

Counted(server, id, forgotten) ==
  CASE id \in PeerNotConnected           -> Ended(server, id, forgotten)
    [] id = "CONNECTION_ESTABLISHED"     -> Established(server)
    [] OTHER                             -> server

(* ... or later, when bind has written it.  (bind only raises it.) *)
ReadConnecting(server, id) ==
  IF WritesConnecting(id) THEN list_read .. server.connecting ELSE {server.connecting}

(* Mutation: a message that is no end takes the session off as well. *)
CountMessageForgets ==
  /\ list.pc = "counting"
  /\ peer_list' = IF Forgotten(list.msg.param)
                  THEN Projection(peer_list, Infos \ {list.msg.param})
                  ELSE peer_list
  /\ list' = [pc |-> "idle", msg |-> NoMessage]
  /\ UNCHANGED <<info, freed, modified, counters, outside, bind, tasks>>

CountMessage ==
  /\ list.pc = "counting"
  /\ LET p == list.msg.param
         id == list.msg.id
         s == info[p].server
     IN  /\ \E n \in ReadConnecting(servers_list[s], id) :
              servers_list' = [servers_list EXCEPT ![s] =
                Counted([@ EXCEPT !.connecting = n], id, Forgotten(p))]
         /\ peer_list' = IF id \in PeerNotConnected /\ Forgotten(p)
                         THEN Projection(peer_list, Infos \ {p})
                         ELSE peer_list
  /\ list' = [pc |-> "idle", msg |-> NoMessage]
  /\ list_read' = 0
  /\ UNCHANGED <<info, freed, modified, last_server_assigned, bind_read, outside, bind,
                 tasks>>

-----------------------------------------------------------------------------
(* The tasks, under the write lock. *)

Cleaned == {p \in ToSet(peer_list) : info[p].status \in PeerNotConnected}

(* The first server with the ip of the session. *)
FirstServerOf(p) ==
  CHOOSE s \in DOMAIN servers_list :
    /\ servers_list[s].ip = servers_list[info[p].server].ip
    /\ \A t \in DOMAIN servers_list :
         servers_list[t].ip = servers_list[s].ip => s <= t

(* The sessions of a list are taken off the counters of their servers, one  *)
(* by one: a lost one off finished when disconnected is 0.                  *)
CountedOff(servers, sessions, status) ==
  [s \in DOMAIN servers |->
     LET Number(statuses) ==
           Cardinality({i \in DOMAIN sessions :
                          /\ FirstServerOf(sessions[i]) = s
                          /\ status[sessions[i]] \in statuses})
         lost == Number(PeerDisconnected)
         over == Number(Statuses \ PeerDisconnected)
     IN  [servers[s] EXCEPT
            !.disconnected = Reduced(@, lost),
            !.finished = Reduced(@, over + Reduced(lost, servers[s].disconnected))]]

CountClean ==
  CountedOff(servers_list, Projection(peer_list, Cleaned),
             [p \in DOMAIN info |-> info[p].status])

(* The bounds; a session that is being made counts as a connection. *)
TaskMayRun ==
  /\ tasks < MaxTasks
  /\ \/ Len(connection) < MaxWithTasks
     \/ Len(connection) = MaxWithTasks /\ bind.pc = "idle"

(* Mutation: a deleted peer_info stays in the list. *)
CleanConnectionsKeeps ==
  /\ list.pc = "idle"
  /\ TaskMayRun
  /\ tasks' = tasks + 1
  /\ servers_list' = CountClean
  /\ freed' = freed \cup Cleaned
  /\ UNCHANGED <<peer_list, info, modified, last_server_assigned, bind_read, list_read,
                 outside, bind, list>>

CleanConnections ==
  /\ list.pc = "idle"
  /\ TaskMayRun
  /\ tasks' = tasks + 1
  /\ servers_list' = CountClean
  /\ peer_list' = Projection(peer_list, Infos \ Cleaned)
  /\ freed' = freed \cup Cleaned
  /\ UNCHANGED <<info, modified, last_server_assigned, bind_read, list_read, outside,
                 bind, list>>

PurgeConnections ==
  /\ list.pc = "idle"
  /\ TaskMayRun
  /\ tasks' = tasks + 1
  /\ to_be_closed' = to_be_closed \cup ToSet(peer_list)
  /\ info' = [p \in DOMAIN info |-> [info[p] EXCEPT !.old = TRUE]]
  /\ UNCHANGED <<peer_list, freed, modified, counters, jq, connection, bind, list>>

(* The retry time of a server is over. *)
RetryElapses ==
  /\ \E s \in DOMAIN servers_list :
       /\ servers_list[s].failed
       /\ servers_list' = [servers_list EXCEPT ![s].failed = FALSE]
  /\ UNCHANGED <<directory, last_server_assigned, bind_read, list_read, outside, bind,
                 list, tasks>>

GetServer ==
  Search \/ CountConnecting \/ Recreate \/ RecreateFails \/ Assign \/ Add
Execute == ProcessMessage \/ CountMessage \/ CleanConnections \/ PurgeConnections
Managers == Serve \/ ClosePInfo

Next == GetServer \/ SetServer \/ Execute \/ Managers \/ RetryElapses

Spec == Init /\ [][Next]_vars

-----------------------------------------------------------------------------
ConnectionType == [info : Infos, phase : Phases]

(* Every variable holds a value of its type. *)
TypeOK ==
  /\ \A s \in DOMAIN servers_list :
       {servers_list[s].connecting, servers_list[s].connected,
        servers_list[s].finished, servers_list[s].disconnected} \subseteq Nat
  /\ last_server_assigned \in DOMAIN servers_list
  /\ peer_list \in Seq(Infos) /\ modified \in Seq(Infos)
  /\ DOMAIN info \subseteq Infos /\ freed \subseteq DOMAIN info
  /\ \A p \in DOMAIN info : info[p].status \in Statuses
  /\ connection \in Seq(ConnectionType)
  /\ to_be_closed \subseteq Infos
  /\ bind.pc \in {"idle", "recreate", "select", "add", "connect"}
  /\ list.pc \in {"idle", "counting"}
  /\ {bind_read.connecting, list_read} \subseteq Nat

(* A client that comes back from the port of a session is given its        *)
(* peer_info, whatever the old connection still does with it: what is      *)
(* promised of the other peer_infos is not promised of this one.           *)
Reused(p) ==
  LET users == {c \in DOMAIN connection : connection[c].info = p}
  IN  Cardinality(users) > 1 \/ (bind.info = p /\ users # {})

(***************************************************************************)
(* The directory never holds a peer_info twice or one that was deleted,    *)
(* nobody counts or connects with a deleted one, and the one a message is  *)
(* counted for is in it until the count is done.                           *)
(***************************************************************************)
EntriesAreSound ==
  /\ IsInjective(peer_list)
  /\ ToSet(peer_list) \subseteq Allocated
  /\ bind.info # NoInfo /\ ~Reused(bind.info) => bind.info \in Allocated
  /\ list.pc = "counting" => list.msg.param \in ToSet(peer_list)

(***************************************************************************)
(* The filters hold for every session, the ones that were taken up again   *)
(* without asking isServerAllowed included, even when the index that was   *)
(* found before the lock was given up means another entry by now.          *)
(* (Every variable holds a value of its type.)                             *)
(***************************************************************************)
EntriesAreAllowed ==
  /\ TypeOK
  /\ \A i \in DOMAIN peer_list :
       LET p == info[peer_list[i]]
       IN  IsServerAllowed(filter_list, servers_list[p.server].ip, p.client)

(***************************************************************************)
(* A connection that has not ended is in the directory, so that its end    *)
(* will be counted and its client finds its server again: neither          *)
(* getServer, cleaning up after other sessions of the client, nor the      *)
(* messages and tasks of the ServerList ever drop it.                      *)
(***************************************************************************)
LiveIsListed ==
  \A c \in DOMAIN connection :
    connection[c].phase \in {"connecting", "open"} /\ ~Reused(connection[c].info)
      => connection[c].info \in ToSet(peer_list)

Announced(p) ==
  \/ \E i \in DOMAIN jq : jq[i].param = p
  \/ list.msg.param = p

(***************************************************************************)
(* What has ended looks ended once its messages are processed: a session   *)
(* that is over is never taken for a connected one, which would keep it    *)
(* from being cleaned and make the others of its client look superfluous.  *)
(* (A ban that is processed after the end covers it: README.md, Known      *)
(* divergences.)                                                           *)
(***************************************************************************)
EndedIsMarked ==
  \A c \in DOMAIN connection :
    /\ connection[c].phase = "over"
    /\ ~Announced(connection[c].info) /\ ~Reused(connection[c].info)
    => \/ connection[c].info \notin ToSet(peer_list)
       \/ info[connection[c].info].status \in PeerNotConnected \cup Bans

(***************************************************************************)
(* A client with an open session does not lose it to its own new           *)
(* connection: what getServer takes out of the directory has ended.        *)
(***************************************************************************)
OnlyEndedAreReplaced ==
  [][\A p \in ToSet(peer_list) \ ToSet(peer_list') :
       info[p].status \in PeerNotConnected \/ Reused(p)]_vars

Quiescent == jq = <<>> /\ list.pc = "idle" /\ bind.pc = "idle"

(* One for each session that a server counts as over. *)
CountedEnded ==
  UNION {{s} \X (1 .. servers_list[s].finished + servers_list[s].disconnected) :
           s \in DOMAIN servers_list}

(***************************************************************************)
(* Every session that is kept for a client to come back to is counted for  *)
(* ("tracks their connection counts", source_code_explained.md:112): not   *)
(* more are taken off finished and disconnected than leave the directory,  *)
(* however often sessions end, are taken up again, replaced and cleaned.   *)
(* All servers together: the sessions that a new one replaces are taken    *)
(* off its own server, wherever they were.  (connecting and connected have *)
(* no such bound: README.md, Known divergences.)                           *)
(***************************************************************************)
EndedAreCounted ==
  list.pc = "idle" => Cardinality(CountedEnded) >= Cardinality(Cleaned)

-----------------------------------------------------------------------------
(***************************************************************************)
(* Documented, and not what the code does.                                 *)
(***************************************************************************)

(* "clean: Cleans inactive connections." (configuration_syntax.md:82): a    *)
(* peer_info is not deleted while a connection still has it.                *)
CleanedIsOver ==
  [][\A p \in freed' \ freed :
       \A c \in DOMAIN connection :
         connection[c].info = p => connection[c].phase = "over"]_vars
=============================================================================
