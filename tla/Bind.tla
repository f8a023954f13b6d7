-------------------------------- MODULE Bind --------------------------------
(***************************************************************************)
(* The threads of a bind, what they wait for and how they are stopped:     *)
(*                                                                         *)
(*   accept    Bind::execute, with ServerList::setServer and getServer     *)
(*   list      ServerList::execute: messages, clean, purge                 *)
(*   admin     AdminHTTPServer::execute: messages, then one page           *)
(*   managers  ThreadedConnectionManager::execute, one thread each         *)
(*   main      starts them, and destroys the Bind at the end               *)
(*                                                                         *)
(* A thread waits for a lock, for room in a bounded queue (jobqueue::post) *)
(* or in the control pipe of a manager (write), or for the end of another  *)
(* thread; pc names the place where it waits, and an action goes from one  *)
(* such place to the next.  What a session is, which message is posted,    *)
(* what is found in the directory and how many connections a manager has   *)
(* is the matter of ServerList, AdminMirror and ThreadedConnectionManager: *)
(* here any of it may happen, each time.                                   *)
(***************************************************************************)
EXTENDS Integers, Sequences, FiniteSets

CONSTANTS
  Managers,            (* Bound: the managers that may be made.             *)
  JqLimit,             (* The messages ServerList's queue holds.            *)
  AdminJqLimit,        (* The messages the admin's queue holds.             *)
  PipeSize,            (* The bytes a control pipe holds.                   *)
  MaxAddresses,        (* Bound: the listening sockets.                     *)
  MaxEntries,          (* Bound: the entries a clean or a purge works on.   *)
  MaxTasks,            (* Bound: the tasks of a round that are due.         *)
  MaxPosts             (* Bound: the messages of a round of a manager.      *)

ASSUME BindAssumption ==
  /\ IsFiniteSet(Managers)
  /\ {JqLimit, AdminJqLimit, PipeSize, MaxAddresses} \subseteq Nat \ {0}
  /\ {MaxEntries, MaxTasks, MaxPosts} \subseteq Nat
  /\ Managers \cap {"accept", "list", "admin", "main", "nobody"} = {}

Threads == {"accept", "list", "admin", "main"} \cup Managers

VARIABLES
  pc,
  lock,             (* servers_lock and peer_lock: who reads, who writes.   *)
  jq,               (* ServerList's messages: kicks and news of a session.  *)
  jqDestroyed,
  admin_jq,         (* How many messages wait for the admin.                *)
  pipe,             (* How many bytes are in the pipe of a manager.         *)
  m_list,           (* The managers that were made, in their order.         *)
  serving,          (* The managers that have connections.                  *)
  listed,           (* The directory has had a session.                     *)
  finish,           (* The finish of every thread.                          *)
  adminEnabled,
  addresses,        (* How many sockets accept listens on.                  *)
  local             (* Of every thread: the manager it writes to or waits   *)
                    (* for, what is left of its walk or its round, the      *)
                    (* tasks that are due, the manager of its client (pcm). *)

queues == <<jq, jqDestroyed, admin_jq>>
managers == <<m_list, serving, listed>>
config == <<adminEnabled, addresses>>
vars == <<pc, lock, queues, pipe, managers, finish, config, local>>

Locks == {"servers", "peers"}

Larger(a, b) == IF a >= b THEN a ELSE b

(* Mutation: the counters are written under a write lock. *)
WritesServersToCount == {"cleanList", "counters"}

(* Where a thread waits, and for what. *)
WritesServers == {"cleanList"}
WritesPeers == {"recreate", "add", "clean", "purge", "cleanPeerList"}
ReadsServers == {"servers", "counters", "entry"}
ReadsPeers == {"search", "news", "kick"}
PostsToAdmin == {"announce", "forward", "deleted"}
PostsToList == {"request", "post"}
WritesPipe == {"close", "notify", "kicking", "purging", "wake"}
Joins == {"joinAccept", "joinList", "joinManager", "joinAdmin"}

Places ==
  WritesServers \cup WritesPeers \cup ReadsServers \cup ReadsPeers
    \cup PostsToAdmin \cup PostsToList \cup WritesPipe \cup Joins
    \cup {"none", "begin", "top", "select", "connect", "drain", "serve",
          "running", "destroy", "ended", "undefined"}

TypeOK ==
  /\ pc \in [Threads -> Places]
  /\ lock \in [Locks -> [reading : SUBSET Threads, writing : SUBSET Threads]]
  /\ jq \in Seq({"kick", "news"}) /\ Len(jq) <= JqLimit
  /\ jqDestroyed \in BOOLEAN
  /\ admin_jq \in 0..AdminJqLimit
  /\ pipe \in [Managers -> 0..PipeSize]
  /\ m_list \in Seq(Managers)
  /\ serving \subseteq Managers
  /\ listed \in BOOLEAN
  /\ finish \in [Threads -> BOOLEAN]
  /\ adminEnabled \in BOOLEAN
  /\ addresses \in 0..MaxAddresses
  /\ local \in [Threads -> [aim : Managers \cup {"nobody"}, pcm : Managers \cup {"nobody"},
                            left : Nat, due : 0..MaxTasks]]

Init ==
  /\ pc = [t \in Threads |-> IF t = "main" THEN "top" ELSE "none"]
  /\ lock = [l \in Locks |-> [reading |-> {}, writing |-> {}]]
  /\ jq = <<>> /\ jqDestroyed = FALSE
  /\ admin_jq = 0
  /\ pipe = [m \in Managers |-> 0]
  /\ m_list = <<>>
  /\ serving = {}
  /\ listed = FALSE
  /\ finish = [t \in Threads |-> FALSE]
  /\ adminEnabled = FALSE /\ addresses = 0
  /\ local = [t \in Threads |-> [aim |-> "nobody", pcm |-> "nobody", left |-> 0, due |-> 0]]
-----------------------------------------------------------------------------
(* Who waits for whom. *)

Holders(l) == lock[l].reading \cup lock[l].writing

Full(queue) == Len(queue) >= JqLimit

Joined(t) ==
  CASE pc[t] = "joinAccept" -> "accept"
    [] pc[t] = "joinList"   -> "list"
    [] pc[t] = "joinAdmin"  -> "admin"
    [] OTHER                -> local[t].aim

(* The threads that keep t where it is. *)
BlockedBy(t) ==
  CASE pc[t] \in WritesServers -> Holders("servers")
    [] pc[t] \in WritesPeers   -> Holders("peers")
    [] pc[t] \in ReadsServers  -> lock["servers"].writing
    [] pc[t] \in ReadsPeers    -> lock["peers"].writing
    [] pc[t] \in PostsToAdmin  -> IF admin_jq < AdminJqLimit THEN {} ELSE {"admin"}
    [] pc[t] \in PostsToList   -> IF Full(jq) THEN {"list"} ELSE {}
    [] pc[t] \in WritesPipe    -> IF pipe[local[t].aim] < PipeSize THEN {}
                                  ELSE {local[t].aim}
    [] pc[t] \in Joins         -> IF pc[Joined(t)] \in {"none", "ended"} THEN {}
                                  ELSE {Joined(t)}
    [] OTHER                   -> {}

(* t is at the place, and nothing keeps it there. *)
Passes(t, place) == pc[t] = place /\ BlockedBy(t) = {}

GoesTo(t, place) == pc' = [pc EXCEPT ![t] = place]

Reading(t, l) == [lock EXCEPT ![l].reading = @ \cup {t}]
Writing(t, l) == [lock EXCEPT ![l].writing = @ \cup {t}]
Without(held, t) == [reading |-> held.reading \ {t}, writing |-> held.writing \ {t}]
Unlocked(t, l) == [lock EXCEPT ![l] = Without(@, t)]
BothUnlocked(t) == [l \in Locks |-> Without(lock[l], t)]

(* ControlSocket::post: a byte for the manager t aims at. *)
WriteByte(t) == pipe' = [pipe EXCEPT ![local[t].aim] = @ + 1]

PostToAdmin == admin_jq' = admin_jq + 1 /\ UNCHANGED <<jq, jqDestroyed>>

Aim(t, m) == local' = [local EXCEPT ![t].aim = m]
Leave(t, n) == local' = [local EXCEPT ![t].left = n]
-----------------------------------------------------------------------------
(* accept *)

Made == {m_list[i] : i \in DOMAIN m_list}

(* A manager of the list, of which the search passes over the first, or a   *)
(* new one, which starts its thread.  Which of them has room is found in    *)
(* counters that both threads write without a lock                          *)
(* (ThreadedConnectionManager): any may seem to have some, or none.         *)
getFreeThreadedConnectionManager(pcm) ==
  \/ /\ \E i \in 2..Len(m_list) : pcm = m_list[i]
     /\ GoesTo("accept", "servers")
     /\ UNCHANGED m_list
  \/ /\ pcm \in Managers \ Made /\ pcm = CHOOSE m \in Managers \ Made : TRUE
     /\ pc' = [pc EXCEPT !["accept"] = "servers", ![pcm] = "select"]
     /\ m_list' = Append(m_list, pcm)

(* The sockets listen, but those whose bind() or listen() fails: accept()    *)
(* has never a client there.  The admin is started, and its queue made known *)
(* to ServerList under a read lock of its (still empty) directory.           *)
Begin ==
  /\ pc["accept"] = "begin"
  /\ addresses' \in 0..addresses
  /\ IF adminEnabled
     THEN /\ lock["peers"].writing = {}
          /\ pc' = [pc EXCEPT !["accept"] = "select", !["admin"] = "drain"]
     ELSE GoesTo("accept", "select")
  /\ UNCHANGED <<lock, queues, pipe, managers, finish, adminEnabled, local>>

(* The loop again, with the next socket of this round or another select();  *)
(* between two of these finish ends the thread, which stops the admin.      *)
NextRound ==
  IF finish["accept"] /\ local["accept"].left = 0
  THEN GoesTo("accept", "ended") /\ finish' = [finish EXCEPT !["admin"] = TRUE]
  ELSE GoesTo("accept", "select") /\ UNCHANGED finish

(* The time of select() is over, or the bound of the managers is reached.   *)
Timeout ==
  /\ pc["accept"] = "select"
  /\ local["accept"].left = 0 \/ Made = Managers
  /\ Leave("accept", 0)
  /\ NextRound
  /\ UNCHANGED <<lock, queues, pipe, managers, config>>

(* select() reports clients: the first, or the next one, of a round. *)
Accept ==
  /\ pc["accept"] = "select"
  /\ \E ready \in IF local["accept"].left > 0 THEN {local["accept"].left}
                  ELSE 1..addresses,
        pcm \in Managers :
       /\ getFreeThreadedConnectionManager(pcm)
       /\ local' = [local EXCEPT !["accept"].left = ready - 1, !["accept"].pcm = pcm]
  /\ UNCHANGED <<lock, queues, pipe, serving, listed, finish, config>>

LockServers ==
  /\ Passes("accept", "servers")
  /\ lock' = Reading("accept", "servers")
  /\ GoesTo("accept", "search")
  /\ UNCHANGED <<queues, pipe, managers, finish, config, local>>

(* The choice among the servers: none, and the client is closed, or one, of *)
(* which the admin is told before it is added to the directory.             *)
Choose ==
  \/ /\ lock' = BothUnlocked("accept")
     /\ local' = [local EXCEPT !["accept"].pcm = "nobody"]
     /\ NextRound
  \/ /\ lock' = Unlocked("accept", "peers")
     /\ GoesTo("accept", IF adminEnabled THEN "announce" ELSE "add")
     /\ UNCHANGED <<finish, local>>

(* The session is in the directory, and getServer returns, or there is a   *)
(* place where it waits before.                                            *)
Lists(place) ==
  /\ listed' = TRUE
  /\ UNCHANGED <<m_list, serving>>
  /\ GoesTo("accept", place)
  /\ IF place = "connect" THEN lock' = BothUnlocked("accept")
                          ELSE lock' = Writing("accept", "peers")

(* The search for an earlier session, under a read lock: the same one, whose *)
(* manager is asked to close it, one to be made again, or none.              *)
Search ==
  /\ Passes("accept", "search")
  /\ \/ /\ listed
        /\ \E m \in Made : Aim("accept", m)
        /\ lock' = Reading("accept", "peers")
        /\ GoesTo("accept", "close")
        /\ UNCHANGED finish
     \/ /\ listed
        /\ GoesTo("accept", "recreate")
        /\ UNCHANGED <<lock, local, finish>>
     \/ Choose
  /\ UNCHANGED <<queues, pipe, managers, config>>

(* Mutation: peer_lock stays. *)
CloseOldStaysLocked ==
  /\ Passes("accept", "close")
  /\ WriteByte("accept")
  /\ IF adminEnabled
     THEN GoesTo("accept", "announce") /\ UNCHANGED lock
     ELSE GoesTo("accept", "connect") /\ lock' = Unlocked("accept", "servers")
  /\ UNCHANGED <<queues, managers, finish, config, local>>

CloseOld ==
  /\ Passes("accept", "close")
  /\ WriteByte("accept")
  /\ IF adminEnabled
     THEN GoesTo("accept", "announce") /\ UNCHANGED lock
     ELSE GoesTo("accept", "connect") /\ lock' = BothUnlocked("accept")
  /\ UNCHANGED <<queues, managers, finish, config, local>>

(* The index that was found is looked at again under the write lock. *)
Recreate ==
  /\ Passes("accept", "recreate")
  /\ \/ Lists(IF adminEnabled THEN "announce" ELSE "connect") /\ UNCHANGED <<finish, local>>
     \/ Choose /\ UNCHANGED managers
  /\ UNCHANGED <<queues, pipe, config>>

(* The admin is told under the locks that are held: with peer_lock the      *)
(* session is in the directory, without it it is still to be added.         *)
Announce ==
  /\ Passes("accept", "announce")
  /\ PostToAdmin
  /\ IF "accept" \in Holders("peers")
     THEN GoesTo("accept", "connect") /\ lock' = BothUnlocked("accept")
     ELSE GoesTo("accept", "add") /\ UNCHANGED lock
  /\ UNCHANGED <<pipe, managers, finish, config, local>>

Add ==
  /\ Passes("accept", "add")
  /\ Lists("connect")
  /\ UNCHANGED <<queues, pipe, finish, config, local>>

(* connect() returned: addConnectionPeer lists the peer ... *)
Connect ==
  /\ pc["accept"] = "connect"
  /\ LET pcm == local["accept"].pcm
     IN  /\ serving' = serving \cup {pcm}
         /\ Aim("accept", pcm)
  /\ GoesTo("accept", "notify")
  /\ UNCHANGED <<lock, queues, pipe, m_list, listed, finish, config>>

(* ... and wakes its manager. *)
Notify ==
  /\ Passes("accept", "notify")
  /\ WriteByte("accept")
  /\ local' = [local EXCEPT !["accept"].aim = "nobody", !["accept"].pcm = "nobody"]
  /\ NextRound
  /\ UNCHANGED <<lock, queues, managers, config>>
-----------------------------------------------------------------------------
(* list *)

ListEnd ==
  /\ pc["list"] = "top" /\ finish["list"]
  /\ GoesTo("list", "ended")
  /\ UNCHANGED <<lock, queues, pipe, managers, finish, config, local>>

(* The queue wakes the thread by status, its trigger. *)
TakeMessage ==
  /\ pc["list"] = "top" /\ ~finish["list"] /\ jq /= <<>>
  /\ jq' = Tail(jq)
  /\ GoesTo("list", Head(jq))
  /\ UNCHANGED <<lock, jqDestroyed, admin_jq, pipe, managers, finish, config, local>>

(* The next task of a round, or the loop again. *)
NextTask(n) ==
  IF n = 0 THEN GoesTo("list", "top")
           ELSE \E task \in {"clean", "purge"} : GoesTo("list", task)

(* With no message left the tasks are run, if any is due. *)
TasksAreDue ==
  /\ pc["list"] = "top" /\ ~finish["list"] /\ jq = <<>>
  /\ \E n \in 1..MaxTasks : NextTask(n) /\ local' = [local EXCEPT !["list"].due = n - 1]
  /\ UNCHANGED <<lock, queues, pipe, managers, finish, config>>

(* processMessage: the session is not listed any more, it is kicked, or    *)
(* there is news of it, which the admin is told of ...                     *)
Message ==
  /\ \/ /\ Passes("list", "news") \/ Passes("list", "kick")
        /\ GoesTo("list", "top")
        /\ UNCHANGED <<lock, local>>
     \/ /\ Passes("list", "kick")
        /\ \E m \in Made : Aim("list", m)
        /\ lock' = Reading("list", "peers")
        /\ GoesTo("list", "kicking")
     \/ /\ Passes("list", "news")
        /\ lock' = Reading("list", "peers")
        /\ GoesTo("list", IF adminEnabled THEN "forward" ELSE "counters")
        /\ UNCHANGED local
  /\ UNCHANGED <<queues, pipe, managers, finish, config>>

Kick ==
  /\ Passes("list", "kicking")
  /\ WriteByte("list")
  /\ Aim("list", "nobody")
  /\ lock' = Unlocked("list", "peers")
  /\ GoesTo("list", "top")
  /\ UNCHANGED <<queues, managers, finish, config>>

(* ... and which may change the counters of its server. *)
Forward ==
  /\ Passes("list", "forward")
  /\ PostToAdmin
  /\ \/ GoesTo("list", "counters") /\ UNCHANGED lock
     \/ GoesTo("list", "top") /\ lock' = Unlocked("list", "peers")
  /\ UNCHANGED <<pipe, managers, finish, config, local>>

Counters ==
  /\ Passes("list", "counters")
  /\ lock' = Unlocked("list", "peers")
  /\ GoesTo("list", "top")
  /\ UNCHANGED <<queues, pipe, managers, finish, config, local>>

Entries == IF listed THEN 0..MaxEntries ELSE {0}

(* Mutation: the lock stays when the walk is over. *)
WalksStayLocked(n, place, m) ==
  LET next == Larger(local["list"].due - 1, 0)
  IN  /\ lock' = Writing("list", "peers")
      /\ IF n = 0
         THEN /\ local' = [local EXCEPT !["list"].left = 0, !["list"].aim = "nobody",
                                        !["list"].due = next]
              /\ NextTask(local["list"].due)
         ELSE /\ local' = [local EXCEPT !["list"].left = n, !["list"].aim = m]
              /\ GoesTo("list", place)

(* The walk of a task: n entries from here on, each of which waits at the   *)
(* place, for the manager m if it is a purge; peer_lock is held throughout. *)
(* After the last one it is the turn of the next task of the round.         *)
Walks(n, place, m) ==
  LET next == Larger(local["list"].due - 1, 0)
  IN  IF n = 0
      THEN /\ local' = [local EXCEPT !["list"].left = 0, !["list"].aim = "nobody",
                                     !["list"].due = next]
           /\ NextTask(local["list"].due)
           /\ lock' = Unlocked("list", "peers")
      ELSE /\ local' = [local EXCEPT !["list"].left = n, !["list"].aim = m]
           /\ GoesTo("list", place)
           /\ lock' = Writing("list", "peers")

CleanConnections ==
  /\ Passes("list", "clean")
  /\ \E n \in Entries : Walks(n, "entry", "nobody")
  /\ UNCHANGED <<queues, pipe, managers, finish, config>>

(* The counters of the entry's server, under a read lock, and the news of  *)
(* its deletion.                                                           *)
CleanEntry ==
  /\ Passes("list", "entry")
  /\ IF adminEnabled
     THEN GoesTo("list", "deleted") /\ UNCHANGED <<local, lock>>
     ELSE Walks(local["list"].left - 1, "entry", "nobody")
  /\ UNCHANGED <<queues, pipe, managers, finish, config>>

CleanDeleted ==
  /\ Passes("list", "deleted")
  /\ PostToAdmin
  /\ Walks(local["list"].left - 1, "entry", "nobody")
  /\ UNCHANGED <<pipe, managers, finish, config>>

PurgeConnections ==
  /\ Passes("list", "purge")
  /\ \E n \in Entries, m \in Made \cup {"nobody"} :
       /\ n > 0 <=> m /= "nobody"
       /\ Walks(n, "purging", m)
  /\ UNCHANGED <<queues, pipe, managers, finish, config>>

PurgeEntry ==
  /\ Passes("list", "purging")
  /\ WriteByte("list")
  /\ \E m \in Made : Walks(local["list"].left - 1, "purging", m)
  /\ UNCHANGED <<queues, managers, finish, config>>
-----------------------------------------------------------------------------
(* admin *)

(* All messages are taken before a browser is waited for. *)
AdminMessage ==
  /\ pc["admin"] = "drain"
  /\ IF admin_jq > 0
     THEN admin_jq' = admin_jq - 1 /\ UNCHANGED pc
     ELSE GoesTo("admin", "serve") /\ UNCHANGED admin_jq
  /\ UNCHANGED <<lock, jq, jqDestroyed, pipe, managers, finish, config, local>>

(* No browser came, or its page has been sent. *)
Serve ==
  /\ pc["admin"] = "serve"
  /\ GoesTo("admin", IF finish["admin"] THEN "ended" ELSE "drain")
  /\ UNCHANGED <<lock, queues, pipe, managers, finish, config, local>>

(* A page to kick or to ban is asked for. *)
AskRequest ==
  /\ pc["admin"] = "serve" /\ listed
  /\ GoesTo("admin", "request")
  /\ UNCHANGED <<lock, queues, pipe, managers, finish, config, local>>

(* The request is posted, and the browser redirected. *)
Request ==
  /\ Passes("admin", "request") /\ ~jqDestroyed
  /\ \E msg \in {"kick", "news"} : jq' = Append(jq, msg)
  /\ GoesTo("admin", "serve")
  /\ UNCHANGED <<lock, jqDestroyed, admin_jq, pipe, managers, finish, config, local>>
-----------------------------------------------------------------------------
(* The managers. *)

(* At the top of the loop the peers that have ended are taken out, which    *)
(* may be the last ones; finish takes them all out and ends the loop.       *)
Collect(m) ==
  /\ GoesTo(m, IF finish[m] THEN "ended" ELSE "select")
  /\ \/ serving' = serving \ {m}
     \/ ~finish[m] /\ UNCHANGED serving
  /\ UNCHANGED <<m_list, listed>>

(* select() reports the pipe, of which one byte is read, or a socket; what   *)
(* is done for the peers may post messages.                                  *)
Round(m) ==
  /\ pc[m] = "select"
  /\ pipe[m] > 0 \/ m \in serving
  /\ pipe' = [pipe EXCEPT ![m] = Larger(@ - 1, 0)]
  /\ \/ Collect(m) /\ UNCHANGED local
     \/ /\ m \in serving
        /\ \E n \in 1..MaxPosts : Leave(m, n)
        /\ GoesTo(m, "post")
        /\ UNCHANGED managers
  /\ UNCHANGED <<lock, queues, finish, config>>

Post(m) ==
  /\ Passes(m, "post") /\ ~jqDestroyed
  /\ jq' = Append(jq, "news")
  /\ Leave(m, local[m].left - 1)
  /\ IF local[m].left > 1 THEN UNCHANGED <<pc, managers>> ELSE Collect(m)
  /\ UNCHANGED <<lock, jqDestroyed, admin_jq, pipe, finish, config>>

(* A queue that is destroyed is posted to, or was waited for when it was:   *)
(* whether the call returns, or ever does, is not defined.                  *)
PostToDestroyed(t) ==
  /\ pc[t] \in PostsToList /\ jqDestroyed
  /\ Leave(t, 0)
  /\ \/ GoesTo(t, "undefined") /\ UNCHANGED managers
     \/ t = "admin" /\ GoesTo(t, "serve") /\ UNCHANGED managers
     \/ t \in Managers /\ Collect(t)
  /\ UNCHANGED <<lock, queues, pipe, finish, config>>
-----------------------------------------------------------------------------
(* main *)

(* A bind with its configuration; accept and list are started. *)
StartListening(enabled, count) ==
  /\ pc["main"] = "top"
  /\ count \in 1..MaxAddresses
  /\ adminEnabled' = enabled /\ addresses' = count
  /\ pc' = [pc EXCEPT !["main"] = "running", !["accept"] = "begin", !["list"] = "top"]
  /\ UNCHANGED <<lock, queues, pipe, managers, finish, local>>

(* The end of main's block: ~Bind. *)
Stop ==
  /\ pc["main"] = "running"
  /\ finish' = [finish EXCEPT !["accept"] = TRUE]
  /\ GoesTo("main", "joinAccept")
  /\ UNCHANGED <<lock, queues, pipe, managers, config, local>>

(* Mutation: the thread is not waited for. *)
DestroyServerListAtOnce ==
  /\ Passes("main", "joinAccept")
  /\ finish' = [finish EXCEPT !["list"] = TRUE]
  /\ GoesTo("main", "cleanList")
  /\ UNCHANGED <<lock, queues, pipe, managers, config, local>>

(* ~ServerList: finish, and status wakes the thread. *)
DestroyServerList ==
  /\ Passes("main", "joinAccept")
  /\ finish' = [finish EXCEPT !["list"] = TRUE]
  /\ GoesTo("main", "joinList")
  /\ UNCHANGED <<lock, queues, pipe, managers, config, local>>

(* cleanList and cleanPeerList, one lock after the other. *)
CleanLists ==
  /\ \/ Passes("main", "joinList") /\ GoesTo("main", "cleanList")
     \/ Passes("main", "cleanList") /\ GoesTo("main", "cleanPeerList")
     \/ Passes("main", "cleanPeerList") /\ GoesTo("main", "destroy")
  /\ UNCHANGED <<lock, queues, pipe, managers, finish, config, local>>

(* The members are destroyed in the reverse of their order in ServerList.h: *)
(* the queue first, the managers last.                                      *)
DestroyJq ==
  /\ pc["main"] = "destroy" /\ ~jqDestroyed
  /\ jq' = <<>> /\ jqDestroyed' = TRUE
  /\ UNCHANGED <<pc, lock, admin_jq, pipe, managers, finish, config, local>>

(* Mutation: the pipe is not written to. *)
DestroyManagerAsleep ==
  /\ pc["main"] = "destroy" /\ jqDestroyed /\ m_list /= <<>>
  /\ finish' = [finish EXCEPT ![Head(m_list)] = TRUE]
  /\ Aim("main", Head(m_list))
  /\ GoesTo("main", "joinManager")
  /\ UNCHANGED <<lock, queues, pipe, managers, config>>

(* ~ThreadedConnectionManager of the first one: finish, then the pipe. *)
DestroyManager ==
  /\ pc["main"] = "destroy" /\ jqDestroyed /\ m_list /= <<>>
  /\ finish' = [finish EXCEPT ![Head(m_list)] = TRUE]
  /\ Aim("main", Head(m_list))
  /\ GoesTo("main", "wake")
  /\ UNCHANGED <<lock, queues, pipe, managers, config>>

Wake ==
  /\ Passes("main", "wake")
  /\ WriteByte("main")
  /\ GoesTo("main", "joinManager")
  /\ UNCHANGED <<lock, queues, managers, finish, config, local>>

ManagerEnded ==
  /\ Passes("main", "joinManager")
  /\ m_list' = Tail(m_list)
  /\ serving' = serving \ {Head(m_list)}
  /\ pipe' = [pipe EXCEPT ![Head(m_list)] = 0]
  /\ Aim("main", "nobody")
  /\ GoesTo("main", "destroy")
  /\ UNCHANGED <<lock, queues, listed, finish, config>>

(* ~AdminHTTPServer is the last one. *)
DestroyAdmin ==
  /\ pc["main"] = "destroy" /\ jqDestroyed /\ m_list = <<>>
  /\ finish' = [finish EXCEPT !["admin"] = TRUE]
  /\ GoesTo("main", "joinAdmin")
  /\ UNCHANGED <<lock, queues, pipe, managers, config, local>>

AdminEnded ==
  /\ Passes("main", "joinAdmin")
  /\ admin_jq' = 0
  /\ GoesTo("main", "ended")
  /\ UNCHANGED <<lock, jq, jqDestroyed, pipe, managers, finish, config, local>>
-----------------------------------------------------------------------------
(* What happens from outside, in time or not. *)
Arrives == Accept \/ TasksAreDue \/ AskRequest \/ \E m \in Managers : Round(m)

AcceptGoesOn ==
  \/ Begin \/ Timeout \/ LockServers \/ Search \/ CloseOld \/ Recreate
  \/ Announce \/ Add \/ Connect \/ Notify

ListGoesOn ==
  \/ ListEnd \/ TakeMessage \/ Message \/ Kick \/ Forward \/ Counters
  \/ CleanConnections \/ CleanEntry \/ CleanDeleted
  \/ PurgeConnections \/ PurgeEntry

AdminGoesOn == AdminMessage \/ Request \/ PostToDestroyed("admin")

ManagerGoesOn(m) == Post(m) \/ PostToDestroyed(m)

MainGoesOn ==
  \/ DestroyServerList \/ CleanLists \/ DestroyJq \/ DestroyManager \/ Wake
  \/ ManagerEnded \/ DestroyAdmin \/ AdminEnded

Starts ==
  \E enabled \in BOOLEAN, count \in 1..MaxAddresses : StartListening(enabled, count)

Runs ==
  \/ Arrives \/ AcceptGoesOn \/ ListGoesOn \/ AdminGoesOn \/ Serve
  \/ \E m \in Managers : ManagerGoesOn(m)
  \/ MainGoesOn

Next == Starts \/ Runs \/ Stop

Spec == Init /\ [][Next]_vars

(* A thread that can go on now and then does: locks and semaphores are not  *)
(* kept from anyone for ever, connect() returns, a manager whose pipe has a *)
(* byte wakes up.  Serve: a browser ends the page it asked for.             *)
Fairness ==
  /\ SF_vars(AcceptGoesOn) /\ SF_vars(ListGoesOn) /\ SF_vars(AdminGoesOn)
  /\ SF_vars(Serve) /\ WF_vars(MainGoesOn)
  /\ \A m \in Managers : SF_vars(ManagerGoesOn(m) \/ (pipe[m] > 0 /\ Round(m)))
-----------------------------------------------------------------------------
Waiting == {t \in Threads : BlockedBy(t) /= {}}

(* The threads of a circular wait: each waits for another one of them. *)
Circular(some) ==
  some /= {} /\ \A t \in some : BlockedBy(t) \cap some /= {}

(* A thread waits for one that does not come back. *)
Abandoned ==
  \E t \in Waiting : \E u \in BlockedBy(t) : pc[u] \in {"none", "ended", "undefined"}

(* The two locks alone never stop the threads, though getServer takes them  *)
(* in one order and processMessage and cleanConnections in the other: every *)
(* circular wait goes through ServerList's full queue, and a second queue   *)
(* that is full, the admin's or a pipe.  Nobody waits for a thread that has *)
(* ended before the program is stopped.                                     *)
OnlyFullQueuesStop ==
  /\ \A some \in SUBSET Waiting : Circular(some) =>
       /\ "list" \in some /\ Full(jq)
       /\ \/ admin_jq = AdminJqLimit
          \/ \E m \in some \cap Managers : pipe[m] = PipeSize
  /\ Abandoned => finish["accept"]

(* What is destroyed is not used any more, the queue apart (see             *)
(* PostToDestroyed): the lists and locks after accept and list have ended,  *)
(* a manager's pipe and the admin's queue after their last writer.  (Every  *)
(* variable holds a value of its type.)                                     *)
UsersEndFirst ==
  /\ TypeOK
  /\ pc["main"] \in {"cleanList", "cleanPeerList", "destroy", "wake", "joinManager",
                     "joinAdmin", "ended"} =>
       /\ pc["accept"] = "ended" /\ pc["list"] = "ended"
       /\ \A l \in Locks : Holders(l) = {}
       /\ pc["main"] = "ended" => \A t \in Threads \ {"main"} : pc[t] \in {"none", "ended"}

Stuck ==
  \/ \E some \in SUBSET Waiting : Circular(some)
  \/ Abandoned
  \/ \E t \in Threads : pc[t] = "undefined"

(* A client that was accepted is refused or handed to a manager, whatever   *)
(* waits for what, unless threads are stuck.                                *)
ClientsAreServed ==
  pc["accept"] = "servers" ~> pc["accept"] \in {"select", "ended"} \/ Stuck

(* ServerList's thread comes back to its queue from every message and task. *)
ListComesRound == pc["list"] \notin {"none", "top", "ended"} ~> pc["list"] = "top" \/ Stuck

(* A stop ends every thread. *)
StopEnds == pc["main"] = "joinAccept" ~> pc["main"] = "ended" \/ Stuck
=============================================================================
