---------------------- MODULE ThreadedConnectionManager ----------------------
(***************************************************************************)
(* One ThreadedConnectionManager and the threads that share it:            *)
(*                                                                         *)
(*   loop    its own thread: purge, collect, select(), manage              *)
(*   bind    the accept thread, which chooses the manager, makes the       *)
(*           connection and adds the peer (ServerList::setServer)          *)
(*   closer  the ServerList thread, which asks for peers to be closed      *)
(*   owner   the thread that destroys the manager                          *)
(*                                                                         *)
(* The lists and the counter they share have no lock: every access to the  *)
(* counter is a read or a write, and tobjlist::add() stores the object     *)
(* behind the last one and then counts it, so that a del() or pop() of the *)
(* loop may come between the two.                                          *)
(***************************************************************************)
EXTENDS Integers, FiniteSets, SequencesExt, PeerPhases

CONSTANTS
  Peers,           (* Bound: the peers that are made in a run.              *)
  max_connections, (* The peers the manager may hold.                       *)
  PipeSize,        (* The bytes the control pipe holds; write() then waits. *)
  MaxRequests,     (* Bound: the calls of closePInfo in a run.              *)
  SelectErrors     (* The errors of select() that happen in a run.          *)

ASSUME ManagerAssumption ==
  /\ IsFiniteSet(Peers)
  /\ max_connections \in Nat \ {0}
  /\ PipeSize \in Nat \ {0}
  /\ MaxRequests \in Nat
  /\ SelectErrors \subseteq {"EINTR", "EBADF"}

VARIABLES
  peer_list,            (* The established peers, a sequence.               *)
  connecting_peer_list, (* The connecting ones, a tobjlist (see below).     *)
  to_be_closed,         (* The close requests, a tobjlist, the last on top. *)
  currentconnections,
  finish,
  pipe,                 (* How many bytes are in the control pipe.          *)
  phase,                (* The phase of every peer (PeerLife), or "none"    *)
                        (* before it is made and "deleted" after it.        *)
  loop, bind, closer    (* The threads: their pc and local variables.       *)

lists == <<peer_list, connecting_peer_list, to_be_closed>>
vars == <<lists, currentconnections, finish, pipe, phase, loop, bind, closer>>

(* What serving a peer makes of its phase; its messages are ServerList's    *)
(* matter.                                                                  *)
ServedTo(f) == {o.phase : o \in Served(f)}

(* Mutation: the pointers of the sockets stay set. *)
ActiveWhenMade(p) == phase[p] # "none"

Active(p) == phase[p] \in {"connecting", "open", "flushClient", "flushServer"}

-----------------------------------------------------------------------------
(***************************************************************************)
(* tobjlist (ptypes): the memory, of which count entries are in the list,  *)
(* and how far an add() has come.  What is behind the count stays in the   *)
(* memory.  (add is history: nothing in the code depends on it.)           *)
(***************************************************************************)

NoPeer == "none"

EmptyList == [memory |-> <<>>, count |-> 0, add |-> "none"]

Items(l) == SubSeq(l.memory, 1, l.count)

(* add(): the memory behind the last entry is overwritten... *)
Stored(l, p) ==
  [l EXCEPT !.memory = SubSeq(@, 1, l.count) \o <<p>>
                         \o SubSeq(@, l.count + 2, Len(@)),
            !.add = IF @ = "torn" THEN "torn" ELSE "begun"]

(* ... and then counted. *)
Counted(l) ==
  [l EXCEPT !.count = @ + 1, !.add = IF @ = "torn" THEN "torn" ELSE "none"]

(* del() moves the entries behind the hole; the last one stays in memory.   *)
(* An add() that has begun and not ended is torn.                           *)
Deleted(l, i) ==
  [memory |-> [j \in 1 .. Len(l.memory) |->
                 IF j >= i /\ j < l.count THEN l.memory[j + 1]
                                          ELSE l.memory[j]],
   count |-> l.count - 1,
   add |-> IF l.add = "none" THEN "none" ELSE "torn"]

Torn(l) == l.add = "torn"

connecting == Items(connecting_peer_list)
Listed == peer_list \o connecting

-----------------------------------------------------------------------------
Init ==
  /\ peer_list = <<>>
  /\ connecting_peer_list = EmptyList
  /\ to_be_closed = EmptyList
  /\ currentconnections = 0
  /\ finish = FALSE
  /\ pipe = 0
  /\ phase = [p \in Peers |-> "none"]
  /\ loop = [pc |-> "top", i |-> 1, current |-> 0, watched |-> {}, ready |-> {}]
  /\ bind = [pc |-> "idle", peer |-> NoPeer, current |-> 0]
  /\ closer = [pc |-> "idle", requests |-> 0]

-----------------------------------------------------------------------------
(* The accept thread. *)

(* getFreeConnections of a manager that may be reused, and getServer: the   *)
(* ServerList knows the peer from here on, while its connection is made.    *)
BindChoose ==
  /\ bind.pc = "idle"
  /\ ~finish
  /\ max_connections - currentconnections > 0
  /\ \E p \in Peers :
       /\ phase[p] = "none"
       /\ bind' = [bind EXCEPT !.pc = "connect", !.peer = p]
  /\ UNCHANGED <<lists, currentconnections, finish, pipe, phase, loop, closer>>

(* addConnectionPeer: currentconnections++ is a read... *)
BindRead ==
  /\ bind.pc = "connect"
  /\ phase' = [phase EXCEPT ![bind.peer] = "connecting"]
  /\ bind' = [bind EXCEPT !.pc = "counting", !.current = currentconnections]
  /\ UNCHANGED <<lists, currentconnections, finish, pipe, loop, closer>>

(* ... and a write. *)
BindWrite ==
  /\ bind.pc = "counting"
  /\ currentconnections' = bind.current + 1
  /\ bind' = [bind EXCEPT !.pc = "adding"]
  /\ UNCHANGED <<lists, finish, pipe, phase, loop, closer>>

(* connecting_peer_list.add(), in its two steps. *)
BindStore ==
  /\ bind.pc = "adding"
  /\ connecting_peer_list' = Stored(connecting_peer_list, bind.peer)
  /\ bind' = [bind EXCEPT !.pc = "stored"]
  /\ UNCHANGED <<peer_list, to_be_closed, currentconnections, finish, pipe,
                 phase, loop, closer>>

BindCount ==
  /\ bind.pc = "stored"
  /\ connecting_peer_list' = Counted(connecting_peer_list)
  /\ bind' = [bind EXCEPT !.pc = "added"]
  /\ UNCHANGED <<peer_list, to_be_closed, currentconnections, finish, pipe,
                 phase, loop, closer>>

(* control_socket.post() waits while the pipe is full. *)
BindPost ==
  /\ bind.pc = "added"
  /\ pipe < PipeSize
  /\ pipe' = pipe + 1
  /\ bind' = [bind EXCEPT !.pc = "idle", !.peer = NoPeer, !.current = 0]
  /\ UNCHANGED <<lists, currentconnections, finish, phase, loop, closer>>

(* Mutation: the pipe is written before the peer is in the list. *)
BindPostFirst ==
  /\ bind.pc = "adding"
  /\ pipe < PipeSize
  /\ pipe' = pipe + 1
  /\ bind' = [bind EXCEPT !.pc = "posted"]
  /\ UNCHANGED <<lists, currentconnections, finish, phase, loop, closer>>

BindAddAfterPost ==
  /\ bind.pc = "posted"
  /\ connecting_peer_list' = Counted(Stored(connecting_peer_list, bind.peer))
  /\ bind' = [bind EXCEPT !.pc = "idle", !.peer = NoPeer, !.current = 0]
  /\ UNCHANGED <<peer_list, to_be_closed, currentconnections, finish, pipe,
                 phase, loop, closer>>

AddConnectionPeerPostsFirst ==
  BindRead \/ BindWrite \/ BindPostFirst \/ BindAddAfterPost

AddConnectionPeer ==
  BindRead \/ BindWrite \/ BindStore \/ BindCount \/ BindPost

-----------------------------------------------------------------------------
(* The ServerList thread: a kick, or the purge task, of a peer it knows. *)

CloserRequest ==
  /\ closer.pc = "idle"
  /\ ~finish
  /\ closer.requests < MaxRequests
  /\ \E p \in Peers :
       /\ phase[p] # "none" \/ bind.peer = p
       /\ to_be_closed' = Stored(to_be_closed, p)
  /\ closer' = [pc |-> "stored", requests |-> closer.requests + 1]
  /\ UNCHANGED <<peer_list, connecting_peer_list, currentconnections, finish,
                 pipe, phase, loop, bind>>

CloserCount ==
  /\ closer.pc = "stored"
  /\ to_be_closed' = Counted(to_be_closed)
  /\ closer' = [closer EXCEPT !.pc = "added"]
  /\ UNCHANGED <<peer_list, connecting_peer_list, currentconnections, finish,
                 pipe, phase, loop, bind>>

CloserPost ==
  /\ closer.pc = "added"
  /\ pipe < PipeSize
  /\ pipe' = pipe + 1
  /\ closer' = [closer EXCEPT !.pc = "idle"]
  /\ UNCHANGED <<lists, currentconnections, finish, phase, loop, bind>>

(* Mutation: the loop is not woken up. *)
CloserForgets ==
  /\ closer.pc = "added"
  /\ closer' = [closer EXCEPT !.pc = "idle"]
  /\ UNCHANGED <<lists, currentconnections, finish, pipe, phase, loop, bind>>

ClosePInfoForgets == CloserRequest \/ CloserCount \/ CloserForgets

ClosePInfo == CloserRequest \/ CloserCount \/ CloserPost

(* The destructor: the threads that use the manager are over by then. *)
Stop ==
  /\ ~finish
  /\ bind.pc = "idle"
  /\ closer.pc = "idle"
  /\ pipe < PipeSize
  /\ finish' = TRUE
  /\ pipe' = pipe + 1
  /\ UNCHANGED <<lists, currentconnections, phase, loop, bind, closer>>

-----------------------------------------------------------------------------
(***************************************************************************)
(* The loop.  In every phase of a round, loop.i is the index into the list *)
(* it walks; the lists may grow behind it.                                 *)
(***************************************************************************)

Walked ==
  CASE loop.pc = "manage"           -> peer_list
    [] loop.pc = "manageConnecting" -> connecting
    [] OTHER                        -> Listed

Freed == {p \in ToSet(Listed) : phase[p] = "deleted"}

(* The entry that the walk has come to, or one of those that                *)
(* checkConnections or cleanup go through, is a peer that was deleted.      *)
UsesFreed ==
  \/ /\ loop.pc \in {"purge", "collect", "manage", "manageConnecting"}
     /\ loop.pc = "purge" => to_be_closed.count > 0
     /\ loop.i <= Len(Walked) /\ Walked[loop.i] \in Freed
  \/ loop.pc = "read" /\ pipe > 0 /\ Freed # {}
  \/ loop.pc = "top" /\ finish /\ (Freed # {} \/ ~IsInjective(Listed))

Goto(pc) == [loop EXCEPT !.pc = pc, !.i = 1]
Advance == [loop EXCEPT !.i = @ + 1]

(* What the thread does with a peer that was deleted, and from then on, is  *)
(* not defined.                                                             *)
LoopUndefined ==
  /\ UsesFreed
  /\ loop' = Goto("undefined")
  /\ UNCHANGED <<lists, currentconnections, finish, pipe, phase, bind, closer>>

LoopTop ==
  /\ loop.pc = "top"
  /\ ~finish
  /\ loop' = [Goto("purge") EXCEPT !.watched = {}, !.ready = {}]
  /\ UNCHANGED <<lists, currentconnections, finish, pipe, phase, bind, closer>>

(* closePInfo of every peer, with the request that is on top right now. *)
LoopPurge ==
  /\ loop.pc = "purge" /\ ~UsesFreed
  /\ to_be_closed.count > 0
  /\ loop.i <= Len(Listed)
  /\ phase' = [phase EXCEPT ![Listed[loop.i]] =
                 IF Listed[loop.i] = Last(Items(to_be_closed)) THEN Kicked.phase ELSE @]
  /\ loop' = Advance
  /\ UNCHANGED <<lists, currentconnections, finish, pipe, bind, closer>>

LoopPop ==
  /\ loop.pc = "purge"
  /\ to_be_closed.count > 0
  /\ loop.i > Len(Listed)
  /\ to_be_closed' = Deleted(to_be_closed, to_be_closed.count)
  /\ loop' = Goto("purge")
  /\ UNCHANGED <<peer_list, connecting_peer_list, currentconnections, finish,
                 pipe, phase, bind, closer>>

LoopPurged ==
  /\ loop.pc = "purge"
  /\ to_be_closed.count = 0
  /\ loop' = Goto("collect")
  /\ UNCHANGED <<lists, currentconnections, finish, pipe, phase, bind, closer>>

(* An active peer is watched... *)
LoopWatch ==
  /\ loop.pc = "collect"
  /\ loop.i <= Len(Listed)
  /\ ~finish /\ Active(Listed[loop.i])
  /\ loop' = [Advance EXCEPT !.watched = @ \cup {Listed[loop.i]}]
  /\ UNCHANGED <<lists, currentconnections, finish, pipe, phase, bind, closer>>

(* ... an inactive one is taken out of its list and deleted... *)
LoopDelete ==
  /\ loop.pc = "collect" /\ ~UsesFreed
  /\ loop.i <= Len(Listed)
  /\ finish \/ ~Active(Listed[loop.i])
  /\ IF loop.i <= Len(peer_list)
     THEN /\ peer_list' = RemoveAt(peer_list, loop.i)
          /\ UNCHANGED connecting_peer_list
     ELSE /\ connecting_peer_list' =
                Deleted(connecting_peer_list, loop.i - Len(peer_list))
          /\ UNCHANGED peer_list
  /\ phase' = [phase EXCEPT ![Listed[loop.i]] = "deleted"]
  /\ loop' = [loop EXCEPT !.pc = "uncount", !.current = currentconnections]
  /\ UNCHANGED <<to_be_closed, currentconnections, finish, pipe, bind, closer>>

(* ... and currentconnections--, which was read with the deletion. *)
LoopUncount ==
  /\ loop.pc = "uncount"
  /\ currentconnections' = loop.current - 1
  /\ loop' = [loop EXCEPT !.pc = "collect", !.current = 0]
  /\ UNCHANGED <<lists, finish, pipe, phase, bind, closer>>

LoopCollected ==
  /\ loop.pc = "collect"
  /\ loop.i > Len(Listed)
  /\ loop' = Goto(IF finish THEN "top" ELSE "select")
  /\ UNCHANGED <<lists, currentconnections, finish, pipe, phase, bind, closer>>

(* select() returns with sockets that are ready; checkSocket takes one byte *)
(* of the pipe if there is one.                                             *)
LoopSelect ==
  /\ loop.pc = "select"
  /\ \E ready \in SUBSET loop.watched :
       /\ ready # {} \/ pipe > 0
       /\ loop' = [Goto("manage") EXCEPT !.ready = ready]
  /\ pipe' = IF pipe > 0 THEN pipe - 1 ELSE 0
  /\ UNCHANGED <<lists, currentconnections, finish, phase, bind, closer>>

(* A signal: the round starts again.  A bad descriptor: the pipe, which is  *)
(* still in the set, is read, and read() waits for a byte.                  *)
LoopSelectFails ==
  /\ loop.pc = "select"
  /\ \E e \in SelectErrors :
       loop' = Goto(IF e = "EINTR" THEN "top" ELSE "read")
  /\ UNCHANGED <<lists, currentconnections, finish, pipe, phase, bind, closer>>

(* checkConnections: any socket may turn out to be lost. *)
LoopCheck ==
  /\ loop.pc = "read" /\ ~UsesFreed
  /\ pipe > 0
  /\ pipe' = pipe - 1
  /\ phase' \in {f \in [Peers -> Phases \cup {"none", "deleted"}] :
                  \A p \in Peers :
                    f[p] \in IF p \in ToSet(Listed) /\ phase[p] \in Phases
                            THEN {phase[p]} \cup (ServedTo(phase[p]) \ {"open"})
                            ELSE {phase[p]}}
  /\ loop' = Goto("top")
  /\ UNCHANGED <<lists, currentconnections, finish, bind, closer>>

(* manageConnections of the established peers... *)
LoopManage ==
  /\ loop.pc = "manage" /\ ~UsesFreed
  /\ loop.i <= Len(peer_list)
  /\ LET p == peer_list[loop.i]
     IN  IF p \in loop.ready
         THEN \E f \in ServedTo(phase[p]) : phase' = [phase EXCEPT ![p] = f]
         ELSE UNCHANGED phase
  /\ loop' = Advance
  /\ UNCHANGED <<lists, currentconnections, finish, pipe, bind, closer>>

LoopManaged ==
  /\ loop.pc = "manage"
  /\ loop.i > Len(peer_list)
  /\ loop' = Goto("manageConnecting")
  /\ UNCHANGED <<lists, currentconnections, finish, pipe, phase, bind, closer>>

(* Mutations: a connected peer stays in the list; it is in no list. *)
MovedWith(p, del, add) ==
  \E f \in IF p \in loop.ready THEN ServedTo(phase[p]) ELSE {phase[p]} :
    /\ phase' = [phase EXCEPT ![p] = f]
    /\ connecting_peer_list' = IF f = "open" /\ del
                               THEN Deleted(connecting_peer_list, loop.i)
                               ELSE connecting_peer_list
    /\ peer_list' = IF f = "open" /\ add THEN Append(peer_list, p)
                                        ELSE peer_list
    /\ loop' = Advance

LoopManageConnectingKeeps ==
  /\ loop.pc = "manageConnecting" /\ ~UsesFreed
  /\ loop.i <= Len(connecting)
  /\ MovedWith(connecting[loop.i], FALSE, TRUE)
  /\ UNCHANGED <<to_be_closed, currentconnections, finish, pipe, bind, closer>>

LoopManageConnectingDrops ==
  /\ loop.pc = "manageConnecting" /\ ~UsesFreed
  /\ loop.i <= Len(connecting)
  /\ MovedWith(connecting[loop.i], TRUE, FALSE)
  /\ UNCHANGED <<to_be_closed, currentconnections, finish, pipe, bind, closer>>

(* ... and manageConnectingPeer of the others: a peer that is connected     *)
(* changes the list, and the index stays where it is.                       *)
LoopManageConnecting ==
  /\ loop.pc = "manageConnecting" /\ ~UsesFreed
  /\ loop.i <= Len(connecting)
  /\ LET p == connecting[loop.i]
     IN  \E f \in IF p \in loop.ready THEN ServedTo(phase[p]) ELSE {phase[p]} :
           /\ phase' = [phase EXCEPT ![p] = f]
           /\ IF f = "open"
              THEN /\ connecting_peer_list' = Deleted(connecting_peer_list, loop.i)
                   /\ peer_list' = Append(peer_list, p)
                   /\ UNCHANGED loop
              ELSE /\ loop' = Advance
                   /\ UNCHANGED <<peer_list, connecting_peer_list>>
  /\ UNCHANGED <<to_be_closed, currentconnections, finish, pipe, bind, closer>>

LoopAgain ==
  /\ loop.pc = "manageConnecting"
  /\ loop.i > Len(connecting)
  /\ loop' = Goto("top")
  /\ UNCHANGED <<lists, currentconnections, finish, pipe, phase, bind, closer>>

(* Mutation: the connecting peers are forgotten. *)
LoopEndKeepsConnecting ==
  /\ loop.pc = "top" /\ ~UsesFreed
  /\ finish
  /\ phase' = [p \in Peers |-> IF p \in ToSet(peer_list) THEN "deleted" ELSE phase[p]]
  /\ peer_list' = <<>>
  /\ to_be_closed' = [to_be_closed EXCEPT !.count = 0]
  /\ loop' = Goto("done")
  /\ UNCHANGED <<connecting_peer_list, currentconnections, finish, pipe, bind,
                 closer>>

(* cleanup() deletes what is left in the lists. *)
LoopEnd ==
  /\ loop.pc = "top" /\ ~UsesFreed
  /\ finish
  /\ phase' = [p \in Peers |-> IF p \in ToSet(Listed) THEN "deleted" ELSE phase[p]]
  /\ peer_list' = <<>>
  /\ connecting_peer_list' = [connecting_peer_list EXCEPT !.count = 0]
  /\ to_be_closed' = [to_be_closed EXCEPT !.count = 0]
  /\ loop' = Goto("done")
  /\ UNCHANGED <<currentconnections, finish, pipe, bind, closer>>

Execute ==
  \/ LoopTop \/ LoopPurge \/ LoopPop \/ LoopPurged
  \/ LoopWatch \/ LoopDelete \/ LoopUncount \/ LoopCollected
  \/ LoopSelect \/ LoopSelectFails \/ LoopCheck
  \/ LoopManage \/ LoopManaged \/ LoopManageConnecting \/ LoopAgain \/ LoopEnd
  \/ LoopUndefined

Next == BindChoose \/ AddConnectionPeer \/ ClosePInfo \/ Execute \/ Stop

Spec == Init /\ [][Next]_vars

(***************************************************************************)
(* Fairness: the operating system runs every thread, and select() returns  *)
(* when the control pipe is readable; nothing is assumed of the sockets,   *)
(* of accept() and of the callers of closePInfo, but that a call that has  *)
(* begun goes on.                                                          *)
(***************************************************************************)
LoopRuns == Execute /\ (loop.pc = "select" => pipe > 0)

FairSpec ==
  Spec /\ WF_vars(LoopRuns) /\ WF_vars(AddConnectionPeer) /\ WF_vars(CloserPost)

-----------------------------------------------------------------------------
PeerOrNone == Peers \cup {NoPeer}

ObjectLists == [memory : Seq(Peers), count : Nat, add : {"none", "begun", "torn"}]

(* Every variable holds a value of its type. *)
TypeOK ==
  /\ peer_list \in Seq(Peers)
  /\ {connecting_peer_list, to_be_closed} \subseteq ObjectLists
  /\ connecting_peer_list.count <= Len(connecting_peer_list.memory)
  /\ to_be_closed.count <= Len(to_be_closed.memory)
  /\ currentconnections \in Int
  /\ finish \in BOOLEAN
  /\ pipe \in 0 .. PipeSize
  /\ phase \in [Peers -> Phases \cup {"none", "deleted"}]
  /\ loop.pc \in {"top", "purge", "collect", "uncount", "select", "read",
                  "manage", "manageConnecting", "done", "undefined"}
  /\ loop.watched \subseteq Peers /\ loop.ready \subseteq Peers
  /\ bind.pc \in {"idle", "connect", "counting", "adding", "stored", "added"}
  /\ bind.peer \in PeerOrNone
  /\ closer.pc \in {"idle", "stored", "added"}
  /\ closer.requests \in 0 .. MaxRequests

(* A peer is in one list, once, and none that was deleted is left in one.   *)
Sound ==
  /\ IsInjective(Listed)
  /\ \A p \in ToSet(Listed) : phase[p] \notin {"none", "deleted"}

Existing == {p \in Peers : phase[p] \in Phases}

(* A peer that exists is in a list or in the hands of the accept thread.    *)
Kept == Existing \subseteq ToSet(Listed) \cup {bind.peer}

(***************************************************************************)
(* Only an add() that is torn by a del() breaks the lists: as long as none *)
(* was, the loop never serves or deletes freed memory, whatever is added   *)
(* behind its index, moved and deleted between two of its steps.  (Every   *)
(* variable holds a value of its type.)                                    *)
(***************************************************************************)
ListsAreSound ==
  /\ TypeOK
  /\ ~Torn(connecting_peer_list) => Sound /\ loop.pc # "undefined"

(***************************************************************************)
(* Nor is a peer forgotten otherwise: moving it between the lists or       *)
(* cleaning up leaves none behind.                                         *)
(***************************************************************************)
NothingLeaks == ~Torn(connecting_peer_list) => Kept

(***************************************************************************)
(* The loop does not fall asleep over work it has not seen: when it is in  *)
(* select() without watching a peer that is listed, or with a request      *)
(* left, a byte is in the control pipe or is about to be written.  (Also   *)
(* when an add() was torn.)                                                *)
(***************************************************************************)
NoLostWakeup ==
  loop.pc = "select" =>
    /\ ~(ToSet(Listed) \subseteq loop.watched) => pipe > 0 \/ bind.pc = "added"
    /\ to_be_closed.count > 0 => pipe > 0 \/ closer.pc = "added"
    /\ finish => pipe > 0

-----------------------------------------------------------------------------
(* Liveness: what is promised is promised of lists that are not torn. *)

(* A peer that was added is watched by select(), unless it ends before. *)
AddedIsWatched ==
  \A p \in Peers :
    p \in ToSet(connecting) ~> \/ p \in loop.watched \/ phase[p] \in {"over", "deleted"}
                              \/ Torn(connecting_peer_list)

(* The close requests are worked off, although none of the sockets moves. *)
RequestsAreHandled ==
  to_be_closed.count > 0 ~> to_be_closed.count = 0 \/ Torn(connecting_peer_list)

(* A peer without sockets is deleted. *)
OverIsDeleted ==
  \A p \in Peers :
    phase[p] = "over" ~> phase[p] = "deleted" \/ Torn(connecting_peer_list)

(* The destructor, which waits for the loop, returns, and by then every     *)
(* peer that was made has been deleted, wherever in its round the loop was. *)
StopEnds ==
  finish ~> \/ loop.pc = "done" /\ Existing = {}
            \/ Torn(connecting_peer_list)

-----------------------------------------------------------------------------
(***************************************************************************)
(* Written in the repository, and not what the code does.                  *)
(***************************************************************************)

(* "no risk of concurrent access issue with addConnectionPeer, since using  *)
(* an index" (ThreadedConnectionManager.cpp:203).                           *)
NoConcurrentAccessIssue == Sound /\ Kept

(* A manager has no more connections than its number of "client connections *)
(* managed per thread" (relb.conf.sample:90).                               *)
RoomIsKept == Cardinality(Existing) <= max_connections

=============================================================================
