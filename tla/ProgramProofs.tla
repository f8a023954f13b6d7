--------------------------- MODULE ProgramProofs ----------------------------
(***************************************************************************)
(* What the threads of a bind never do, proved for any number of managers, *)
(* entries, tasks and messages and any length of the queues:               *)
(*                                                                         *)
(*   Destruction  nothing is destroyed under a thread that uses it         *)
(*   Waits        threads that wait for each other for ever have a full    *)
(*                queue among them                                         *)
(*                                                                         *)
(* Both follow from one invariant, Inv, whose parts are stated first.      *)
(* Then come what the parts of an action leave (types, and the variables a *)
(* thread may not touch), one lemma for every part of Inv and kind of step *)
(* (AcceptOrder, ListOrder, ...), their conjunction (Preserved), and what  *)
(* a wait means in a state with Inv (LocksWanted to NobodyIsAbandoned).    *)
(*                                                                         *)
(* At the end: the program is a Bind (ProgramIsBind), and what was proved  *)
(* of a Bind holds of the program (ProgramIsSafe).                         *)
(***************************************************************************)
EXTENDS Program, ListFacts

(***************************************************************************)
(* The invariant.                                                          *)
(***************************************************************************)

(* servers_lock is never written, and peer_lock is accept's or list's; each *)
(* is held only at the places where the code has it.                        *)
Held ==
  /\ lock["servers"].writing = {}
  /\ lock["servers"].reading \subseteq {"accept"}
  /\ Holders("peers") \subseteq {"accept", "list"}
  /\ "accept" \in lock["servers"].reading =>
       pc["accept"] \in {"search", "close", "recreate", "announce", "add"}
  /\ "accept" \in Holders("peers") => pc["accept"] \in {"close", "announce"}
  /\ "list" \in Holders("peers") =>
       pc["list"] \in {"kicking", "forward", "counters", "entry", "deleted", "purging"}

(* A walk that waits has an entry left, and a round of a manager a message. *)
Walking ==
  /\ pc["list"] \in {"entry", "deleted", "purging"} => local["list"].left >= 1
  /\ \A m \in Managers : pc[m] = "post" => local[m].left >= 1

(* Accept has taken a client, and not yet given it to its manager. *)
Serving == {"servers", "search", "close", "recreate", "announce", "add", "connect"}

(* The manager that was chosen for the client is one of the list. *)
Chosen == pc["accept"] \in Serving => local["accept"].pcm \in Made

(* Where main is when it has joined accept. *)
AfterAccept ==
  {"joinList", "cleanList", "cleanPeerList", "destroy", "wake", "joinManager", "joinAdmin",
   "ended"}

(* The order in which main starts the threads and ~Bind ends them. *)
Order ==
  /\ pc["main"] = "top" => pc["accept"] = "none" /\ pc["list"] = "none" /\ m_list = <<>>
  /\ pc["main"] /= "top" => pc["accept"] /= "none" /\ pc["list"] /= "none"
  /\ pc["main"] \in AfterAccept => pc["accept"] = "ended"
  /\ pc["main"] \in AfterAccept \ {"joinList"} => pc["list"] = "ended"
  /\ \A m \in Managers \ Made : pc[m] \in {"none", "ended"}
  /\ pc["main"] \in {"wake", "joinManager"} =>
       m_list /= <<>> /\ local["main"].aim = Head(m_list)
  /\ pc["main"] \in {"joinAdmin", "ended"} => m_list = <<>>
  /\ pc["main"] = "ended" => pc["admin"] \in {"none", "ended"}

(* The places of each thread. *)
AcceptPlaces ==
  {"begin", "select", "servers", "search", "close", "recreate", "announce", "add", "connect",
   "notify", "ended"}
ListPlaces ==
  {"top", "kick", "news", "kicking", "forward", "counters", "clean", "entry", "deleted",
   "purge", "purging", "ended"}
AdminPlaces == {"drain", "serve", "request", "ended", "undefined"}
ManagerPlaces == {"select", "post", "ended", "undefined"}

(* Every thread is at places of its own. *)
Own ==
  /\ pc["accept"] \in AcceptPlaces \cup {"none"}
  /\ pc["list"] \in ListPlaces \cup {"none"}
  /\ pc["admin"] \in AdminPlaces \cup {"none"}
  /\ \A m \in Managers : pc[m] \in ManagerPlaces \cup {"none"}
  /\ pc["main"] \in {"top", "running", "joinAccept"} \cup AfterAccept

(* Before a stop nobody ends. *)
Alive ==
  ~finish["accept"] =>
    /\ pc["main"] \in {"top", "running"}
    /\ ~jqDestroyed
    /\ \A t \in Threads : ~finish[t] /\ pc[t] \notin {"ended", "undefined"}

(* What a thread posts to, or aims at, has been started. *)
Started ==
  /\ pc["accept"] \in {"none", "begin"} =>
       /\ jq = <<>> /\ m_list = <<>> /\ ~listed
       /\ pc["list"] \in {"none", "top", "clean", "purge", "ended"}
       /\ pc["admin"] = "none"
  /\ pc["accept"] \notin {"none", "begin"} /\ adminEnabled => pc["admin"] /= "none"
  /\ pc["accept"] = "announce" => adminEnabled
  /\ pc["list"] \in {"forward", "deleted"} => adminEnabled
  /\ \A m \in Made : pc[m] /= "none"
  /\ pc["accept"] \in {"close", "notify"} => local["accept"].aim \in Made
  /\ pc["list"] \in {"kicking", "purging"} => local["list"].aim \in Made

Inv == TypeOK /\ Walking /\ Order /\ Held /\ Chosen /\ Own /\ Alive /\ Started

LockType == [Locks -> [reading : SUBSET Threads, writing : SUBSET Threads]]
LocalType ==
  [Threads -> [aim : Managers \cup {"nobody"}, pcm : Managers \cup {"nobody"},
               left : Nat, due : 0..MaxTasks]]

(***************************************************************************)
(* The constants, the locks and the waits.                                 *)
(***************************************************************************)
LEMMA ThreadNames ==
  /\ {"accept", "list", "admin", "main"} \subseteq Threads
  /\ Managers \subseteq Threads
  /\ \A m \in Managers : m \notin {"accept", "list", "admin", "main", "nobody"}
  BY BindAssumption DEF Threads

(* What is assumed of the constants. *)
LEMMA Bounds ==
  /\ JqLimit \in Nat /\ AdminJqLimit \in Nat /\ PipeSize \in Nat /\ MaxAddresses \in Nat
  /\ MaxEntries \in Nat /\ MaxTasks \in Nat /\ MaxPosts \in Nat
  BY BindAssumption

(* The names of the places are places. *)
LEMMA PlaceNames ==
  /\ {"none", "begin", "top", "select", "connect", "drain", "serve",
      "running", "destroy", "ended", "undefined", "cleanList", "recreate", "add", "clean",
      "purge", "cleanPeerList", "servers", "counters", "entry", "search", "news", "kick"}
       \subseteq Places
  /\ {"announce", "forward", "deleted", "request", "post", "close", "notify", "kicking",
      "purging", "wake", "joinAccept", "joinList", "joinManager", "joinAdmin"}
       \subseteq Places
  BY DEF Places, WritesServers, WritesPeers, ReadsServers, ReadsPeers, PostsToAdmin,
     PostsToList, WritesPipe, Joins

(* Taking and giving a lock leaves locks. *)
LEMMA Locking ==
  ASSUME TypeOK, NEW t \in Threads, NEW l \in Locks
  PROVE  /\ Reading(t, l) \in LockType /\ Writing(t, l) \in LockType
         /\ Unlocked(t, l) \in LockType /\ BothUnlocked(t) \in LockType
  BY DEF TypeOK, LockType, Locks, Reading, Writing, Unlocked, BothUnlocked, Without

(* The sets of places are disjoint, as far as BlockedBy tells them apart. *)
LEMMA Apart ==
  ASSUME NEW p
  PROVE  /\ p \in PostsToAdmin \cup PostsToList \cup WritesPipe \cup Joins =>
              p \notin WritesServers \cup WritesPeers \cup ReadsServers \cup ReadsPeers
         /\ p \in PostsToList \cup WritesPipe \cup Joins => p \notin PostsToAdmin
         /\ p \in WritesPipe \cup Joins => p \notin PostsToList
         /\ p \in Joins => p \notin WritesPipe
  BY DEF WritesServers, WritesPeers, ReadsServers, ReadsPeers, PostsToAdmin,
     PostsToList, WritesPipe, Joins

(* What a place that is free means. *)
LEMMA Unblocked ==
  ASSUME TypeOK, NEW t \in Threads, BlockedBy(t) = {}
  PROVE  /\ pc[t] \in PostsToAdmin => admin_jq < AdminJqLimit
         /\ pc[t] \in PostsToList => Len(jq) < JqLimit
         /\ pc[t] \in WritesPipe => pipe[local[t].aim] < PipeSize
         /\ pc[t] \in Joins => pc[Joined(t)] \in {"none", "ended"}
<1>1. ASSUME pc[t] \in PostsToAdmin PROVE admin_jq < AdminJqLimit
  <2>1. BlockedBy(t) = IF admin_jq < AdminJqLimit THEN {} ELSE {"admin"}
    BY <1>1, Apart DEF BlockedBy
  <2> QED
    BY <2>1
<1>2. ASSUME pc[t] \in PostsToList PROVE Len(jq) < JqLimit
  <2>1. BlockedBy(t) = IF Full(jq) THEN {"list"} ELSE {}
    BY <1>2, Apart DEF BlockedBy
  <2>2. Len(jq) \in Nat
    BY DEF TypeOK
  <2>3. ~Full(jq)
    BY <2>1
  <2> QED
    BY <2>2, <2>3, Bounds DEF Full
<1>3. ASSUME pc[t] \in WritesPipe PROVE pipe[local[t].aim] < PipeSize
  <2>1. BlockedBy(t) = IF pipe[local[t].aim] < PipeSize THEN {} ELSE {local[t].aim}
    BY <1>3, Apart DEF BlockedBy
  <2> QED
    BY <2>1
<1>4. ASSUME pc[t] \in Joins PROVE pc[Joined(t)] \in {"none", "ended"}
  <2>1. BlockedBy(t) = IF pc[Joined(t)] \in {"none", "ended"} THEN {} ELSE {Joined(t)}
    BY <1>4, Apart DEF BlockedBy
  <2> QED
    BY <2>1
<1> QED
  BY <1>1, <1>2, <1>3, <1>4

(* A byte goes into a pipe that has room ... *)
LEMMA Writes ==
  ASSUME TypeOK, NEW t \in Threads, BlockedBy(t) = {}, pc[t] \in WritesPipe, WriteByte(t)
  PROVE  pipe' \in [Managers -> 0..PipeSize]
<1>1. local[t].aim \in Managers => pipe[local[t].aim] + 1 \in 0..PipeSize
<2>1. ASSUME local[t].aim \in Managers PROVE pipe[local[t].aim] + 1 \in 0..PipeSize
    <3>1. pipe[local[t].aim] \in 0..PipeSize
      BY <2>1 DEF TypeOK
    <3>2. pipe[local[t].aim] < PipeSize
      BY Unblocked
    <3> QED
      BY <3>1, <3>2, Bounds
  <2> QED
    BY <2>1
<1> QED
  BY <1>1 DEF TypeOK, WriteByte

(* ... and a message into a queue that has. *)
LEMMA AdminPosts ==
  ASSUME TypeOK, NEW t \in Threads, BlockedBy(t) = {}, pc[t] \in PostsToAdmin, PostToAdmin
  PROVE  admin_jq' \in 0..AdminJqLimit
<1>1. admin_jq < AdminJqLimit /\ admin_jq \in 0..AdminJqLimit
  BY Unblocked DEF TypeOK
<1> QED
  BY <1>1, Bounds DEF PostToAdmin

LEMMA Jumps ==
  ASSUME TypeOK, NEW t \in Threads, NEW place \in Places, GoesTo(t, place)
  PROVE  pc' \in [Threads -> Places]
  BY DEF TypeOK, GoesTo

(***************************************************************************)
(* The types: what the parts of the actions leave.                         *)
(***************************************************************************)
PcType == [Threads -> Places]

LEMMA Aims ==
  ASSUME TypeOK, NEW t \in Threads, NEW m \in Managers \cup {"nobody"}, Aim(t, m)
  PROVE  local' \in LocalType
  BY DEF TypeOK, LocalType, Aim

LEMMA Leaves ==
  ASSUME TypeOK, NEW t \in Threads, NEW n \in Nat, Leave(t, n)
  PROVE  local' \in LocalType
  BY DEF TypeOK, LocalType, Leave

LEMMA Rounds ==
  ASSUME TypeOK, NextRound
  PROVE  pc' \in PcType /\ finish' \in [Threads -> BOOLEAN]
<1>1. GoesTo("accept", "ended") \/ GoesTo("accept", "select")
  BY DEF NextRound
<1>2. pc' \in PcType
  BY <1>1, Jumps, ThreadNames, PlaceNames DEF PcType
<1>3. finish' = [finish EXCEPT !["admin"] = TRUE] \/ finish' = finish
  BY DEF NextRound
<1>4. finish \in [Threads -> BOOLEAN]
  BY DEF TypeOK
<1> QED
  BY <1>2, <1>3, <1>4

LEMMA Found ==
  ASSUME TypeOK, Choose
  PROVE  /\ pc' \in PcType /\ finish' \in [Threads -> BOOLEAN]
         /\ lock' \in LockType /\ local' \in LocalType
<1>1. CASE NextRound /\ lock' = BothUnlocked("accept")
           /\ local' = [local EXCEPT !["accept"].pcm = "nobody"]
  <2>1. lock' \in LockType
    BY <1>1, Locking, ThreadNames DEF Locks
  <2>2. local' \in LocalType
    BY <1>1, ThreadNames DEF TypeOK, LocalType
  <2> QED
    BY <1>1, <2>1, <2>2, Rounds
<1>2. CASE /\ lock' = Unlocked("accept", "peers")
           /\ GoesTo("accept", IF adminEnabled THEN "announce" ELSE "add")
           /\ UNCHANGED <<finish, local>>
  <2>1. lock' \in LockType
    BY <1>2, Locking, ThreadNames DEF Locks
  <2> QED
    BY <1>2, <2>1, ThreadNames, PlaceNames DEF TypeOK, PcType, LocalType, GoesTo
<1> QED
  BY <1>1, <1>2 DEF Choose

LEMMA Listing ==
  ASSUME TypeOK, NEW place \in Places, Lists(place)
  PROVE  pc' \in PcType /\ lock' \in LockType /\ listed' \in BOOLEAN
<1>1. lock' \in LockType
  BY Locking, ThreadNames DEF Lists, Locks
<1> QED
  BY <1>1, ThreadNames DEF TypeOK, PcType, Lists, GoesTo

(* Two or three fields of a record of local at once. *)
LocalRecord ==
  [aim : Managers \cup {"nobody"}, pcm : Managers \cup {"nobody"}, left : Nat,
   due : 0..MaxTasks]

(* An assignment to fields of local leaves records of them. *)
LEMMA Fields ==
  ASSUME local \in LocalType, NEW t \in Threads, NEW n \in Nat,
         NEW m \in Managers \cup {"nobody"}, NEW d \in 0..MaxTasks
  PROVE  /\ [local EXCEPT ![t].left = n, ![t].aim = m] \in LocalType
         /\ [local EXCEPT ![t].left = n, ![t].pcm = m] \in LocalType
         /\ [local EXCEPT ![t].aim = m, ![t].pcm = m] \in LocalType
         /\ [local EXCEPT ![t].left = n, ![t].aim = m, ![t].due = d] \in LocalType
<1>1. local \in [Threads -> LocalRecord] /\ local[t] \in LocalRecord
  BY DEF LocalType, LocalRecord
<1> DEFINE With(r) == [local EXCEPT ![t] = r]
<1>2. \A r \in LocalRecord : With(r) \in LocalType
  BY <1>1 DEF LocalType, LocalRecord
<1>3. /\ [local EXCEPT ![t].left = n, ![t].aim = m]
           = With([[local[t] EXCEPT !.left = n] EXCEPT !.aim = m])
      /\ [local EXCEPT ![t].left = n, ![t].pcm = m]
           = With([[local[t] EXCEPT !.left = n] EXCEPT !.pcm = m])
      /\ [local EXCEPT ![t].aim = m, ![t].pcm = m]
           = With([[local[t] EXCEPT !.aim = m] EXCEPT !.pcm = m])
      /\ [local EXCEPT ![t].left = n, ![t].aim = m, ![t].due = d]
           = With([[[local[t] EXCEPT !.left = n] EXCEPT !.aim = m] EXCEPT !.due = d])
  BY <1>1
<1>4. [local[t] EXCEPT !.left = n] \in LocalRecord /\ [local[t] EXCEPT !.aim = m] \in LocalRecord
  BY <1>1 DEF LocalRecord
<1>5. /\ [[local[t] EXCEPT !.left = n] EXCEPT !.aim = m] \in LocalRecord
      /\ [[local[t] EXCEPT !.left = n] EXCEPT !.pcm = m] \in LocalRecord
      /\ [[local[t] EXCEPT !.aim = m] EXCEPT !.pcm = m] \in LocalRecord
  BY <1>4 DEF LocalRecord
<1>6. [[[local[t] EXCEPT !.left = n] EXCEPT !.aim = m] EXCEPT !.due = d] \in LocalRecord
  BY <1>5 DEF LocalRecord
<1> HIDE DEF With
<1> QED
  BY <1>2, <1>3, <1>4, <1>5, <1>6

LEMMA NextTasks ==
  ASSUME TypeOK, NEW n \in Nat, NextTask(n)
  PROVE  pc' \in PcType
<1>1. GoesTo("list", "top") \/ GoesTo("list", "clean") \/ GoesTo("list", "purge")
  BY DEF NextTask
<1> QED
  BY <1>1, Jumps, ThreadNames, PlaceNames DEF PcType

LEMMA WalksOn ==
  ASSUME TypeOK, NEW n \in Nat, NEW place \in Places, NEW m \in Managers \cup {"nobody"},
         Walks(n, place, m)
  PROVE  pc' \in PcType /\ lock' \in LockType /\ local' \in LocalType
<1>1. lock' \in LockType
  BY Locking, ThreadNames DEF Walks, Locks
<1>2. local["list"].due \in 0..MaxTasks
  BY ThreadNames DEF TypeOK
<1>3. Larger(local["list"].due - 1, 0) \in 0..MaxTasks
  BY <1>2, Bounds DEF Larger
<1>4. pc' \in PcType
  <2>1. NextTask(local["list"].due) \/ GoesTo("list", place)
    BY DEF Walks
  <2>2. local["list"].due \in Nat
    BY <1>2, Bounds
  <2> QED
    BY <2>1, <2>2, NextTasks, Jumps, ThreadNames DEF PcType
<1>5. local' \in LocalType
  <2>1. local \in LocalType
    BY DEF TypeOK, LocalType
  <2>2. CASE n = 0
    <3> DEFINE next == Larger(local["list"].due - 1, 0)
    <3>1. local' = [local EXCEPT !["list"].left = 0, !["list"].aim = "nobody",
                                 !["list"].due = next]
      BY <2>2 DEF Walks
    <3>2. next \in 0..MaxTasks
      BY <1>3
    <3> HIDE DEF next
    <3> QED
      BY <2>1, <3>1, <3>2, Fields, ThreadNames
  <2>3. CASE n /= 0
    <3>1. local' = [local EXCEPT !["list"].left = n, !["list"].aim = m]
      BY <2>3 DEF Walks
    <3>2. 0 \in 0..MaxTasks
      BY Bounds
    <3> QED
      BY <2>1, <3>1, <3>2, Fields, ThreadNames
  <2> QED
    BY <2>2, <2>3
<1> QED
  BY <1>1, <1>4, <1>5

LEMMA Collecting ==
  ASSUME TypeOK, NEW m \in Managers, Collect(m)
  PROVE  pc' \in PcType /\ serving' \subseteq Managers
<1>1. pc' \in PcType
  BY ThreadNames, PlaceNames DEF TypeOK, PcType, Collect, GoesTo
<1>2. serving \subseteq Managers
  BY DEF TypeOK
<1> QED
  BY <1>1, <1>2 DEF Collect


LEMMA MadeIsManagers ==
  ASSUME TypeOK PROVE Made \subseteq Managers
  BY DEF Made, TypeOK

LEMMA AcceptTypes ==
  ASSUME TypeOK, Walking, Chosen, AcceptGoesOn
  PROVE  TypeOK'
<1>1. CASE Begin
  <2>1. pc' \in PcType
    <3>1. \/ GoesTo("accept", "select")
          \/ pc' = [pc EXCEPT !["accept"] = "select", !["admin"] = "drain"]
      BY <1>1 DEF Begin
    <3>2. [pc EXCEPT !["accept"] = "select", !["admin"] = "drain"] \in PcType
      <4>1. pc \in PcType
        BY DEF TypeOK, PcType
      <4>2. [pc EXCEPT !["accept"] = "select"] \in PcType
        BY <4>1, ThreadNames, PlaceNames DEF PcType
      <4> QED
        BY <4>2, ThreadNames, PlaceNames DEF PcType
    <3> QED
      BY <3>1, <3>2, Jumps, ThreadNames, PlaceNames DEF PcType
  <2>2. addresses' \in 0..MaxAddresses
    BY <1>1, Bounds DEF TypeOK, Begin
  <2> QED
    BY <1>1, <2>1, <2>2
    DEF TypeOK, PcType, LockType, LocalType, Begin, queues, managers, config
<1>2. CASE Timeout
  <2>1. pc' \in PcType /\ finish' \in [Threads -> BOOLEAN]
    BY <1>2, Rounds DEF Timeout
  <2>2. local' \in LocalType
    BY <1>2, Leaves, ThreadNames DEF Timeout
  <2> QED
    BY <1>2, <2>1, <2>2
    DEF TypeOK, PcType, LockType, LocalType, Timeout, queues, managers, config
<1>3. CASE LockServers
  <2>1. pc' \in PcType
    BY <1>3, Jumps, ThreadNames, PlaceNames DEF PcType, LockServers
  <2>2. lock' \in LockType
    BY <1>3, Locking, ThreadNames DEF Locks, LockServers
  <2> QED
    BY <1>3, <2>1, <2>2
    DEF TypeOK, PcType, LockType, LocalType, LockServers, queues, managers, config
<1>4. CASE Search
  <2>1. /\ pc' \in PcType /\ finish' \in [Threads -> BOOLEAN]
        /\ lock' \in LockType /\ local' \in LocalType
    <3>1. CASE \E m \in Made : Aim("accept", m) /\ lock' = Reading("accept", "peers")
               /\ GoesTo("accept", "close") /\ finish' = finish
      <4>1. PICK m \in Made : Aim("accept", m)
        BY <3>1
      <4>2. m \in Managers
        BY DEF Made, TypeOK
      <4>3. local' \in LocalType
        BY <4>1, <4>2, Aims, ThreadNames
      <4>4. lock' \in LockType
        BY <3>1, Locking, ThreadNames DEF Locks
      <4> QED
        BY <3>1, <4>3, <4>4, Jumps, ThreadNames, PlaceNames DEF PcType, TypeOK
    <3>2. CASE GoesTo("accept", "recreate") /\ UNCHANGED <<lock, local, finish>>
      BY <3>2, Jumps, ThreadNames, PlaceNames DEF PcType, TypeOK, LockType, LocalType
    <3> QED
      BY <1>4, <3>1, <3>2, Found DEF Search
  <2> QED
    BY <1>4, <2>1
    DEF TypeOK, PcType, LockType, LocalType, Search, queues, managers, config
<1>5. CASE CloseOld
  <2>1. pc' \in PcType
    BY <1>5, Jumps, ThreadNames, PlaceNames DEF PcType, CloseOld
  <2>2. lock' \in LockType
    <3>1. lock' = lock \/ lock' = BothUnlocked("accept")
      BY <1>5 DEF CloseOld
    <3>2. lock \in LockType
      BY DEF TypeOK, LockType
    <3> QED
      BY <3>1, <3>2, Locking, ThreadNames DEF Locks
  <2>3. pipe' \in [Managers -> 0..PipeSize]
    BY <1>5, Writes, ThreadNames DEF WritesPipe, Passes, CloseOld
  <2> QED
    BY <1>5, <2>1, <2>2, <2>3
    DEF TypeOK, PcType, LockType, LocalType, CloseOld, queues, managers, config
<1>6. CASE Recreate
  <2>1. /\ pc' \in PcType /\ finish' \in [Threads -> BOOLEAN]
        /\ lock' \in LockType /\ local' \in LocalType /\ listed' \in BOOLEAN
    BY <1>6, Listing, Found, PlaceNames DEF TypeOK, LocalType, Recreate, managers
  <2> QED
    BY <1>6, <2>1
    DEF TypeOK, PcType, LockType, LocalType, Recreate, queues, managers, config, Lists
<1>7. CASE Announce
  <2>1. pc' \in PcType
    BY <1>7, Jumps, ThreadNames, PlaceNames DEF PcType, Announce
  <2>2. lock' \in LockType
    <3>1. lock' = lock \/ lock' = BothUnlocked("accept")
      BY <1>7 DEF Announce
    <3>2. lock \in LockType
      BY DEF TypeOK, LockType
    <3> QED
      BY <3>1, <3>2, Locking, ThreadNames DEF Locks
  <2>3. admin_jq' \in 0..AdminJqLimit
    BY <1>7, AdminPosts, ThreadNames DEF PostsToAdmin, Passes, Announce
  <2> QED
    BY <1>7, <2>1, <2>2, <2>3
    DEF TypeOK, PcType, LockType, LocalType, Announce, queues, managers, config, PostToAdmin
<1>8. CASE Add
  <2>1. pc' \in PcType /\ lock' \in LockType /\ listed' \in BOOLEAN
    BY <1>8, Listing, PlaceNames DEF Add
  <2> QED
    BY <1>8, <2>1
    DEF TypeOK, PcType, LockType, LocalType, Add, queues, managers, config, Lists
<1>9. CASE Connect
  <2>1. pc' \in PcType
    BY <1>9, Jumps, ThreadNames, PlaceNames DEF PcType, Connect
  <2>2. local' \in LocalType
    <3>1. local["accept"].pcm \in Managers \cup {"nobody"}
      BY ThreadNames DEF TypeOK
    <3> QED
      BY <1>9, <3>1, Aims, ThreadNames DEF Connect
  <2>3. serving' \subseteq Managers
    <3>1. local["accept"].pcm \in Managers
      BY <1>9, MadeIsManagers DEF Connect, Chosen, Serving
    <3>2. serving \subseteq Managers
      BY DEF TypeOK
    <3> QED
      BY <1>9, <3>1, <3>2 DEF Connect
  <2> QED
    BY <1>9, <2>1, <2>2, <2>3
    DEF TypeOK, PcType, LockType, LocalType, Connect, queues, managers, config
<1>10. CASE Notify
  <2>1. pc' \in PcType /\ finish' \in [Threads -> BOOLEAN]
    BY <1>10, Rounds DEF Notify
  <2>2. pipe' \in [Managers -> 0..PipeSize]
    BY <1>10, Writes, ThreadNames DEF WritesPipe, Passes, Notify
  <2>3. local' \in LocalType
    <3>1. local' = [local EXCEPT !["accept"].aim = "nobody", !["accept"].pcm = "nobody"]
      BY <1>10 DEF Notify
    <3>2. 0 \in 0..MaxTasks /\ local \in LocalType
      BY Bounds DEF TypeOK, LocalType
    <3> QED
      BY <3>1, <3>2, Fields, ThreadNames
  <2> QED
    BY <1>10, <2>1, <2>2, <2>3
    DEF TypeOK, PcType, LockType, LocalType, Notify, queues, managers, config
<1> QED
  BY <1>1, <1>2, <1>3, <1>4, <1>5, <1>6, <1>7, <1>8, <1>9, <1>10 DEF AcceptGoesOn


LEMMA AcceptsTypes ==
  ASSUME TypeOK, Accept
  PROVE  TypeOK'
<1>1. PICK ready \in Nat \ {0}, pcm \in Managers :
        /\ getFreeThreadedConnectionManager(pcm)
        /\ local' = [local EXCEPT !["accept"].left = ready - 1, !["accept"].pcm = pcm]
  <2>1. \A ready \in IF local["accept"].left > 0 THEN {local["accept"].left} ELSE 1..addresses :
          ready \in Nat \ {0}
    BY ThreadNames, Bounds DEF TypeOK
  <2> QED
    BY <2>1 DEF Accept
<1>2. pc' \in PcType
  <2>1. pc \in PcType
    BY DEF TypeOK, PcType
  <2>2. \/ GoesTo("accept", "servers")
        \/ pc' = [[pc EXCEPT !["accept"] = "servers"] EXCEPT ![pcm] = "select"]
    BY <1>1 DEF getFreeThreadedConnectionManager
  <2>3. [pc EXCEPT !["accept"] = "servers"] \in PcType
    BY <2>1, ThreadNames, PlaceNames DEF PcType
  <2> QED
    BY <2>2, <2>3, ThreadNames, PlaceNames DEF PcType, GoesTo
<1>3. m_list' \in Seq(Managers)
  <2>1. m_list' = m_list \/ m_list' = Append(m_list, pcm)
    BY <1>1 DEF getFreeThreadedConnectionManager
  <2>2. m_list \in Seq(Managers)
    BY DEF TypeOK
  <2> QED
    BY <2>1, <2>2, AppendProperties
<1>4. local' \in LocalType
  <2>1. 0 \in 0..MaxTasks /\ local \in LocalType /\ ready - 1 \in Nat
    BY Bounds DEF TypeOK, LocalType
  <2> QED
    BY <1>1, <2>1, Fields, ThreadNames
<1> QED
  BY <1>2, <1>3, <1>4 DEF TypeOK, Accept, PcType, LocalType, queues, config

LEMMA ListTypes ==
  ASSUME TypeOK, Walking, ListGoesOn \/ TasksAreDue
  PROVE  TypeOK'
<1>1. CASE ListEnd
  <2>1. pc' \in PcType
    BY <1>1, Jumps, ThreadNames, PlaceNames DEF PcType, ListEnd
  <2> QED
    BY <1>1, <2>1 DEF TypeOK, PcType, ListEnd, queues, managers, config
<1>2. CASE TakeMessage
  <2>1. Head(jq) \in {"kick", "news"} /\ Tail(jq) \in Seq({"kick", "news"})
        /\ Len(Tail(jq)) <= JqLimit
    BY <1>2, HeadTailProperties, Bounds DEF TypeOK, TakeMessage
  <2>2. pc' \in PcType
    BY <1>2, <2>1, Jumps, ThreadNames, PlaceNames DEF PcType, TakeMessage
  <2> QED
    BY <1>2, <2>1, <2>2 DEF TypeOK, PcType, TakeMessage, managers, config
<1>3. CASE TasksAreDue
  <2>1. PICK n \in 1..MaxTasks : NextTask(n) /\ local' = [local EXCEPT !["list"].due = n - 1]
    BY <1>3 DEF TasksAreDue
  <2>2. n \in Nat /\ n - 1 \in 0..MaxTasks
    BY Bounds
  <2>3. pc' \in PcType
    BY <2>1, <2>2, NextTasks
  <2>4. local' \in LocalType
    BY <2>1, <2>2, ThreadNames DEF TypeOK, LocalType
  <2> QED
    BY <1>3, <2>3, <2>4 DEF TypeOK, PcType, LocalType, TasksAreDue, queues, managers, config
<1>4. CASE Message
  <2>1. pc' \in PcType
    <3>1. \/ GoesTo("list", "top") \/ GoesTo("list", "kicking")
          \/ GoesTo("list", "forward") \/ GoesTo("list", "counters")
      BY <1>4 DEF Message
    <3> QED
      BY <3>1, Jumps, ThreadNames, PlaceNames DEF PcType
  <2>2. lock' \in LockType
    <3>1. lock' = lock \/ lock' = Reading("list", "peers")
      BY <1>4 DEF Message
    <3>2. lock \in LockType
      BY DEF TypeOK, LockType
    <3> QED
      BY <3>1, <3>2, Locking, ThreadNames DEF Locks
  <2>3. local' \in LocalType
    <3>1. local' = local \/ \E m \in Managers : Aim("list", m)
      BY <1>4, MadeIsManagers DEF Message
    <3> QED
      BY <3>1, Aims, ThreadNames DEF TypeOK, LocalType
  <2> QED
    BY <1>4, <2>1, <2>2, <2>3 DEF TypeOK, PcType, LockType, LocalType, Message,
       queues, managers, config
<1>5. CASE Kick
  <2>1. pipe' \in [Managers -> 0..PipeSize]
    BY <1>5, Writes, ThreadNames DEF WritesPipe, Passes, Kick
  <2>2. pc' \in PcType
    BY <1>5, Jumps, ThreadNames, PlaceNames DEF PcType, Kick
  <2>3. lock' \in LockType
    BY <1>5, Locking, ThreadNames DEF Locks, Kick
  <2>4. local' \in LocalType
    BY <1>5, Aims, ThreadNames DEF Kick
  <2> QED
    BY <1>5, <2>1, <2>2, <2>3, <2>4 DEF TypeOK, PcType, LockType, LocalType, Kick,
       queues, managers, config
<1>6. CASE Forward
  <2>1. admin_jq' \in 0..AdminJqLimit
    BY <1>6, AdminPosts, ThreadNames DEF PostsToAdmin, Passes, Forward
  <2>2. pc' \in PcType
    BY <1>6, Jumps, ThreadNames, PlaceNames DEF PcType, Forward
  <2>3. lock' \in LockType
    <3>1. lock' = lock \/ lock' = Unlocked("list", "peers")
      BY <1>6 DEF Forward
    <3>2. lock \in LockType
      BY DEF TypeOK, LockType
    <3> QED
      BY <3>1, <3>2, Locking, ThreadNames DEF Locks
  <2> QED
    BY <1>6, <2>1, <2>2, <2>3 DEF TypeOK, PcType, LockType, Forward, PostToAdmin,
       managers, config
<1>7. CASE Counters
  <2>1. pc' \in PcType
    BY <1>7, Jumps, ThreadNames, PlaceNames DEF PcType, Counters
  <2>2. lock' \in LockType
    BY <1>7, Locking, ThreadNames DEF Locks, Counters
  <2> QED
    BY <1>7, <2>1, <2>2 DEF TypeOK, PcType, LockType, Counters, queues, managers, config
<1>8. CASE CleanConnections
  <2>1. PICK n \in Entries : Walks(n, "entry", "nobody")
    BY <1>8 DEF CleanConnections
  <2>2. n \in Nat
    BY Bounds DEF Entries
  <2>3. pc' \in PcType /\ lock' \in LockType /\ local' \in LocalType
    BY <2>1, <2>2, WalksOn, PlaceNames
  <2> QED
    BY <1>8, <2>3 DEF TypeOK, PcType, LockType, LocalType, CleanConnections,
       queues, managers, config
<1>9. CASE CleanEntry
  <2>1. CASE adminEnabled
    <3>1. pc' \in PcType
      BY <1>9, <2>1, Jumps, ThreadNames, PlaceNames DEF PcType, CleanEntry
    <3> QED
      BY <1>9, <2>1, <3>1 DEF TypeOK, PcType, CleanEntry, queues, managers, config
  <2>2. CASE ~adminEnabled
    <3>1. local["list"].left - 1 \in Nat
      BY <1>9, ThreadNames DEF TypeOK, Walking, CleanEntry, Passes
    <3>2. pc' \in PcType /\ lock' \in LockType /\ local' \in LocalType
      BY <1>9, <2>2, <3>1, WalksOn, PlaceNames DEF CleanEntry
    <3> QED
      BY <1>9, <3>2 DEF TypeOK, PcType, LockType, LocalType, CleanEntry,
         queues, managers, config
  <2> QED
    BY <2>1, <2>2
<1>10. CASE CleanDeleted
  <2>1. admin_jq' \in 0..AdminJqLimit
    BY <1>10, AdminPosts, ThreadNames DEF PostsToAdmin, Passes, CleanDeleted
  <2>2. local["list"].left - 1 \in Nat
    BY <1>10, ThreadNames DEF TypeOK, Walking, CleanDeleted, Passes
  <2>3. pc' \in PcType /\ lock' \in LockType /\ local' \in LocalType
    BY <1>10, <2>2, WalksOn, PlaceNames DEF CleanDeleted
  <2> QED
    BY <1>10, <2>1, <2>3 DEF TypeOK, PcType, LockType, LocalType, CleanDeleted,
       PostToAdmin, managers, config
<1>11. CASE PurgeConnections
  <2>1. PICK n \in Entries, m \in Made \cup {"nobody"} : Walks(n, "purging", m)
    BY <1>11 DEF PurgeConnections
  <2>2. n \in Nat /\ m \in Managers \cup {"nobody"}
    BY Bounds, MadeIsManagers DEF Entries
  <2>3. pc' \in PcType /\ lock' \in LockType /\ local' \in LocalType
    BY <2>1, <2>2, WalksOn, PlaceNames
  <2> QED
    BY <1>11, <2>3 DEF TypeOK, PcType, LockType, LocalType, PurgeConnections,
       queues, managers, config
<1>12. CASE PurgeEntry
  <2>1. pipe' \in [Managers -> 0..PipeSize]
    BY <1>12, Writes, ThreadNames DEF WritesPipe, Passes, PurgeEntry
  <2>2. PICK m \in Managers : Walks(local["list"].left - 1, "purging", m)
    BY <1>12, MadeIsManagers DEF PurgeEntry
  <2>3. local["list"].left - 1 \in Nat
    BY <1>12, ThreadNames DEF TypeOK, Walking, PurgeEntry, Passes
  <2>4. pc' \in PcType /\ lock' \in LockType /\ local' \in LocalType
    BY <2>2, <2>3, WalksOn, PlaceNames
  <2> QED
    BY <1>12, <2>1, <2>4 DEF TypeOK, PcType, LockType, LocalType, PurgeEntry,
       queues, managers, config
<1> QED
  BY <1>1, <1>2, <1>3, <1>4, <1>5, <1>6, <1>7, <1>8, <1>9, <1>10, <1>11, <1>12
  DEF ListGoesOn


LEMMA ListPosts ==
  ASSUME TypeOK, NEW t \in Threads, BlockedBy(t) = {}, pc[t] \in PostsToList,
         NEW msg \in {"kick", "news"}
  PROVE  Append(jq, msg) \in Seq({"kick", "news"}) /\ Len(Append(jq, msg)) <= JqLimit
<1>1. Len(jq) < JqLimit /\ jq \in Seq({"kick", "news"})
  BY Unblocked DEF TypeOK
<1> QED
  BY <1>1, AppendProperties, Bounds

LEMMA AdminTypes ==
  ASSUME TypeOK, AdminMessage \/ Serve \/ AskRequest \/ Request
  PROVE  TypeOK'
<1>1. CASE AdminMessage
  <2>1. pc' = pc \/ GoesTo("admin", "serve")
    BY <1>1 DEF AdminMessage
  <2>2. pc' \in PcType
    BY <2>1, Jumps, ThreadNames, PlaceNames DEF TypeOK, PcType
  <2>3. admin_jq' \in 0..AdminJqLimit
    BY <1>1, Bounds DEF TypeOK, AdminMessage
  <2> QED
    BY <1>1, <2>2, <2>3 DEF TypeOK, PcType, AdminMessage, managers, config
<1>2. CASE Serve \/ AskRequest
  <2>1. GoesTo("admin", "ended") \/ GoesTo("admin", "drain") \/ GoesTo("admin", "request")
    BY <1>2 DEF Serve, AskRequest
  <2>2. pc' \in PcType
    BY <2>1, Jumps, ThreadNames, PlaceNames DEF PcType
  <2> QED
    BY <1>2, <2>2 DEF TypeOK, PcType, Serve, AskRequest, queues, managers, config
<1>3. CASE Request
  <2>1. pc' \in PcType
    BY <1>3, Jumps, ThreadNames, PlaceNames DEF PcType, Request
  <2>2. jq' \in Seq({"kick", "news"}) /\ Len(jq') <= JqLimit
    BY <1>3, ListPosts, ThreadNames DEF Request, Passes, PostsToList
  <2> QED
    BY <1>3, <2>1, <2>2 DEF TypeOK, PcType, Request, managers, config
<1> QED
  BY <1>1, <1>2, <1>3

LEMMA ManagerTypes ==
  ASSUME TypeOK, Walking, NEW m \in Managers, Round(m) \/ Post(m)
  PROVE  TypeOK'
<1>1. CASE Round(m)
  <2>1. pipe' \in [Managers -> 0..PipeSize]
    <3>1. pipe[m] \in 0..PipeSize
      BY DEF TypeOK
    <3>2. Larger(pipe[m] - 1, 0) \in 0..PipeSize
      BY <3>1, Bounds DEF Larger
    <3> QED
      BY <1>1, <3>2 DEF TypeOK, Round
  <2>2. CASE Collect(m) /\ local' = local
    <3>1. pc' \in PcType /\ serving' \subseteq Managers
      BY <2>2, Collecting
    <3> QED
      BY <1>1, <2>1, <2>2, <3>1 DEF TypeOK, PcType, Round, Collect, queues, config
  <2>3. CASE /\ \E n \in 1..MaxPosts : Leave(m, n)
             /\ GoesTo(m, "post")
             /\ UNCHANGED managers
    <3>1. local' \in LocalType
      BY <2>3, Leaves, ThreadNames, Bounds
    <3>2. pc' \in PcType
      BY <2>3, Jumps, ThreadNames, PlaceNames DEF PcType
    <3> QED
      BY <1>1, <2>1, <2>3, <3>1, <3>2 DEF TypeOK, PcType, LocalType, Round,
         queues, managers, config
  <2> QED
    BY <1>1, <2>2, <2>3 DEF Round
<1>2. CASE Post(m)
  <2>1. jq' \in Seq({"kick", "news"}) /\ Len(jq') <= JqLimit
    BY <1>2, ListPosts, ThreadNames DEF Post, Passes, PostsToList
  <2>2. local' \in LocalType
    <3>1. local[m].left - 1 \in Nat
      <4>1. local[m].left \in Nat
        BY ThreadNames DEF TypeOK
      <4>2. local[m].left >= 1
        BY <1>2 DEF Walking, Post, Passes
      <4> QED
        BY <4>1, <4>2
    <3> QED
      BY <1>2, <3>1, Leaves, ThreadNames DEF Post
  <2>3. CASE Collect(m)
    <3>1. pc' \in PcType /\ serving' \subseteq Managers
      BY <2>3, Collecting
    <3> QED
      BY <1>2, <2>1, <2>2, <2>3, <3>1 DEF TypeOK, PcType, LocalType, Post, Collect, config
  <2>4. CASE UNCHANGED <<pc, managers>>
    BY <1>2, <2>1, <2>2, <2>4 DEF TypeOK, LocalType, Post, managers, config
  <2> QED
    BY <1>2, <2>3, <2>4 DEF Post
<1> QED
  BY <1>1, <1>2

LEMMA DestroyedTypes ==
  ASSUME TypeOK, NEW t \in Managers \cup {"admin"}, PostToDestroyed(t)
  PROVE  TypeOK'
<1>1. local' \in LocalType
  BY Leaves, ThreadNames DEF PostToDestroyed
<1>2. CASE (GoesTo(t, "undefined") \/ GoesTo(t, "serve")) /\ UNCHANGED managers
  <2>1. pc' \in PcType
    BY <1>2, Jumps, ThreadNames, PlaceNames DEF PcType
  <2> QED
    BY <1>1, <1>2, <2>1 DEF TypeOK, PcType, LocalType, PostToDestroyed, queues, managers, config
<1>3. CASE t \in Managers /\ Collect(t)
  <2>1. pc' \in PcType /\ serving' \subseteq Managers
    BY <1>3, Collecting
  <2> QED
    BY <1>1, <1>3, <2>1 DEF TypeOK, PcType, LocalType, PostToDestroyed, Collect,
       queues, config
<1> QED
  BY <1>2, <1>3 DEF PostToDestroyed

LEMMA MainTypes ==
  ASSUME TypeOK, MainGoesOn \/ Starts \/ Stop,
         pc["main"] = "joinManager" => m_list /= <<>>
  PROVE  TypeOK'
<1>1. CASE Starts
  <2>1. PICK enabled \in BOOLEAN, count \in 1..MaxAddresses : StartListening(enabled, count)
    BY <1>1 DEF Starts
  <2>2. pc' \in PcType
    <3>1. pc \in PcType
      BY DEF TypeOK, PcType
    <3>2. [pc EXCEPT !["main"] = "running"] \in PcType
      BY <3>1, ThreadNames, PlaceNames DEF PcType
    <3>3. [[pc EXCEPT !["main"] = "running"] EXCEPT !["accept"] = "begin"] \in PcType
      BY <3>2, ThreadNames, PlaceNames DEF PcType
    <3>4. pc' = [[[pc EXCEPT !["main"] = "running"] EXCEPT !["accept"] = "begin"]
                   EXCEPT !["list"] = "top"]
      BY <2>1 DEF StartListening
    <3> QED
      BY <3>3, <3>4, ThreadNames, PlaceNames DEF PcType
  <2>3. count \in 0..MaxAddresses
    BY Bounds
  <2> QED
    BY <2>1, <2>2, <2>3 DEF TypeOK, PcType, StartListening, queues, managers
<1>2. CASE Stop \/ DestroyServerList \/ DestroyManager \/ DestroyAdmin
  <2>1. pc' \in PcType
    <3>1. \/ GoesTo("main", "joinAccept") \/ GoesTo("main", "joinList")
          \/ GoesTo("main", "wake") \/ GoesTo("main", "joinAdmin")
      BY <1>2 DEF Stop, DestroyServerList, DestroyManager, DestroyAdmin
    <3> QED
      BY <3>1, Jumps, ThreadNames, PlaceNames DEF PcType
  <2>2. finish' \in [Threads -> BOOLEAN]
    <3>1. PICK t : finish' = [finish EXCEPT ![t] = TRUE]
      BY <1>2 DEF Stop, DestroyServerList, DestroyManager, DestroyAdmin
    <3> QED
      BY <3>1 DEF TypeOK
  <2>3. local' \in LocalType
    <3>1. CASE DestroyManager
      <4>1. Head(m_list) \in Managers
        BY <3>1, HeadTailProperties DEF TypeOK, DestroyManager
      <4> QED
        BY <3>1, <4>1, Aims, ThreadNames DEF DestroyManager
    <3>2. CASE local' = local
      BY <3>2 DEF TypeOK, LocalType
    <3> QED
      BY <1>2, <3>1, <3>2 DEF Stop, DestroyServerList, DestroyAdmin
  <2> QED
    BY <1>2, <2>1, <2>2, <2>3 DEF TypeOK, PcType, LocalType, Stop, DestroyServerList,
       DestroyManager, DestroyAdmin, queues, managers, config
<1>3. CASE CleanLists
  <2>1. GoesTo("main", "cleanList") \/ GoesTo("main", "cleanPeerList") \/ GoesTo("main", "destroy")
    BY <1>3 DEF CleanLists
  <2>2. pc' \in PcType
    BY <2>1, Jumps, ThreadNames, PlaceNames DEF PcType
  <2> QED
    BY <1>3, <2>2 DEF TypeOK, PcType, CleanLists, queues, managers, config
<1>4. CASE DestroyJq
  <2>1. <<>> \in Seq({"kick", "news"}) /\ Len(<<>>) <= JqLimit
    BY Bounds, EmptySeq
  <2> QED
    BY <1>4, <2>1 DEF TypeOK, DestroyJq, managers, config
<1>5. CASE Wake
  <2>1. pipe' \in [Managers -> 0..PipeSize]
    BY <1>5, Writes, ThreadNames DEF WritesPipe, Passes, Wake
  <2>2. pc' \in PcType
    BY <1>5, Jumps, ThreadNames, PlaceNames DEF PcType, Wake
  <2> QED
    BY <1>5, <2>1, <2>2 DEF TypeOK, PcType, Wake, queues, managers, config
<1>6. CASE ManagerEnded /\ m_list /= <<>>
  <2>1. Tail(m_list) \in Seq(Managers)
    BY <1>6, HeadTailProperties DEF TypeOK
  <2>2. pc' \in PcType
    BY <1>6, Jumps, ThreadNames, PlaceNames DEF PcType, ManagerEnded
  <2>3. local' \in LocalType
    BY <1>6, Aims, ThreadNames DEF ManagerEnded
  <2>4. 0 \in Nat /\ 0 \in 0..PipeSize
    BY Bounds
  <2> QED
    BY <1>6, <2>1, <2>2, <2>3, <2>4 DEF TypeOK, PcType, LocalType, ManagerEnded, queues, config
<1>7. CASE AdminEnded
  <2>1. pc' \in PcType
    BY <1>7, Jumps, ThreadNames, PlaceNames DEF PcType, AdminEnded
  <2> QED
    BY <1>7, <2>1, Bounds DEF TypeOK, PcType, AdminEnded, managers, config
<1> QED
  BY <1>1, <1>2, <1>3, <1>4, <1>5, <1>6, <1>7 DEF MainGoesOn, ManagerEnded, Passes


(***************************************************************************)
(* What a thread leaves alone.                                             *)
(***************************************************************************)
LEMMA Elsewhere ==
  ASSUME TypeOK, NEW t \in Threads, NEW place, GoesTo(t, place)
  PROVE  pc'[t] = place /\ \A u \in Threads \ {t} : pc'[u] = pc[u]
  BY DEF TypeOK, GoesTo

(* A step of a thread leaves alone what is not its own. *)
LEMMA AcceptFrame ==
  ASSUME TypeOK, AcceptGoesOn
  PROVE  /\ pc["accept"] \notin {"none", "ended"} /\ pc'["accept"] \in AcceptPlaces
         /\ \A t \in Threads \ {"accept", "admin"} : pc'[t] = pc[t]
         /\ \A t \in Threads \ {"accept"} : local'[t] = local[t]
         /\ UNCHANGED m_list
<1>1. CASE Begin
  <2>1. GoesTo("accept", "select") \/ pc' = [pc EXCEPT !["accept"] = "select", !["admin"] = "drain"]
    BY <1>1 DEF Begin
  <2> QED
    BY <1>1, <2>1, ThreadNames DEF TypeOK, Begin, GoesTo, managers, config, AcceptPlaces
<1>2. ASSUME NEW place \in AcceptPlaces, GoesTo("accept", place),
             pc["accept"] \notin {"none", "ended"}
      PROVE  /\ pc["accept"] \notin {"none", "ended"} /\ pc'["accept"] \in AcceptPlaces
             /\ \A t \in Threads \ {"accept", "admin"} : pc'[t] = pc[t]
  BY <1>2, Elsewhere, ThreadNames
<1>3. CASE Timeout \/ Notify
  <2>1. \E place \in AcceptPlaces : GoesTo("accept", place)
    BY <1>3 DEF Timeout, Notify, NextRound, AcceptPlaces
  <2>2. \A t \in Threads \ {"accept"} : local'[t] = local[t]
    BY <1>3, ThreadNames DEF TypeOK, Timeout, Notify, Leave
  <2>3. pc["accept"] \notin {"none", "ended"}
    BY <1>3 DEF Timeout, Notify, Passes
  <2> QED
    BY <1>2, <1>3, <2>1, <2>2, <2>3 DEF Timeout, Notify, managers, config
<1>4. CASE LockServers \/ Add \/ Announce \/ CloseOld
  <2>1. \E place \in AcceptPlaces : GoesTo("accept", place)
    BY <1>4 DEF LockServers, Add, Announce, CloseOld, Lists, AcceptPlaces
  <2>2. pc["accept"] \notin {"none", "ended"}
    BY <1>4 DEF LockServers, Add, Announce, CloseOld, Passes
  <2> QED
    BY <1>2, <1>4, <2>1, <2>2 DEF LockServers, Add, Announce, CloseOld, Lists, managers, config
<1>5. CASE Connect
  <2>1. GoesTo("accept", "notify")
    BY <1>5 DEF Connect
  <2>2. \A t \in Threads \ {"accept"} : local'[t] = local[t]
    BY <1>5, ThreadNames DEF TypeOK, Connect, Aim
  <2> QED
    BY <1>2, <1>5, <2>1, <2>2 DEF Connect, config, AcceptPlaces
<1>6. CASE Search \/ Recreate
  <2>1. \E place \in AcceptPlaces : GoesTo("accept", place)
    <3>1. CASE Choose
      BY <3>1 DEF Choose, NextRound, AcceptPlaces
    <3>2. CASE GoesTo("accept", "close") \/ GoesTo("accept", "recreate")
      BY <3>2 DEF AcceptPlaces
    <3>3. CASE Lists(IF adminEnabled THEN "announce" ELSE "connect")
      BY <3>3 DEF Lists, AcceptPlaces
    <3> QED
      BY <1>6, <3>1, <3>2, <3>3 DEF Search, Recreate
  <2>2. \A t \in Threads \ {"accept"} : local'[t] = local[t]
    <3>1. \/ local' = local \/ local' = [local EXCEPT !["accept"].pcm = "nobody"]
          \/ \E m : Aim("accept", m)
      BY <1>6 DEF Search, Recreate, Choose
    <3> QED
      BY <3>1, ThreadNames DEF TypeOK, Aim
  <2>3. pc["accept"] \notin {"none", "ended"}
    BY <1>6 DEF Search, Recreate, Passes
  <2>4. UNCHANGED m_list
    BY <1>6 DEF Search, Recreate, Lists, managers, config
  <2> QED
    BY <1>2, <2>1, <2>2, <2>3, <2>4
<1> QED
  BY <1>1, <1>3, <1>4, <1>5, <1>6 DEF AcceptGoesOn

(* The admin is started by accept, and moved by nobody else. *)
LEMMA BeginsAdmin ==
  ASSUME TypeOK, AcceptGoesOn
  PROVE  pc'["admin"] \in {pc["admin"], "drain"}
<1>1. CASE Begin
  <2>1. GoesTo("accept", "select") \/ pc' = [pc EXCEPT !["accept"] = "select", !["admin"] = "drain"]
    BY <1>1 DEF Begin
  <2> QED
    BY <2>1, ThreadNames DEF TypeOK, GoesTo
<1>2. CASE \E place : GoesTo("accept", place)
  BY <1>2, Elsewhere, ThreadNames
<1> QED
  BY <1>1, <1>2 DEF AcceptGoesOn, Timeout, LockServers, Search, CloseOld, Recreate, Announce,
     Add, Connect, Notify, NextRound, Choose, Lists

LEMMA ListFrame ==
  ASSUME TypeOK, ListGoesOn \/ TasksAreDue
  PROVE  /\ pc["list"] \notin {"none", "ended"} /\ pc'["list"] \in ListPlaces
         /\ \A t \in Threads \ {"list"} : pc'[t] = pc[t]
         /\ \A t \in Threads \ {"list"} : local'[t] = local[t]
         /\ UNCHANGED <<managers, config, finish>>
<1>1. pc["list"] \notin {"none", "ended"}
  BY DEF ListGoesOn, TasksAreDue, ListEnd, TakeMessage, Message, Kick, Forward, Counters,
     CleanConnections, CleanEntry, CleanDeleted, PurgeConnections, PurgeEntry, Passes
<1>2. UNCHANGED <<managers, config, finish>>
  BY DEF ListGoesOn, TasksAreDue, ListEnd, TakeMessage, Message, Kick, Forward, Counters,
     CleanConnections, CleanEntry, CleanDeleted, PurgeConnections, PurgeEntry, managers, config
<1>3. \/ \E place \in ListPlaces : GoesTo("list", place)
      \/ \E n : NextTask(n)
      \/ \E n, m : \E place \in {"entry", "purging"} : Walks(n, place, m)
      \/ TakeMessage
  BY DEF ListGoesOn, TasksAreDue, ListEnd, Message, Kick, Forward, Counters,
     CleanConnections, CleanEntry, CleanDeleted, PurgeConnections, PurgeEntry, ListPlaces
<1>4. \E place \in ListPlaces : GoesTo("list", place)
  <2>1. ASSUME NEW n, NextTask(n) PROVE \E place \in ListPlaces : GoesTo("list", place)
    BY <2>1 DEF NextTask, ListPlaces
  <2>2. ASSUME NEW n, NEW m, NEW place \in {"entry", "purging"}, Walks(n, place, m)
        PROVE  \E p \in ListPlaces : GoesTo("list", p)
    BY <2>1, <2>2 DEF Walks, ListPlaces
  <2>3. CASE TakeMessage
    <3>1. Head(jq) \in {"kick", "news"}
      BY <2>3, HeadTailProperties DEF TypeOK, TakeMessage
    <3> QED
      BY <2>3, <3>1 DEF TakeMessage, ListPlaces
  <2> QED
    BY <1>3, <2>1, <2>2, <2>3
<1>5. \A t \in Threads \ {"list"} : local'[t] = local[t]
  <2>1. CASE local' = local
    BY <2>1
  <2>2. CASE TasksAreDue
    BY <2>2 DEF TypeOK, TasksAreDue
  <2>3. ASSUME NEW m, Aim("list", m) PROVE \A t \in Threads \ {"list"} : local'[t] = local[t]
    BY <2>3 DEF TypeOK, Aim
  <2>4. ASSUME NEW n, NEW m, NEW place, Walks(n, place, m)
        PROVE  \A t \in Threads \ {"list"} : local'[t] = local[t]
    BY <2>4 DEF TypeOK, Walks
  <2>5. \/ local' = local \/ TasksAreDue \/ \E m : Aim("list", m)
        \/ \E n, m, place : Walks(n, place, m)
    BY DEF ListGoesOn, ListEnd, TakeMessage, Message, Kick, Forward, Counters,
       CleanConnections, CleanEntry, CleanDeleted, PurgeConnections, PurgeEntry
  <2> QED
    BY <2>1, <2>2, <2>3, <2>4, <2>5
<1> QED
  BY <1>1, <1>2, <1>4, <1>5, Elsewhere, ThreadNames

AdminStep == AdminMessage \/ Serve \/ AskRequest \/ Request \/ PostToDestroyed("admin")

LEMMA AdminFrame ==
  ASSUME TypeOK, AdminStep
  PROVE  /\ pc["admin"] \notin {"none", "ended"}
         /\ pc'["admin"] \in AdminPlaces
         /\ \A t \in Threads \ {"admin"} : pc'[t] = pc[t] /\ local'[t] = local[t]
         /\ UNCHANGED <<lock, managers, config, finish>>
<1>1. UNCHANGED <<lock, managers, config, finish>> /\ pc["admin"] \notin {"none", "ended"}
  BY ThreadNames DEF AdminStep, AdminMessage, Serve, AskRequest, Request, PostToDestroyed, Passes,
     managers, config, PostsToList
<1>2. pc' = pc \/ \E place : GoesTo("admin", place)
  BY ThreadNames DEF AdminStep, AdminMessage, Serve, AskRequest, Request, PostToDestroyed
<1>3. local' = local \/ Leave("admin", 0)
  BY DEF AdminStep, AdminMessage, Serve, AskRequest, Request, PostToDestroyed
<1>4. \A t \in Threads \ {"admin"} : pc'[t] = pc[t]
  BY <1>2, Elsewhere, ThreadNames
<1>5. \A t \in Threads \ {"admin"} : local'[t] = local[t]
  BY <1>3 DEF TypeOK, Leave
<1>6. pc'["admin"] \in AdminPlaces
  <2>1. \/ pc' = pc /\ pc["admin"] = "drain"
        \/ \E place \in AdminPlaces : GoesTo("admin", place)
    BY ThreadNames DEF AdminStep, AdminMessage, Serve, AskRequest, Request, PostToDestroyed,
       AdminPlaces
  <2> QED
    BY <2>1, Elsewhere, ThreadNames DEF AdminPlaces
<1> QED
  BY <1>1, <1>4, <1>5, <1>6

ManagerStep(m) == Round(m) \/ Post(m) \/ PostToDestroyed(m)

LEMMA ManagerFrame ==
  ASSUME TypeOK, NEW m \in Managers, ManagerStep(m)
  PROVE  /\ pc[m] \notin {"none", "ended"}
         /\ pc'[m] \in ManagerPlaces
         /\ \A t \in Threads \ {m} : pc'[t] = pc[t] /\ local'[t] = local[t]
         /\ UNCHANGED <<lock, m_list, config, finish>>
<1>1. UNCHANGED <<lock, m_list, config, finish>> /\ pc[m] \notin {"none", "ended"}
  BY ThreadNames DEF ManagerStep, Round, Post, PostToDestroyed, Collect, Passes,
     managers, config, PostsToList
<1>2. pc' = pc \/ \E place : GoesTo(m, place)
  BY ThreadNames DEF ManagerStep, Round, Post, PostToDestroyed, Collect
<1>3. local' = local \/ \E n : Leave(m, n)
  BY DEF ManagerStep, Round, Post, PostToDestroyed
<1>4. \A t \in Threads \ {m} : pc'[t] = pc[t]
  BY <1>2, Elsewhere, ThreadNames
<1>5. \A t \in Threads \ {m} : local'[t] = local[t]
  BY <1>3 DEF TypeOK, Leave
<1>6. pc'[m] \in ManagerPlaces
  <2>1. \/ pc' = pc /\ pc[m] = "post"
        \/ \E place \in ManagerPlaces : GoesTo(m, place)
    BY ThreadNames DEF ManagerStep, Round, Post, PostToDestroyed, Collect, Passes, ManagerPlaces
  <2> QED
    BY <2>1, Elsewhere, ThreadNames DEF ManagerPlaces
<1> QED
  BY <1>1, <1>4, <1>5, <1>6


(***************************************************************************)
(* Order: who has ended when.                                              *)
(***************************************************************************)
LEMMA AcceptOrder ==
  ASSUME TypeOK, Order, AcceptGoesOn
  PROVE  Order'
<1>1. UNCHANGED <<pc["main"], pc["list"], local["main"]>>
  BY AcceptFrame, ThreadNames
<1>2. \A m \in Managers : pc'[m] = pc[m]
  BY AcceptFrame, ThreadNames
<1>3. Made' = Made /\ m_list' = m_list
  BY AcceptFrame DEF Made
<1>4. pc["main"] /= "top" /\ pc["main"] \notin AfterAccept /\ pc'["accept"] /= "none"
  BY AcceptFrame DEF Order, AcceptPlaces
<1> QED
  BY <1>1, <1>2, <1>3, <1>4 DEF Order, AfterAccept

LEMMA AcceptsOrder ==
  ASSUME TypeOK, Order, Accept
  PROVE  Order'
<1>1. PICK pcm \in Managers : getFreeThreadedConnectionManager(pcm)
  BY DEF Accept
<1>2. pc["main"] /= "top" /\ pc["main"] \notin AfterAccept
  BY DEF Accept, Order
<1>3. local'["main"] = local["main"]
  BY ThreadNames DEF TypeOK, Accept
<1>4. UNCHANGED <<pc["main"], pc["list"]>> /\ pc'["accept"] /= "none"
  BY <1>1, ThreadNames DEF TypeOK, GoesTo, getFreeThreadedConnectionManager
<1>5. \A m \in Managers \ Made' : pc'[m] \in {"none", "ended"}
  <2>1. CASE UNCHANGED m_list /\ GoesTo("accept", "servers")
    BY <2>1, ThreadNames DEF TypeOK, GoesTo, Order, Made
  <2>2. CASE /\ m_list' = Append(m_list, pcm)
             /\ pc' = [pc EXCEPT !["accept"] = "servers", ![pcm] = "select"]
    <3>1. /\ m_list' = Append(m_list, pcm)
          /\ pc' = [pc EXCEPT !["accept"] = "servers", ![pcm] = "select"]
      BY <2>2
    <3>2. Made' = Made \cup {pcm}
      <4>1. m_list \in Seq(Managers)
        BY DEF TypeOK
      <4> QED
        BY <3>1, <4>1, AppendProperties DEF Made
    <3> QED
      BY <3>1, <3>2, ThreadNames DEF TypeOK, Order
  <2> QED
    BY <1>1, <2>1, <2>2 DEF getFreeThreadedConnectionManager
<1> QED
  BY <1>2, <1>3, <1>4, <1>5 DEF Order, AfterAccept

LEMMA ListOrder ==
  ASSUME TypeOK, Order, ListGoesOn \/ TasksAreDue
  PROVE  Order'
<1>1. UNCHANGED <<pc["main"], pc["accept"], pc["admin"], local["main"]>>
  BY ListFrame, ThreadNames
<1>2. \A m \in Managers : pc'[m] = pc[m]
  BY ListFrame, ThreadNames
<1>3. Made' = Made /\ m_list' = m_list
  BY ListFrame DEF Made, managers
<1>4. pc["main"] /= "top" /\ pc["main"] \notin AfterAccept \ {"joinList"} /\ pc'["list"] /= "none"
  BY ListFrame DEF Order, ListPlaces
<1> QED
  BY <1>1, <1>2, <1>3, <1>4 DEF Order, AfterAccept

LEMMA AdminOrder ==
  ASSUME TypeOK, Order, AdminStep
  PROVE  Order'
<1>1. UNCHANGED <<pc["main"], pc["accept"], pc["list"], local["main"]>>
  BY AdminFrame, ThreadNames
<1>2. \A m \in Managers : pc'[m] = pc[m]
  BY AdminFrame, ThreadNames
<1>3. Made' = Made /\ m_list' = m_list
  BY AdminFrame DEF Made, managers
<1>4. pc["main"] /= "ended"
  BY AdminFrame DEF Order
<1> QED
  BY <1>1, <1>2, <1>3, <1>4 DEF Order, AfterAccept

LEMMA ManagerOrder ==
  ASSUME TypeOK, Order, NEW m \in Managers, ManagerStep(m)
  PROVE  Order'
<1>1. UNCHANGED <<pc["main"], pc["accept"], pc["list"], pc["admin"], local["main"]>>
  BY ManagerFrame, ThreadNames
<1>2. \A k \in Managers \ {m} : pc'[k] = pc[k]
  BY ManagerFrame, ThreadNames
<1>3. Made' = Made /\ m_list' = m_list
  BY ManagerFrame DEF Made
<1>4. m \in Made
  BY ManagerFrame DEF Order
<1> QED
  BY <1>1, <1>2, <1>3, <1>4 DEF Order, AfterAccept

MainStep == MainGoesOn \/ Starts \/ Stop

LEMMA MainFrame ==
  ASSUME TypeOK, MainStep
  PROVE  /\ lock' = lock
         /\ ~Starts => \A t \in Threads \ {"main"} : pc'[t] = pc[t]
         /\ \A t \in Threads \ {"main"} : local'[t] = local[t]
<1>1. lock' = lock
  BY DEF MainStep, MainGoesOn, DestroyServerList, CleanLists, DestroyJq, DestroyManager, Wake,
     ManagerEnded, DestroyAdmin, AdminEnded, Starts, StartListening, Stop
<1>2. Starts \/ pc' = pc \/ \E place : GoesTo("main", place)
  BY DEF MainStep, MainGoesOn, DestroyServerList, CleanLists, DestroyJq, DestroyManager, Wake,
     ManagerEnded, DestroyAdmin, AdminEnded, Stop
<1>3. local' = local \/ \E m : Aim("main", m)
  BY DEF MainStep, MainGoesOn, DestroyServerList, CleanLists, DestroyJq, DestroyManager, Wake,
     ManagerEnded, DestroyAdmin, AdminEnded, Starts, StartListening, Stop
<1>4. \A t \in Threads \ {"main"} : local'[t] = local[t]
  BY <1>3 DEF TypeOK, Aim
<1> QED
  BY <1>1, <1>2, <1>4, Elsewhere, ThreadNames

(* A manager leaves the list when its thread has ended, the others stay. *)
LEMMA Remaining ==
  ASSUME TypeOK, m_list /= <<>>, m_list' = Tail(m_list)
  PROVE  Made \subseteq Made' \cup {Head(m_list)}
<1>1. m_list \in Seq(Managers)
  BY DEF TypeOK
<1>2. /\ Len(Tail(m_list)) = Len(m_list) - 1 /\ DOMAIN Tail(m_list) = 1..Len(Tail(m_list))
      /\ \A i \in 1..Len(Tail(m_list)) : Tail(m_list)[i] = m_list[i + 1]
      /\ DOMAIN m_list = 1..Len(m_list) /\ Len(m_list) \in Nat
      /\ Head(m_list) = m_list[1]
  BY <1>1, HeadTailProperties
<1>3. ASSUME NEW i \in DOMAIN m_list, i /= 1 PROVE m_list[i] \in Made'
  <2>1. i - 1 \in DOMAIN m_list' /\ m_list'[i - 1] = m_list[i]
    BY <1>2, <1>3
  <2> QED
    BY <2>1 DEF Made
<1> QED
  BY <1>2, <1>3 DEF Made

LEMMA MainOrder ==
  ASSUME TypeOK, Order, MainStep
  PROVE  Order'
<1>1. CASE Starts
  <2>1. PICK enabled, count : StartListening(enabled, count)
    BY <1>1 DEF Starts
  <2>2. pc'["main"] = "running" /\ pc'["accept"] = "begin" /\ pc'["list"] = "top"
        /\ \A m \in Managers : pc'[m] = pc[m]
    BY <2>1, ThreadNames DEF TypeOK, StartListening
  <2>3. m_list' = m_list
    BY <2>1 DEF StartListening, managers
  <2> QED
    BY <2>2, <2>3 DEF Order, Made, AfterAccept
<1> SUFFICES ASSUME ~Starts PROVE Order'
  BY <1>1
<1>2. UNCHANGED <<pc["accept"], pc["list"], pc["admin"]>> /\ \A m \in Managers : pc'[m] = pc[m]
  BY MainFrame, ThreadNames
<1>3. CASE Stop
  BY <1>2, <1>3, Elsewhere, ThreadNames DEF Stop, Order, Made, AfterAccept, managers
<1>4. CASE DestroyServerList
  <2>1. pc["accept"] \in {"none", "ended"}
    BY <1>4, Unblocked, ThreadNames DEF DestroyServerList, Passes, Joins, Joined
  <2>2. pc["main"] = "joinAccept" /\ pc'["main"] = "joinList" /\ m_list' = m_list
    BY <1>4, Elsewhere, ThreadNames DEF DestroyServerList, Passes, managers
  <2> QED
    BY <1>2, <2>1, <2>2 DEF Order, Made, AfterAccept
<1>5. CASE CleanLists
  <2>1. pc["main"] = "joinList" => pc["list"] \in {"none", "ended"}
    BY <1>5, Unblocked, ThreadNames DEF CleanLists, Passes, Joins, Joined
  <2>2. /\ pc["main"] \in {"joinList", "cleanList", "cleanPeerList"} /\ m_list' = m_list
        /\ pc'["main"] \in {"cleanList", "cleanPeerList", "destroy"}
    BY <1>5, Elsewhere, ThreadNames DEF CleanLists, Passes, managers
  <2> QED
    BY <1>2, <2>1, <2>2 DEF Order, Made, AfterAccept
<1>6. CASE DestroyJq
  BY <1>6 DEF DestroyJq, Order, Made, AfterAccept, managers
<1>7. CASE DestroyManager
  <2>1. pc["main"] = "destroy" /\ pc'["main"] = "wake" /\ m_list' = m_list /\ m_list /= <<>>
    BY <1>7, Elsewhere, ThreadNames DEF DestroyManager, managers
  <2>2. local'["main"].aim = Head(m_list)
    BY <1>7, ThreadNames DEF TypeOK, DestroyManager, Aim
  <2> QED
    BY <1>2, <2>1, <2>2 DEF Order, Made, AfterAccept
<1>8. CASE Wake
  <2>1. pc["main"] = "wake" /\ pc'["main"] = "joinManager" /\ m_list' = m_list /\ local' = local
    BY <1>8, Elsewhere, ThreadNames DEF Wake, Passes, managers
  <2> QED
    BY <1>2, <2>1 DEF Order, Made, AfterAccept
<1>9. CASE ManagerEnded
  <2>1. pc["main"] = "joinManager" /\ pc'["main"] = "destroy" /\ m_list' = Tail(m_list)
    BY <1>9, Elsewhere, ThreadNames DEF ManagerEnded, Passes
  <2>2. m_list /= <<>> /\ pc[Head(m_list)] \in {"none", "ended"}
    BY <1>9, <2>1, Unblocked, ThreadNames DEF ManagerEnded, Passes, Joins, Joined, Order
  <2>3. Made \subseteq Made' \cup {Head(m_list)}
    BY <2>1, <2>2, Remaining
  <2> QED
    BY <1>2, <2>1, <2>2, <2>3 DEF Order, AfterAccept
<1>10. CASE DestroyAdmin
  <2>1. pc["main"] = "destroy" /\ pc'["main"] = "joinAdmin" /\ m_list' = m_list /\ m_list = <<>>
    BY <1>10, Elsewhere, ThreadNames DEF DestroyAdmin, managers
  <2> QED
    BY <1>2, <2>1 DEF Order, Made, AfterAccept
<1>11. CASE AdminEnded
  <2>1. pc["admin"] \in {"none", "ended"}
    BY <1>11, Unblocked, ThreadNames DEF AdminEnded, Passes, Joins, Joined
  <2>2. pc["main"] = "joinAdmin" /\ pc'["main"] = "ended" /\ m_list' = m_list
    BY <1>11, Elsewhere, ThreadNames DEF AdminEnded, Passes, managers
  <2> QED
    BY <1>2, <2>1, <2>2 DEF Order, Made, AfterAccept
<1> QED
  BY <1>3, <1>4, <1>5, <1>6, <1>7, <1>8, <1>9, <1>10, <1>11 DEF MainStep, MainGoesOn


(***************************************************************************)
(* Held: which lock is held where.                                         *)
(***************************************************************************)
(* What a step of t makes of the sets of the two locks. *)
LEMMA Effects ==
  ASSUME TypeOK, NEW t \in Threads
  PROVE  /\ lock' = Reading(t, "servers") =>
              /\ lock'["servers"].reading = lock["servers"].reading \cup {t}
              /\ lock'["servers"].writing = lock["servers"].writing
              /\ lock'["peers"] = lock["peers"]
         /\ lock' = Reading(t, "peers") =>
              /\ lock'["peers"].reading = lock["peers"].reading \cup {t}
              /\ lock'["peers"].writing = lock["peers"].writing
              /\ lock'["servers"] = lock["servers"]
         /\ lock' = Writing(t, "peers") =>
              /\ lock'["peers"].writing = lock["peers"].writing \cup {t}
              /\ lock'["peers"].reading = lock["peers"].reading
              /\ lock'["servers"] = lock["servers"]
         /\ lock' = Unlocked(t, "peers") =>
              /\ lock'["peers"].writing = lock["peers"].writing \ {t}
              /\ lock'["peers"].reading = lock["peers"].reading \ {t}
              /\ lock'["servers"] = lock["servers"]
         /\ lock' = BothUnlocked(t) =>
              \A l \in Locks : /\ lock'[l].writing = lock[l].writing \ {t}
                               /\ lock'[l].reading = lock[l].reading \ {t}
<1>1. lock \in [Locks -> [reading : SUBSET Threads, writing : SUBSET Threads]]
      /\ "servers" \in Locks /\ "peers" \in Locks
  BY DEF TypeOK, Locks
<1>2. ASSUME lock' = Reading(t, "servers")
      PROVE  /\ lock'["servers"].reading = lock["servers"].reading \cup {t}
             /\ lock'["servers"].writing = lock["servers"].writing
             /\ lock'["peers"] = lock["peers"]
  <2>1. lock' = [lock EXCEPT !["servers"].reading = @ \cup {t}]
    BY <1>2 DEF Reading, Writing, Unlocked, BothUnlocked, Without
  <2> QED
    BY <1>1, <2>1
<1>3. ASSUME lock' = Reading(t, "peers")
      PROVE  /\ lock'["peers"].reading = lock["peers"].reading \cup {t}
             /\ lock'["peers"].writing = lock["peers"].writing
             /\ lock'["servers"] = lock["servers"]
  <2>1. lock' = [lock EXCEPT !["peers"].reading = @ \cup {t}]
    BY <1>3 DEF Reading, Writing, Unlocked, BothUnlocked, Without
  <2> QED
    BY <1>1, <2>1
<1>4. ASSUME lock' = Writing(t, "peers")
      PROVE  /\ lock'["peers"].writing = lock["peers"].writing \cup {t}
             /\ lock'["peers"].reading = lock["peers"].reading
             /\ lock'["servers"] = lock["servers"]
  <2>1. lock' = [lock EXCEPT !["peers"].writing = @ \cup {t}]
    BY <1>4 DEF Reading, Writing, Unlocked, BothUnlocked, Without
  <2> QED
    BY <1>1, <2>1
<1>5. ASSUME lock' = Unlocked(t, "peers")
      PROVE  /\ lock'["peers"].writing = lock["peers"].writing \ {t}
             /\ lock'["peers"].reading = lock["peers"].reading \ {t}
             /\ lock'["servers"] = lock["servers"]
  <2>1. lock' = [lock EXCEPT !["peers"] = [reading |-> lock["peers"].reading \ {t},
                                              writing |-> lock["peers"].writing \ {t}]]
    BY <1>5 DEF Reading, Writing, Unlocked, BothUnlocked, Without
  <2> QED
    BY <1>1, <2>1
<1>6. ASSUME lock' = BothUnlocked(t)
      PROVE  \A l \in Locks : /\ lock'[l].writing = lock[l].writing \ {t}
                              /\ lock'[l].reading = lock[l].reading \ {t}
  <2>1. lock' = [l \in Locks |-> [reading |-> lock[l].reading \ {t},
                              writing |-> lock[l].writing \ {t}]]
    BY <1>6 DEF Reading, Writing, Unlocked, BothUnlocked, Without
  <2> QED
    BY <1>1, <2>1
<1> QED
  BY <1>2, <1>3, <1>4, <1>5, <1>6

(* A step that touches neither the locks nor the two threads that hold them. *)
LEMMA OthersHold ==
  ASSUME Held, UNCHANGED <<lock, pc["accept"], pc["list"]>>
  PROVE  Held'
  BY DEF Held, Holders

LEMMA AcceptHeld ==
  ASSUME TypeOK, Held, AcceptGoesOn \/ Accept
  PROVE  Held'
<1>0. "servers" \in Locks /\ "peers" \in Locks
  BY DEF Locks
<1> DEFINE both == BothUnlocked("accept")
<1>a. ASSUME lock' = both, pc'["list"] = pc["list"] PROVE Held'
  BY <1>0, <1>a, Effects, ThreadNames DEF Held, Holders, Without
<1>b. pc'["list"] = pc["list"]
  <2>1. CASE Accept
    BY <2>1, ThreadNames DEF TypeOK, GoesTo, Accept, getFreeThreadedConnectionManager
  <2> QED
    BY <2>1, AcceptFrame, ThreadNames
<1>1. CASE Choose /\ pc["accept"] \in {"search", "recreate"}
  <2>1. CASE lock' = both
    BY <1>a, <1>b, <2>1
  <2>2. CASE lock' = Unlocked("accept", "peers")
             /\ GoesTo("accept", IF adminEnabled THEN "announce" ELSE "add")
    <3>1. pc'["accept"] \in {"announce", "add"}
      BY <2>2, Elsewhere, ThreadNames
    <3> QED
      BY <1>0, <1>b, <2>2, <3>1, Effects, ThreadNames DEF Held, Holders, Without
  <2> QED
    BY <1>1, <2>1, <2>2 DEF Choose
<1>2. CASE Begin \/ Timeout \/ Accept \/ Connect \/ Notify
  <2>1. pc["accept"] \in {"begin", "select", "connect", "notify"} /\ lock' = lock
    BY <1>2 DEF Begin, Timeout, Accept, Connect, Notify, Passes
  <2> QED
    BY <1>b, <2>1 DEF Held, Holders
<1>3. CASE LockServers
  <2>1. pc'["accept"] = "search" /\ pc["accept"] = "servers" /\ lock' = Reading("accept", "servers")
    BY <1>3, Elsewhere, ThreadNames DEF LockServers, Passes
  <2> QED
    BY <1>0, <1>b, <2>1, Effects, ThreadNames DEF Held, Holders
<1>4. CASE Search
  <2>1. pc["accept"] = "search"
    BY <1>4 DEF Search, Passes
  <2>2. CASE GoesTo("accept", "close") /\ lock' = Reading("accept", "peers")
    <3>1. pc'["accept"] = "close"
      BY <2>2, Elsewhere, ThreadNames
    <3> QED
      BY <1>0, <1>b, <2>1, <2>2, <3>1, Effects, ThreadNames DEF Held, Holders
  <2>3. CASE GoesTo("accept", "recreate") /\ lock' = lock
    <3>1. pc'["accept"] = "recreate"
      BY <2>3, Elsewhere, ThreadNames
    <3> QED
      BY <1>b, <2>1, <2>3, <3>1 DEF Held, Holders
  <2> QED
    BY <1>1, <1>4, <2>1, <2>2, <2>3 DEF Search
<1>5. CASE CloseOld \/ Announce
  <2>1. pc["accept"] \in {"close", "announce"}
    BY <1>5 DEF CloseOld, Announce, Passes
  <2>2. CASE lock' = both
    BY <1>a, <1>b, <2>2
  <2>3. CASE GoesTo("accept", "announce") /\ lock' = lock
    <3>1. pc'["accept"] = "announce"
      BY <2>3, Elsewhere, ThreadNames
    <3> QED
      BY <1>b, <2>1, <2>3, <3>1 DEF Held, Holders
  <2>4. CASE GoesTo("accept", "add") /\ lock' = lock /\ "accept" \notin Holders("peers")
    <3>1. pc'["accept"] = "add"
      BY <2>4, Elsewhere, ThreadNames
    <3> QED
      BY <1>b, <2>1, <2>4, <3>1 DEF Held, Holders
  <2> QED
    BY <1>5, <2>2, <2>3, <2>4 DEF CloseOld, Announce
<1>6. CASE Lists("connect")
  BY <1>a, <1>b, <1>6 DEF Lists
<1>7. CASE Lists("announce") /\ pc["accept"] = "recreate"
  <2>1. pc'["accept"] = "announce" /\ lock' = Writing("accept", "peers")
    BY <1>7, Elsewhere, ThreadNames DEF Lists
  <2> QED
    BY <1>0, <1>b, <1>7, <2>1, Effects, ThreadNames DEF Held, Holders
<1> QED
  BY <1>1, <1>2, <1>3, <1>4, <1>5, <1>6, <1>7 DEF AcceptGoesOn, Recreate, Add, Passes

LEMMA WalksHeld ==
  ASSUME TypeOK, Held, NEW n, NEW m, NEW place \in {"entry", "purging"}, Walks(n, place, m),
         pc'["accept"] = pc["accept"]
  PROVE  Held'
<1>0. "servers" \in Locks /\ "peers" \in Locks
  BY DEF Locks
<1>1. CASE lock' = Unlocked("list", "peers")
  BY <1>0, <1>1, Effects, ThreadNames DEF Held, Holders, Without
<1>2. CASE lock' = Writing("list", "peers") /\ GoesTo("list", place)
  <2>1. pc'["list"] = place
    BY <1>2, Elsewhere, ThreadNames
  <2> QED
    BY <1>0, <1>2, <2>1, Effects, ThreadNames DEF Held, Holders
<1> QED
  BY <1>1, <1>2 DEF Walks

LEMMA ListHeld ==
  ASSUME TypeOK, Held, ListGoesOn \/ TasksAreDue
  PROVE  Held'
<1>0. "servers" \in Locks /\ "peers" \in Locks
  BY DEF Locks
<1>a. pc'["accept"] = pc["accept"]
  BY ListFrame, ThreadNames
<1>b. ASSUME lock' = Unlocked("list", "peers") PROVE Held'
  BY <1>0, <1>a, <1>b, Effects, ThreadNames DEF Held, Holders, Without
<1>1. CASE ListEnd \/ TakeMessage \/ TasksAreDue
  <2>1. pc["list"] = "top" /\ lock' = lock
    BY <1>1 DEF ListEnd, TakeMessage, TasksAreDue
  <2> QED
    BY <1>a, <2>1 DEF Held, Holders
<1>2. CASE Message
  <2>1. pc["list"] \in {"news", "kick"}
    BY <1>2 DEF Message, Passes
  <2>2. CASE lock' = lock
    BY <1>a, <2>1, <2>2 DEF Held, Holders
  <2>3. CASE lock' = Reading("list", "peers")
             /\ \/ GoesTo("list", "kicking")
                \/ GoesTo("list", "forward")
                \/ GoesTo("list", "counters")
    <3>1. pc'["list"] \in {"kicking", "forward", "counters"}
      BY <2>3, Elsewhere, ThreadNames
    <3> QED
      BY <1>0, <1>a, <2>3, <3>1, Effects, ThreadNames DEF Held, Holders
  <2> QED
    BY <1>2, <2>2, <2>3 DEF Message
<1>3. CASE Kick \/ Counters
  BY <1>3, <1>b DEF Kick, Counters
<1>4. CASE Forward
  <2>1. CASE GoesTo("list", "counters") /\ lock' = lock
    <3>1. pc'["list"] = "counters"
      BY <2>1, Elsewhere, ThreadNames
    <3> QED
      BY <1>a, <2>1, <3>1 DEF Held, Holders
  <2> QED
    BY <1>4, <1>b, <2>1 DEF Forward
<1>5. CASE CleanEntry /\ GoesTo("list", "deleted") /\ lock' = lock
  <2>1. pc'["list"] = "deleted"
    BY <1>5, Elsewhere, ThreadNames
  <2> QED
    BY <1>a, <1>5, <2>1 DEF Held, Holders
<1>6. ASSUME NEW n, NEW m, NEW place \in {"entry", "purging"}, Walks(n, place, m) PROVE Held'
  BY <1>a, <1>6, WalksHeld
<1> QED
  BY <1>1, <1>2, <1>3, <1>4, <1>5, <1>6
  DEF ListGoesOn, CleanConnections, CleanEntry, CleanDeleted, PurgeConnections, PurgeEntry

LEMMA MainHeld ==
  ASSUME TypeOK, Held, Order, MainStep
  PROVE  Held'
<1>1. CASE Starts
  <2>1. PICK enabled, count : StartListening(enabled, count)
    BY <1>1 DEF Starts
  <2>2. pc["accept"] = "none" /\ pc["list"] = "none"
    BY <2>1 DEF StartListening, Order
  <2> QED
    BY <2>2, MainFrame DEF Held, Holders
<1>2. CASE ~Starts
  BY <1>2, MainFrame, OthersHold, ThreadNames
<1> QED
  BY <1>1, <1>2

(***************************************************************************)
(* Walking: a walk, or a round, that waits has something left.             *)
(***************************************************************************)
LEMMA AcceptWalking ==
  ASSUME TypeOK, Walking, AcceptGoesOn \/ Accept
  PROVE  Walking'
<1>1. CASE AcceptGoesOn
  <2>1. pc'["list"] = pc["list"] /\ local'["list"] = local["list"]
    BY <1>1, AcceptFrame, ThreadNames
  <2>2. \A m \in Managers : pc'[m] = pc[m] /\ local'[m] = local[m]
    BY <1>1, AcceptFrame, ThreadNames
  <2> QED
    BY <2>1, <2>2 DEF Walking
<1>2. CASE Accept
  <2>1. PICK pcm \in Managers : getFreeThreadedConnectionManager(pcm)
    BY <1>2 DEF Accept
  <2>2. \A t \in Threads \ {"accept"} : local'[t] = local[t]
    BY <1>2 DEF TypeOK, Accept
  <2>3. \/ GoesTo("accept", "servers")
        \/ pc' = [pc EXCEPT !["accept"] = "servers", ![pcm] = "select"]
    BY <2>1 DEF getFreeThreadedConnectionManager
  <2>4. pc'["list"] = pc["list"] /\ \A m \in Managers : pc'[m] \in {pc[m], "select"}
    BY <2>3, ThreadNames DEF TypeOK, GoesTo
  <2> QED
    BY <2>2, <2>4, ThreadNames DEF Walking
<1> QED
  BY <1>1, <1>2

LEMMA WalksWalking ==
  ASSUME TypeOK, NEW n \in Nat, NEW m, NEW place, Walks(n, place, m),
         pc'["list"] \in {"entry", "deleted", "purging"}
  PROVE  local'["list"].left >= 1
<1>1. CASE n = 0
  <2>1. NextTask(local["list"].due)
    BY <1>1 DEF Walks
  <2> QED
    BY <2>1, ThreadNames DEF TypeOK, NextTask, GoesTo
<1>2. CASE n /= 0
  BY <1>2, ThreadNames DEF TypeOK, Walks
<1> QED
  BY <1>1, <1>2

LEMMA ListWalking ==
  ASSUME TypeOK, Walking, ListGoesOn \/ TasksAreDue
  PROVE  Walking'
<1>1. \A m \in Managers : pc'[m] = pc[m] /\ local'[m] = local[m]
  BY ListFrame, ThreadNames
<1> SUFFICES ASSUME pc'["list"] \in {"entry", "deleted", "purging"}
             PROVE  local'["list"].left >= 1
  BY <1>1 DEF Walking
<1>2. ASSUME NEW place, GoesTo("list", place), place \notin {"entry", "deleted", "purging"}
      PROVE  FALSE
  BY <1>2, Elsewhere, ThreadNames
<1>3. ASSUME NEW n, NextTask(n) PROVE FALSE
  BY <1>2, <1>3 DEF NextTask
<1>4. CASE ListEnd \/ Message \/ Kick \/ Forward \/ Counters
  BY <1>2, <1>4 DEF ListEnd, Message, Kick, Forward, Counters
<1>5. CASE TakeMessage
  <2>1. Head(jq) \in {"kick", "news"}
    BY <1>5, HeadTailProperties DEF TypeOK, TakeMessage
  <2> QED
    BY <1>2, <1>5, <2>1 DEF TakeMessage
<1>6. CASE TasksAreDue
  BY <1>3, <1>6 DEF TasksAreDue
<1>7. CASE CleanConnections \/ PurgeConnections
  <2>1. Entries \subseteq Nat
    BY Bounds DEF Entries
  <2> QED
    BY <1>7, <2>1, WalksWalking DEF CleanConnections, PurgeConnections
<1>8. CASE CleanEntry \/ CleanDeleted \/ PurgeEntry
  <2>1. local["list"].left \in Nat /\ local["list"].left >= 1
    BY <1>8, ThreadNames DEF TypeOK, Walking, CleanEntry, CleanDeleted, PurgeEntry, Passes
  <2>2. local["list"].left - 1 \in Nat
    BY <2>1
  <2> QED
    BY <1>8, <2>1, <2>2, WalksWalking DEF CleanEntry, CleanDeleted, PurgeEntry
<1> QED
  BY <1>4, <1>5, <1>6, <1>7, <1>8 DEF ListGoesOn

LEMMA ManagerWalking ==
  ASSUME TypeOK, Walking, NEW m \in Managers, ManagerStep(m)
  PROVE  Walking'
<1>1. \A t \in Threads \ {m} : pc'[t] = pc[t] /\ local'[t] = local[t]
  BY ManagerFrame
<1>2. pc'[m] = "post" => local'[m].left >= 1
  <2>1. Collect(m) => pc'[m] /= "post"
    BY ThreadNames DEF TypeOK, Collect, GoesTo
  <2>2. CASE Round(m)
    <3>1. ASSUME NEW n \in 1..MaxPosts, Leave(m, n) PROVE local'[m].left >= 1
      BY <3>1, ThreadNames, Bounds DEF TypeOK, Leave
    <3> QED
      BY <2>1, <2>2, <3>1 DEF Round
  <2>3. CASE Post(m)
    <3>1. local[m].left \in Nat
      BY ThreadNames DEF TypeOK
    <3>2. local'[m].left = local[m].left - 1
      BY <2>3, ThreadNames DEF TypeOK, Post, Leave
    <3> QED
      BY <2>1, <2>3, <3>1, <3>2 DEF Post
  <2>4. CASE PostToDestroyed(m)
    <3>1. GoesTo(m, "undefined") => pc'[m] /= "post"
      BY ThreadNames DEF TypeOK, GoesTo
    <3> QED
      BY <2>1, <2>4, <3>1, ThreadNames DEF PostToDestroyed
  <2> QED
    BY <2>2, <2>3, <2>4 DEF ManagerStep
<1> QED
  BY <1>1, <1>2, ThreadNames DEF Walking

LEMMA OthersWalking ==
  ASSUME TypeOK, Order, Walking, AdminStep \/ MainStep
  PROVE  Walking'
<1>1. CASE Starts
  <2>1. PICK enabled, count : StartListening(enabled, count)
    BY <1>1 DEF Starts
  <2>2. pc'["list"] = "top" /\ local' = local /\ \A m \in Managers : pc'[m] = pc[m]
    BY <2>1, ThreadNames DEF TypeOK, StartListening
  <2> QED
    BY <2>2 DEF Walking
<1>2. CASE ~Starts
  <2>1. pc'["list"] = pc["list"] /\ local'["list"] = local["list"]
    BY <1>2, AdminFrame, MainFrame, ThreadNames
  <2>2. \A m \in Managers : pc'[m] = pc[m] /\ local'[m] = local[m]
    BY <1>2, AdminFrame, MainFrame, ThreadNames
  <2> QED
    BY <2>1, <2>2 DEF Walking
<1> QED
  BY <1>1, <1>2


(***************************************************************************)
(* Chosen: the manager of the client is not destroyed.                     *)
(***************************************************************************)
LEMMA ServingGoesOn ==
  ASSUME TypeOK, AcceptGoesOn, pc'["accept"] \in Serving
  PROVE  /\ pc["accept"] \in Serving
         /\ local'["accept"].pcm = local["accept"].pcm
<1>1. ASSUME NEW place, GoesTo("accept", place), place \notin Serving PROVE FALSE
  BY <1>1, Elsewhere, ThreadNames
<1>2. ~NextRound
  BY <1>1 DEF NextRound, Serving
<1>3. ~Begin
  <2>1. ASSUME Begin PROVE pc'["accept"] = "select"
    BY <2>1, ThreadNames DEF TypeOK, Begin, GoesTo
  <2> QED
    BY <2>1 DEF Serving
<1>4. ~Timeout /\ ~Connect /\ ~Notify
  BY <1>1, <1>2 DEF Timeout, Connect, Notify, Serving
<1>5. CASE LockServers \/ CloseOld \/ Announce \/ Add
  <2>1. pc["accept"] \in Serving
    BY <1>5 DEF LockServers, CloseOld, Announce, Add, Passes, Serving
  <2>2. local' = local
    BY <1>5 DEF LockServers, CloseOld, Announce, Add
  <2> QED
    BY <2>1, <2>2
<1>6. CASE Search \/ Recreate
  <2>1. pc["accept"] \in Serving
    BY <1>6 DEF Search, Recreate, Passes, Serving
  <2>2. local' = local \/ \E m : Aim("accept", m)
    BY <1>2, <1>6 DEF Search, Recreate, Choose
  <2>3. local'["accept"].pcm = local["accept"].pcm
    BY <2>2, ThreadNames DEF TypeOK, Aim
  <2> QED
    BY <2>1, <2>3
<1> QED
  BY <1>3, <1>4, <1>5, <1>6 DEF AcceptGoesOn

LEMMA AcceptChosen ==
  ASSUME TypeOK, Chosen, AcceptGoesOn
  PROVE  Chosen'
<1>1. Made' = Made
  BY AcceptFrame DEF Made
<1> QED
  BY <1>1, ServingGoesOn DEF Chosen

LEMMA AcceptsChosen ==
  ASSUME TypeOK, Accept
  PROVE  Chosen'
<1>1. PICK pcm \in Managers :
        /\ getFreeThreadedConnectionManager(pcm)
        /\ \E ready : local' = [local EXCEPT !["accept"].left = ready - 1, !["accept"].pcm = pcm]
  BY DEF Accept
<1>2. local'["accept"].pcm = pcm
  BY <1>1, ThreadNames DEF TypeOK
<1>3. m_list \in Seq(Managers)
  BY DEF TypeOK
<1>4. CASE \E i \in 2..Len(m_list) : pcm = m_list[i] /\ UNCHANGED m_list
  <2>1. PICK i \in 2..Len(m_list) : pcm = m_list[i] /\ UNCHANGED m_list
    BY <1>4
  <2>2. i \in DOMAIN m_list
    BY <1>3, <2>1, LenProperties
  <2> QED
    BY <1>2, <2>1, <2>2 DEF Chosen, Made
<1>5. CASE m_list' = Append(m_list, pcm)
  <2>1. Made' = Made \cup {pcm}
    BY <1>3, <1>5, AppendProperties DEF Made
  <2> QED
    BY <1>2, <2>1 DEF Chosen
<1> QED
  BY <1>1, <1>4, <1>5 DEF getFreeThreadedConnectionManager

LEMMA OthersChosen ==
  ASSUME TypeOK, Chosen, ListGoesOn \/ TasksAreDue \/ AdminStep
  PROVE  Chosen'
<1>1. UNCHANGED managers
  BY ListFrame, AdminFrame
<1>2. UNCHANGED <<pc["accept"], local["accept"]>>
  BY ListFrame, AdminFrame, ThreadNames
<1> QED
  BY <1>1, <1>2 DEF Chosen, Made, managers

LEMMA ManagerChosen ==
  ASSUME TypeOK, Chosen, NEW m \in Managers, ManagerStep(m)
  PROVE  Chosen'
<1>1. UNCHANGED <<pc["accept"], local["accept"]>>
  BY ManagerFrame, ThreadNames
<1>2. Made' = Made
  BY ManagerFrame DEF Made
<1> QED
  BY <1>1, <1>2 DEF Chosen

LEMMA MainChosen ==
  ASSUME TypeOK, Order, Chosen, MainStep
  PROVE  Chosen'
<1>1. CASE Starts
  <2>1. PICK enabled, count : StartListening(enabled, count)
    BY <1>1 DEF Starts
  <2>2. pc'["accept"] = "begin"
    BY <2>1, ThreadNames DEF TypeOK, StartListening
  <2> QED
    BY <2>2 DEF Chosen, Serving
<1>2. CASE ~Starts /\ UNCHANGED m_list
  <2>1. UNCHANGED <<pc["accept"], local["accept"]>>
    BY <1>2, MainFrame, ThreadNames
  <2> QED
    BY <1>2, <2>1 DEF Chosen, Made
<1>3. CASE ManagerEnded
  <2>1. pc["accept"] = "ended" /\ pc'["accept"] = pc["accept"]
    BY <1>3, Elsewhere, ThreadNames DEF ManagerEnded, Passes, Order, AfterAccept
  <2> QED
    BY <2>1 DEF Chosen, Serving
<1> QED
  BY <1>1, <1>2, <1>3 DEF MainStep, MainGoesOn, DestroyServerList, CleanLists, DestroyJq,
     DestroyManager, Wake, DestroyAdmin, AdminEnded, Stop, managers

(***************************************************************************)
(* Own: the places of the threads.                                         *)
(***************************************************************************)
LEMMA ThreadsOwn ==
  ASSUME TypeOK, Own, ListGoesOn \/ TasksAreDue \/ AdminStep \/ AcceptGoesOn
  PROVE  Own'
<1>1. CASE ListGoesOn \/ TasksAreDue
  <2>1. pc'["list"] \in ListPlaces
    BY <1>1, ListFrame
  <2>2. UNCHANGED <<pc["accept"], pc["admin"], pc["main"]>> /\ \A m \in Managers : pc'[m] = pc[m]
    BY <1>1, ListFrame, ThreadNames
  <2> QED
    BY <2>1, <2>2 DEF Own, AfterAccept
<1>2. CASE AdminStep
  <2>1. pc'["admin"] \in AdminPlaces
    BY <1>2, AdminFrame
  <2>2. UNCHANGED <<pc["accept"], pc["list"], pc["main"]>> /\ \A m \in Managers : pc'[m] = pc[m]
    BY <1>2, AdminFrame, ThreadNames
  <2> QED
    BY <2>1, <2>2 DEF Own, AfterAccept
<1>3. CASE AcceptGoesOn
  <2>1. pc'["accept"] \in AcceptPlaces
    BY <1>3, AcceptFrame
  <2>2. UNCHANGED <<pc["list"], pc["main"]>> /\ \A m \in Managers : pc'[m] = pc[m]
    BY <1>3, AcceptFrame, ThreadNames
  <2>3. pc'["admin"] \in {pc["admin"], "drain"}
    BY <1>3, BeginsAdmin
  <2> QED
    BY <2>1, <2>2, <2>3 DEF Own, AfterAccept, AdminPlaces
<1> QED
  BY <1>1, <1>2, <1>3

LEMMA AcceptsOwn ==
  ASSUME TypeOK, Own, Accept
  PROVE  Own'
<1>1. PICK pcm \in Managers : getFreeThreadedConnectionManager(pcm)
  BY DEF Accept
<1>2. \/ GoesTo("accept", "servers")
      \/ pc' = [pc EXCEPT !["accept"] = "servers", ![pcm] = "select"]
  BY <1>1 DEF getFreeThreadedConnectionManager
<1>3. /\ pc'["accept"] = "servers" /\ UNCHANGED <<pc["list"], pc["admin"], pc["main"]>>
      /\ \A m \in Managers : pc'[m] \in {pc[m], "select"}
  BY <1>2, ThreadNames DEF TypeOK, GoesTo
<1> QED
  BY <1>3 DEF Own, AcceptPlaces, ManagerPlaces

LEMMA ManagerOwn ==
  ASSUME TypeOK, Own, NEW m \in Managers, ManagerStep(m)
  PROVE  Own'
<1>1. pc'[m] \in ManagerPlaces /\ \A k \in Managers \ {m} : pc'[k] = pc[k]
  BY ManagerFrame, ThreadNames
<1>2. UNCHANGED <<pc["accept"], pc["list"], pc["admin"], pc["main"]>>
  BY ManagerFrame, ThreadNames
<1> QED
  BY <1>1, <1>2 DEF Own

LEMMA MainOwn ==
  ASSUME TypeOK, Own, MainStep
  PROVE  Own'
<1>1. CASE Starts
  <2>1. PICK enabled, count : StartListening(enabled, count)
    BY <1>1 DEF Starts
  <2>2. /\ pc'["main"] = "running" /\ pc'["accept"] = "begin" /\ pc'["list"] = "top"
        /\ pc'["admin"] = pc["admin"] /\ \A m \in Managers : pc'[m] = pc[m]
    BY <2>1, ThreadNames DEF TypeOK, StartListening
  <2> QED
    BY <2>2 DEF Own, AcceptPlaces, ListPlaces
<1>2. CASE ~Starts
  <2>1. UNCHANGED <<pc["accept"], pc["list"], pc["admin"]>> /\ \A m \in Managers : pc'[m] = pc[m]
    BY <1>2, MainFrame, ThreadNames
  <2>2. pc' = pc \/ GoesTo("main", "joinAccept") \/ \E place \in AfterAccept : GoesTo("main", place)
    BY <1>2 DEF MainStep, MainGoesOn, DestroyServerList, CleanLists, DestroyJq, DestroyManager,
       Wake, ManagerEnded, DestroyAdmin, AdminEnded, Stop, AfterAccept
  <2>3. pc'["main"] \in {"top", "running", "joinAccept"} \cup AfterAccept
    BY <2>2, Elsewhere, ThreadNames DEF Own
  <2> QED
    BY <2>1, <2>3 DEF Own, AfterAccept
<1> QED
  BY <1>1, <1>2

(***************************************************************************)
(* Alive: nobody ends before a stop.                                       *)
(***************************************************************************)
LEMMA AcceptAlive ==
  ASSUME TypeOK, Alive, AcceptGoesOn \/ Accept
  PROVE  Alive'
<1> SUFFICES ASSUME ~finish'["accept"] PROVE Alive'
  BY DEF Alive
<1>1. finish' = finish \/ finish' = [finish EXCEPT !["admin"] = TRUE]
  BY DEF AcceptGoesOn, Accept, Begin, Timeout, LockServers, Search, CloseOld, Recreate,
     Announce, Add, Connect, Notify, NextRound, Choose
<1>2. ~finish["accept"]
  BY <1>1, ThreadNames DEF TypeOK
<1>3. ~(NextRound /\ finish["accept"] /\ finish' /= finish)
  BY <1>2
<1>4. finish' = finish
  BY <1>2 DEF AcceptGoesOn, Accept, Begin, Timeout, LockServers, Search, CloseOld, Recreate,
     Announce, Add, Connect, Notify, NextRound, Choose
<1>5. jqDestroyed' = jqDestroyed
  BY DEF AcceptGoesOn, Accept, Begin, Timeout, LockServers, Search, CloseOld, Recreate,
     Announce, Add, Connect, Notify, PostToAdmin, queues
<1>6. \/ Begin
      \/ Accept
      \/ \E place \in AcceptPlaces \ {"ended"} : GoesTo("accept", place)
  <2>1. NextRound => GoesTo("accept", "select")
    BY <1>2 DEF NextRound
  <2>2. Choose => \E place \in AcceptPlaces \ {"ended"} : GoesTo("accept", place)
    BY <2>1 DEF Choose, AcceptPlaces
  <2> QED
    BY <2>1, <2>2 DEF AcceptGoesOn, Timeout, LockServers, Search, CloseOld, Recreate,
       Announce, Add, Connect, Notify, Lists, AcceptPlaces
<1>7. \A t \in Threads : pc'[t] \in {pc[t], "drain"} \cup (AcceptPlaces \ {"ended"})
  <2>1. CASE Begin
    <3>1. \/ GoesTo("accept", "select")
          \/ pc' = [pc EXCEPT !["accept"] = "select", !["admin"] = "drain"]
      BY <2>1 DEF Begin
    <3> QED
      BY <3>1, ThreadNames DEF TypeOK, GoesTo, AcceptPlaces
  <2>2. CASE Accept
    <3>1. PICK pcm \in Managers : getFreeThreadedConnectionManager(pcm)
      BY <2>2 DEF Accept
    <3>2. \/ GoesTo("accept", "servers")
          \/ pc' = [pc EXCEPT !["accept"] = "servers", ![pcm] = "select"]
      BY <3>1 DEF getFreeThreadedConnectionManager
    <3> QED
      BY <3>2, ThreadNames DEF TypeOK, GoesTo, AcceptPlaces
  <2>3. ASSUME NEW place \in AcceptPlaces \ {"ended"}, GoesTo("accept", place)
        PROVE  \A t \in Threads : pc'[t] \in {pc[t], "drain"} \cup (AcceptPlaces \ {"ended"})
    BY <2>3, Elsewhere, ThreadNames
  <2> QED
    BY <1>6, <2>1, <2>2, <2>3
<1>8. pc'["main"] = pc["main"]
  <2>1. CASE Accept
    BY <2>1, ThreadNames DEF TypeOK, GoesTo, Accept, getFreeThreadedConnectionManager
  <2> QED
    BY <2>1, AcceptFrame, ThreadNames
<1> QED
  BY <1>2, <1>4, <1>5, <1>7, <1>8 DEF Alive, AcceptPlaces

LEMMA ListAlive ==
  ASSUME TypeOK, Alive, ListGoesOn \/ TasksAreDue
  PROVE  Alive'
<1> SUFFICES ASSUME ~finish["accept"] PROVE Alive'
  BY ListFrame DEF Alive
<1>1. finish' = finish /\ pc'["main"] = pc["main"]
  BY ListFrame, ThreadNames
<1>2. jqDestroyed' = jqDestroyed
  BY DEF ListGoesOn, TasksAreDue, ListEnd, TakeMessage, Message, Kick, Forward, Counters,
     CleanConnections, CleanEntry, CleanDeleted, PurgeConnections, PurgeEntry, PostToAdmin, queues
<1>3. pc'["list"] \notin {"ended", "undefined"}
  <2>1. ~ListEnd
    BY ThreadNames DEF Alive, ListEnd
  <2>2. ASSUME NEW place, GoesTo("list", place), place \notin {"ended", "undefined"}
        PROVE  pc'["list"] \notin {"ended", "undefined"}
    BY <2>2, Elsewhere, ThreadNames
  <2>3. ASSUME NEW n, NextTask(n) PROVE pc'["list"] \notin {"ended", "undefined"}
    BY <2>2, <2>3 DEF NextTask
  <2>4. ASSUME NEW n, NEW m, NEW place \in {"entry", "purging"}, Walks(n, place, m)
        PROVE  pc'["list"] \notin {"ended", "undefined"}
    BY <2>2, <2>3, <2>4 DEF Walks
  <2>5. CASE TakeMessage
    <3>1. Head(jq) \in {"kick", "news"}
      BY <2>5, HeadTailProperties DEF TypeOK, TakeMessage
    <3> QED
      BY <2>2, <2>5, <3>1 DEF TakeMessage
  <2> QED
    BY <2>1, <2>2, <2>3, <2>4, <2>5
    DEF ListGoesOn, TasksAreDue, Message, Kick, Forward, Counters,
        CleanConnections, CleanEntry, CleanDeleted, PurgeConnections, PurgeEntry
<1>4. \A t \in Threads \ {"list"} : pc'[t] = pc[t]
  BY ListFrame
<1> QED
  BY <1>1, <1>2, <1>3, <1>4 DEF Alive

LEMMA AdminAlive ==
  ASSUME TypeOK, Alive, AdminStep
  PROVE  Alive'
<1> SUFFICES ASSUME ~finish["accept"] PROVE Alive'
  BY AdminFrame DEF Alive
<1>1. ~jqDestroyed /\ ~finish["admin"]
  BY ThreadNames DEF Alive
<1>2. finish' = finish /\ pc'["main"] = pc["main"]
  BY AdminFrame, ThreadNames
<1>3. AdminMessage \/ Serve \/ AskRequest \/ Request
  BY <1>1 DEF AdminStep, PostToDestroyed
<1>4. jqDestroyed' = jqDestroyed
  BY <1>3 DEF AdminMessage, Serve, AskRequest, Request, queues
<1>5. pc' = pc \/ \E place \in {"serve", "drain", "request"} : GoesTo("admin", place)
  BY <1>1, <1>3 DEF AdminMessage, Serve, AskRequest, Request
<1>6. \A t \in Threads : pc'[t] \in {pc[t], "serve", "drain", "request"}
  BY <1>5, Elsewhere, ThreadNames
<1> QED
  BY <1>2, <1>4, <1>6 DEF Alive

LEMMA ManagerAlive ==
  ASSUME TypeOK, Alive, NEW m \in Managers, ManagerStep(m)
  PROVE  Alive'
<1> SUFFICES ASSUME ~finish["accept"] PROVE Alive'
  BY ManagerFrame DEF Alive
<1>1. ~jqDestroyed /\ ~finish[m]
  BY ThreadNames DEF Alive
<1>2. finish' = finish /\ pc'["main"] = pc["main"]
  BY ManagerFrame, ThreadNames
<1>3. Round(m) \/ Post(m)
  BY <1>1 DEF ManagerStep, PostToDestroyed
<1>4. jqDestroyed' = jqDestroyed
  BY <1>3 DEF Round, Post, queues
<1>5. pc' = pc \/ \E place \in {"select", "post"} : GoesTo(m, place)
  BY <1>1, <1>3 DEF Round, Post, Collect
<1>6. \A t \in Threads : pc'[t] \in {pc[t], "select", "post"}
  BY <1>5, Elsewhere, ThreadNames
<1> QED
  BY <1>2, <1>4, <1>6 DEF Alive

LEMMA MainAlive ==
  ASSUME TypeOK, Alive, MainStep
  PROVE  Alive'
<1>1. CASE Starts
  <2>1. PICK enabled, count : StartListening(enabled, count)
    BY <1>1 DEF Starts
  <2>2. finish' = finish /\ jqDestroyed' = jqDestroyed
    BY <2>1 DEF StartListening, queues
  <2>3. pc'["main"] = "running"
        /\ \A t \in Threads : pc'[t] \in {pc[t], "running", "begin", "top"}
    BY <2>1, ThreadNames DEF TypeOK, StartListening
  <2> QED
    BY <2>2, <2>3 DEF Alive
<1>2. CASE Stop
  <2>1. finish'["accept"] = TRUE
    BY <1>2, ThreadNames DEF TypeOK, Stop
  <2> QED
    BY <2>1 DEF Alive
<1>3. CASE MainGoesOn
  <2>1. pc["main"] \notin {"top", "running"}
    BY <1>3 DEF MainGoesOn, DestroyServerList, CleanLists, DestroyJq, DestroyManager, Wake,
       ManagerEnded, DestroyAdmin, AdminEnded, Passes
  <2>2. finish["accept"]
    BY <2>1 DEF Alive
  <2>3. finish' = finish \/ \E t : finish' = [finish EXCEPT ![t] = TRUE]
    BY <1>3 DEF MainGoesOn, DestroyServerList, CleanLists, DestroyJq, DestroyManager, Wake,
       ManagerEnded, DestroyAdmin, AdminEnded
  <2>4. finish'["accept"]
    BY <2>2, <2>3, ThreadNames DEF TypeOK
  <2> QED
    BY <2>4 DEF Alive
<1> QED
  BY <1>1, <1>2, <1>3 DEF MainStep

(***************************************************************************)
(* Started: what is waited for has been started.                           *)
(***************************************************************************)
LEMMA AcceptStarted ==
  ASSUME TypeOK, Order, Own, Chosen, Started, AcceptGoesOn
  PROVE  Started'
<1>1. UNCHANGED <<pc["list"], local["list"]>> /\ \A m \in Managers : pc'[m] = pc[m]
  BY AcceptFrame, ThreadNames
<1>2. Made' = Made /\ Made \subseteq Managers
  BY AcceptFrame, MadeIsManagers DEF Made
<1>3. adminEnabled' = adminEnabled
  BY DEF AcceptGoesOn, Begin, Timeout, LockServers, Search, CloseOld, Recreate,
     Announce, Add, Connect, Notify, config
<1>4. pc'["accept"] \notin {"none", "begin"}
  <2>1. CASE Begin
    BY <2>1, ThreadNames DEF TypeOK, Begin, GoesTo
  <2>2. ASSUME NEW place \in AcceptPlaces \ {"begin"}, GoesTo("accept", place)
        PROVE  pc'["accept"] \notin {"none", "begin"}
    BY <2>2, Elsewhere, ThreadNames DEF AcceptPlaces
  <2>3. NextRound => \E place \in AcceptPlaces \ {"begin"} : GoesTo("accept", place)
    BY DEF NextRound, AcceptPlaces
  <2>4. Choose => \E place \in AcceptPlaces \ {"begin"} : GoesTo("accept", place)
    BY <2>3 DEF Choose, AcceptPlaces
  <2>5. Begin \/ \E place \in AcceptPlaces \ {"begin"} : GoesTo("accept", place)
    BY <2>3, <2>4 DEF AcceptGoesOn, Timeout, LockServers, Search, CloseOld, Recreate,
       Announce, Add, Connect, Notify, Lists, AcceptPlaces
  <2> QED
    BY <2>1, <2>2, <2>5
<1>5. adminEnabled => pc'["admin"] /= "none"
  <2>1. CASE Begin
    BY <2>1, ThreadNames DEF TypeOK, Begin
  <2>2. CASE ~Begin
    <3>1. pc["accept"] \notin {"none", "begin"}
      BY <2>2 DEF AcceptGoesOn, Timeout, LockServers, Search, CloseOld, Recreate,
         Announce, Add, Connect, Notify, Passes
    <3> QED
      BY <3>1, BeginsAdmin DEF Started
  <2> QED
    BY <2>1, <2>2
<1>6. pc'["accept"] = "announce" => adminEnabled
  <2>1. ASSUME NEW place, GoesTo("accept", place), place /= "announce"
        PROVE  pc'["accept"] /= "announce"
    BY <2>1, Elsewhere, ThreadNames
  <2>2. CASE Begin
    BY <2>2, ThreadNames DEF TypeOK, Begin, GoesTo
  <2>3. NextRound => pc'["accept"] /= "announce"
    BY <2>1 DEF NextRound
  <2>4. Choose => adminEnabled \/ pc'["accept"] /= "announce"
    BY <2>1, <2>3 DEF Choose
  <2> QED
    BY <2>1, <2>2, <2>3, <2>4 DEF AcceptGoesOn, Timeout, LockServers, Search, CloseOld, Recreate,
       Announce, Add, Connect, Notify, Lists
<1>7. pc'["accept"] \in {"close", "notify"} => local'["accept"].aim \in Made
  <2>1. ASSUME NEW place, GoesTo("accept", place), place \notin {"close", "notify"}
        PROVE  pc'["accept"] \notin {"close", "notify"}
    BY <2>1, Elsewhere, ThreadNames
  <2>2. CASE Begin
    BY <2>2, ThreadNames DEF TypeOK, Begin, GoesTo
  <2>3. CASE NextRound \/ Choose
    BY <2>1, <2>3 DEF NextRound, Choose
  <2>4. ASSUME NEW m \in Made, Aim("accept", m) PROVE local'["accept"].aim \in Made
    BY <2>4, ThreadNames DEF TypeOK, Aim
  <2>5. CASE Connect
    <3>1. local["accept"].pcm \in Made
      BY <2>5 DEF Connect, Chosen, Serving
    <3> QED
      BY <2>4, <2>5, <3>1 DEF Connect
  <2> QED
    BY <2>1, <2>2, <2>3, <2>4, <2>5 DEF AcceptGoesOn, Timeout, LockServers, Search, CloseOld,
       Recreate, Announce, Add, Notify, Lists
<1> QED
  BY <1>1, <1>2, <1>3, <1>4, <1>5, <1>6, <1>7 DEF Started

LEMMA AcceptsStarted ==
  ASSUME TypeOK, Started, Accept
  PROVE  Started'
<1>1. PICK pcm \in Managers : getFreeThreadedConnectionManager(pcm)
  BY DEF Accept
<1>2. \/ GoesTo("accept", "servers") /\ m_list' = m_list
      \/ /\ pc' = [pc EXCEPT !["accept"] = "servers", ![pcm] = "select"]
         /\ m_list' = Append(m_list, pcm)
  BY <1>1 DEF getFreeThreadedConnectionManager
<1>3. /\ pc'["accept"] = "servers" /\ UNCHANGED <<pc["list"], pc["admin"]>>
      /\ \A m \in Managers : pc'[m] \in {pc[m], "select"}
      /\ m_list' = m_list \/ (m_list' = Append(m_list, pcm) /\ pc'[pcm] = "select")
  <2>1. CASE GoesTo("accept", "servers") /\ m_list' = m_list
    BY <2>1, Elsewhere, ThreadNames
  <2>2. CASE /\ pc' = [pc EXCEPT !["accept"] = "servers", ![pcm] = "select"]
             /\ m_list' = Append(m_list, pcm)
    BY <2>2, ThreadNames DEF TypeOK
  <2> QED
    BY <1>2, <2>1, <2>2
<1>4. Made \subseteq Made' /\ \A m \in Made' : m \in Made \/ (m = pcm /\ pc'[pcm] = "select")
  <2>1. m_list \in Seq(Managers)
    BY DEF TypeOK
  <2> QED
    BY <1>3, <2>1, AppendProperties DEF Made
<1>5. local'["list"] = local["list"]
  BY ThreadNames DEF TypeOK, Accept
<1>6. adminEnabled' = adminEnabled /\ pc["accept"] = "select"
  BY DEF Accept, config
<1> QED
  BY <1>3, <1>4, <1>5, <1>6, MadeIsManagers DEF Started

LEMMA ListStarted ==
  ASSUME TypeOK, Own, Started, ListGoesOn \/ TasksAreDue
  PROVE  Started'
<1>1. UNCHANGED <<pc["accept"], pc["admin"], local["accept"]>> /\ \A m \in Managers : pc'[m] = pc[m]
  BY ListFrame, ThreadNames
<1>2. UNCHANGED <<managers, config>> /\ Made' = Made /\ Made \subseteq Managers
  BY ListFrame, MadeIsManagers DEF Made, managers
<1>3. ASSUME NEW place, GoesTo("list", place) PROVE pc'["list"] = place
  BY <1>3, Elsewhere, ThreadNames
<1>4. ASSUME NEW n, NextTask(n) PROVE pc'["list"] \in {"top", "clean", "purge"}
  BY <1>3, <1>4 DEF NextTask
<1>5. CASE pc["accept"] \in {"none", "begin"}
  <2>1. /\ jq = <<>> /\ m_list = <<>> /\ ~listed
        /\ pc["list"] \in {"none", "top", "clean", "purge", "ended"}
    BY <1>5 DEF Started
  <2>2. Entries = {0}
    BY <2>1 DEF Entries
  <2>3. ASSUME NEW m, NEW place, Walks(0, place, m)
        PROVE  pc'["list"] \in {"top", "clean", "purge"}
    BY <1>4, <2>3 DEF Walks
  <2>4. ListEnd \/ TasksAreDue \/ CleanConnections \/ PurgeConnections
    BY <2>1 DEF ListGoesOn, TakeMessage, Message, Kick, Forward, Counters, CleanEntry,
       CleanDeleted, PurgeEntry, Passes
  <2>5. pc'["list"] \in {"top", "clean", "purge", "ended"}
    BY <1>3, <1>4, <2>2, <2>3, <2>4 DEF ListEnd, TasksAreDue, CleanConnections, PurgeConnections
  <2>6. jq' = jq
    BY <2>4 DEF ListEnd, TasksAreDue, CleanConnections, PurgeConnections, queues
  <2> QED
    BY <1>1, <1>2, <1>5, <2>1, <2>5, <2>6 DEF Started, managers, config
<1>6. CASE pc["accept"] \notin {"none", "begin"}
  <2>1. pc'["list"] \in {"forward", "deleted"} => adminEnabled
    <3>1. ASSUME NEW n, NEW m, NEW place \in {"entry", "purging"}, Walks(n, place, m)
          PROVE  pc'["list"] \notin {"forward", "deleted"}
      BY <1>3, <1>4, <3>1 DEF Walks
    <3>2. CASE TakeMessage
      <4>1. Head(jq) \in {"kick", "news"}
        BY <3>2, HeadTailProperties DEF TypeOK, TakeMessage
      <4> QED
        BY <1>3, <3>2, <4>1 DEF TakeMessage
    <3>3. CASE ListEnd \/ TasksAreDue
      BY <1>3, <1>4, <3>3 DEF ListEnd, TasksAreDue
    <3>4. CASE Message \/ Kick \/ Forward \/ Counters
      BY <1>3, <3>4 DEF Message, Kick, Forward, Counters
    <3>5. CASE CleanEntry
      BY <1>3, <3>1, <3>5 DEF CleanEntry
    <3> QED
      BY <3>1, <3>2, <3>3, <3>4, <3>5
      DEF ListGoesOn, CleanConnections, CleanDeleted, PurgeConnections, PurgeEntry
  <2>2. pc'["list"] \in {"kicking", "purging"} => local'["list"].aim \in Made
    <3>1. ASSUME NEW n, NEW m \in Made \cup {"nobody"}, Walks(n, "purging", m), n /= 0 => m \in Made
          PROVE  pc'["list"] \in {"kicking", "purging"} => local'["list"].aim \in Made
      <4>1. CASE n = 0
        BY <1>4, <3>1, <4>1 DEF Walks
      <4>2. CASE n /= 0
        BY <3>1, <4>2, ThreadNames DEF TypeOK, Walks
      <4> QED
        BY <4>1, <4>2
    <3>2. ASSUME NEW n, NEW m, Walks(n, "entry", m)
          PROVE  pc'["list"] \notin {"kicking", "purging"}
      BY <1>3, <1>4, <3>2 DEF Walks
    <3>3. CASE TakeMessage
      <4>1. Head(jq) \in {"kick", "news"}
        BY <3>3, HeadTailProperties DEF TypeOK, TakeMessage
      <4> QED
        BY <1>3, <3>3, <4>1 DEF TakeMessage
    <3>4. CASE ListEnd \/ TasksAreDue \/ Kick \/ Forward \/ Counters
      BY <1>3, <1>4, <3>4 DEF ListEnd, TasksAreDue, Kick, Forward, Counters
    <3>5. CASE Message
      <4>1. ASSUME NEW m \in Made, Aim("list", m) PROVE local'["list"].aim \in Made
        BY <4>1, ThreadNames DEF TypeOK, Aim
      <4> QED
        BY <1>3, <3>5, <4>1 DEF Message
    <3>6. CASE CleanEntry \/ CleanConnections \/ CleanDeleted
      BY <1>3, <3>2, <3>6 DEF CleanEntry, CleanConnections, CleanDeleted
    <3>7. CASE PurgeConnections
      <4>1. PICK n \in Entries, m \in Made \cup {"nobody"} :
              (n > 0 <=> m /= "nobody") /\ Walks(n, "purging", m)
        BY <3>7 DEF PurgeConnections
      <4>2. n \in Nat
        BY Bounds DEF Entries
      <4> QED
        BY <3>1, <4>1, <4>2
    <3>8. CASE PurgeEntry
      BY <3>1, <3>8 DEF PurgeEntry
    <3> QED
      BY <3>3, <3>4, <3>5, <3>6, <3>7, <3>8 DEF ListGoesOn
  <2> QED
    BY <1>1, <1>2, <1>6, <2>1, <2>2 DEF Started, config
<1> QED
  BY <1>5, <1>6

LEMMA AdminStarted ==
  ASSUME TypeOK, Own, Started, AdminStep
  PROVE  Started'
<1>1. UNCHANGED <<pc["accept"], pc["list"], local["accept"], local["list"]>>
      /\ \A m \in Managers : pc'[m] = pc[m]
  BY AdminFrame, ThreadNames
<1>2. UNCHANGED <<managers, config>> /\ Made' = Made /\ Made \subseteq Managers
  BY AdminFrame, MadeIsManagers DEF Made, managers
<1>3. pc["accept"] \notin {"none", "begin"} /\ pc'["admin"] /= "none"
  BY AdminFrame DEF Started, AdminPlaces
<1> QED
  BY <1>1, <1>2, <1>3 DEF Started, config

LEMMA ManagerStarted ==
  ASSUME TypeOK, Order, Own, Started, NEW m \in Managers, ManagerStep(m)
  PROVE  Started'
<1>1. UNCHANGED <<pc["accept"], pc["list"], pc["admin"], local["accept"], local["list"]>>
      /\ \A k \in Managers \ {m} : pc'[k] = pc[k]
  BY ManagerFrame, ThreadNames
<1>2. UNCHANGED <<m_list, config>> /\ Made' = Made /\ Made \subseteq Managers
  BY ManagerFrame, MadeIsManagers DEF Made
<1>3. pc'[m] /= "none"
  BY ManagerFrame DEF ManagerPlaces
<1>4. m \in Made
  BY ManagerFrame DEF Order
<1>5. pc["accept"] \notin {"none", "begin"}
  BY <1>4 DEF Started, Made
<1> QED
  BY <1>1, <1>2, <1>3, <1>5 DEF Started, config

LEMMA MainStarted ==
  ASSUME TypeOK, Order, Own, Started, MainStep
  PROVE  Started'
<1>1. CASE Starts
  <2>1. PICK enabled, count : StartListening(enabled, count)
    BY <1>1 DEF Starts
  <2>2. /\ pc'["main"] = "running" /\ pc'["accept"] = "begin" /\ pc'["list"] = "top"
        /\ pc'["admin"] = pc["admin"] /\ \A m \in Managers : pc'[m] = pc[m]
    BY <2>1, ThreadNames DEF TypeOK, StartListening
  <2>3. pc["accept"] = "none" /\ UNCHANGED <<queues, managers>> /\ Made' = Made
    BY <2>1 DEF StartListening, Order, Made, managers
  <2> QED
    BY <2>2, <2>3, MadeIsManagers DEF Started, queues, managers
<1> SUFFICES ASSUME ~Starts PROVE Started'
  BY <1>1
<1>2. UNCHANGED <<pc["accept"], pc["list"], pc["admin"], local["accept"], local["list"]>>
      /\ \A m \in Managers : pc'[m] = pc[m]
  BY MainFrame, ThreadNames
<1>3. UNCHANGED <<config, listed>>
  BY DEF MainStep, MainGoesOn, DestroyServerList, CleanLists, DestroyJq, DestroyManager, Wake,
     ManagerEnded, DestroyAdmin, AdminEnded, Stop, config, managers
<1>4. jq' = jq \/ jq' = <<>>
  BY DEF MainStep, MainGoesOn, DestroyServerList, CleanLists, DestroyJq, DestroyManager, Wake,
     ManagerEnded, DestroyAdmin, AdminEnded, Stop, queues
<1>5. CASE m_list' = m_list
  BY <1>2, <1>3, <1>4, <1>5, MadeIsManagers DEF Started, Made, config
<1>6. CASE ManagerEnded
  <2>1. pc["accept"] = "ended" /\ pc["list"] = "ended" /\ m_list /= <<>>
    BY <1>6 DEF ManagerEnded, Passes, Order, AfterAccept
  <2>2. Made' \subseteq Made
    <3>1. m_list' = Tail(m_list) /\ m_list \in Seq(Managers)
      BY <1>6 DEF ManagerEnded, TypeOK
    <3>2. /\ DOMAIN Tail(m_list) = 1..Len(Tail(m_list)) /\ Len(Tail(m_list)) = Len(m_list) - 1
          /\ \A i \in 1..Len(Tail(m_list)) : Tail(m_list)[i] = m_list[i + 1]
          /\ DOMAIN m_list = 1..Len(m_list) /\ Len(m_list) \in Nat
      BY <2>1, <3>1, HeadTailProperties
    <3>3. ASSUME NEW i \in DOMAIN m_list' PROVE m_list'[i] \in Made
      <4>1. i + 1 \in DOMAIN m_list /\ m_list'[i] = m_list[i + 1]
        BY <3>1, <3>2
      <4> QED
        BY <4>1 DEF Made
    <3> QED
      BY <3>3 DEF Made
  <2> QED
    BY <1>2, <1>3, <2>1, <2>2, MadeIsManagers DEF Started, config
<1> QED
  BY <1>5, <1>6 DEF MainStep, MainGoesOn, DestroyServerList, CleanLists, DestroyJq,
     DestroyManager, Wake, DestroyAdmin, AdminEnded, Stop, managers

(***************************************************************************)
(* All steps together, and the theorems.                                   *)
(***************************************************************************)
LEMMA Initially == Init => Inv
<1> SUFFICES ASSUME Init PROVE Inv
  OBVIOUS
<1>1. TypeOK
  <2>1. pc \in [Threads -> Places]
    BY PlaceNames DEF Init
  <2>2. lock \in [Locks -> [reading : SUBSET Threads, writing : SUBSET Threads]]
    BY DEF Init
  <2>3. jq \in Seq({"kick", "news"}) /\ Len(jq) <= JqLimit /\ m_list \in Seq(Managers)
    BY EmptySeq, Bounds DEF Init
  <2>4. local \in LocalType
    BY Bounds DEF Init, LocalType
  <2>5. finish \in [Threads -> BOOLEAN] /\ serving \subseteq Managers
    BY DEF Init
  <2>6. pipe \in [Managers -> 0..PipeSize] /\ admin_jq \in 0..AdminJqLimit
        /\ addresses \in 0..MaxAddresses
    BY Bounds DEF Init
  <2>7. jqDestroyed \in BOOLEAN /\ listed \in BOOLEAN /\ adminEnabled \in BOOLEAN
    BY DEF Init
  <2> QED
    BY <2>1, <2>2, <2>3, <2>4, <2>5, <2>6, <2>7 DEF TypeOK, LocalType
<1>2. pc["main"] = "top" /\ \A t \in Threads \ {"main"} : pc[t] = "none"
  BY ThreadNames DEF Init
<1>3. m_list = <<>> /\ Made = {}
  BY DEF Init, Made
<1>4. \A l \in Locks : lock[l].reading = {} /\ lock[l].writing = {}
  BY DEF Init
<1>6. Walking /\ Order
  BY <1>2, <1>3, ThreadNames DEF Walking, Order, AfterAccept
<1>7. Held
  BY <1>2, <1>4 DEF Held, Holders, Locks
<1>8. Chosen
  BY <1>2, ThreadNames DEF Chosen, Serving
<1>9. Own /\ Alive
  BY <1>2, ThreadNames DEF Own, Alive, Init, AfterAccept
<1>10. Started
  BY <1>2, <1>3, ThreadNames DEF Started, Init
<1> QED
  BY <1>1, <1>6, <1>7, <1>8, <1>9, <1>10 DEF Inv

LEMMA Preserved == Inv /\ [Next]_vars => Inv'
<1> SUFFICES ASSUME Inv, [Next]_vars PROVE Inv'
  OBVIOUS
<1> USE DEF Inv
<1>1. CASE AcceptGoesOn
  <2>1. TypeOK'
    BY <1>1, AcceptTypes
  <2> QED
    BY <1>1, <2>1, AcceptWalking, AcceptOrder, AcceptHeld, AcceptChosen,
       ThreadsOwn, AcceptAlive, AcceptStarted
<1>2. CASE Accept
  BY <1>2, AcceptsTypes, AcceptWalking, AcceptsOrder, AcceptHeld, AcceptsChosen,
     AcceptsOwn, AcceptAlive, AcceptsStarted
<1>3. CASE ListGoesOn \/ TasksAreDue
  BY <1>3, ListTypes, ListWalking, ListOrder, ListHeld, OthersChosen,
     ThreadsOwn, ListAlive, ListStarted
<1>4. CASE AdminStep
  <2>1. TypeOK'
    BY <1>4, AdminTypes, DestroyedTypes DEF AdminStep
  <2>2. Held'
    BY <1>4, AdminFrame, OthersHold, ThreadNames
  <2> QED
    BY <1>4, <2>1, <2>2, OthersWalking, AdminOrder, OthersChosen,
       ThreadsOwn, AdminAlive, AdminStarted
<1>5. ASSUME NEW m \in Managers, ManagerStep(m) PROVE Inv'
  <2>1. TypeOK'
    BY <1>5, ManagerTypes, DestroyedTypes DEF ManagerStep
  <2>2. Held'
    BY <1>5, ManagerFrame, OthersHold, ThreadNames
  <2> QED
    BY <1>5, <2>1, <2>2, ManagerWalking, ManagerOrder, ManagerChosen,
       ManagerOwn, ManagerAlive, ManagerStarted
<1>6. CASE MainStep
  <2>1. TypeOK'
    BY <1>6, MainTypes DEF MainStep, Order
  <2> QED
    BY <1>6, <2>1, OthersWalking, MainOrder, MainHeld, MainChosen,
       MainOwn, MainAlive, MainStarted
<1>7. CASE UNCHANGED vars
  <2>1. UNCHANGED <<pc, lock, queues, pipe, managers, finish, config, local>>
    BY <1>7 DEF vars
  <2>2. TypeOK'
    BY <2>1 DEF TypeOK, queues, managers, config
  <2>3. Walking' /\ Held'
    BY <2>1 DEF Walking, Held, Holders
  <2>4. Order' /\ Chosen'
    BY <2>1 DEF Order, Chosen, Made, managers
  <2>5. Own' /\ Alive' /\ Started'
    BY <2>1 DEF Own, Alive, Started, Made, queues, managers, config
  <2> QED
    BY <2>2, <2>3, <2>4, <2>5
<1> QED
  BY <1>1, <1>2, <1>3, <1>4, <1>5, <1>6, <1>7
  DEF Next, Runs, Arrives, AdminGoesOn, ManagerGoesOn, AdminStep, ManagerStep, MainStep

(* The invariant of Bind that the theorems follow from: in every state, all *)
(* variables have their types, a walk that waits has an entry left, threads *)
(* end in the order of ~Bind, each lock is held only at the places it may   *)
(* be, and the manager of a client is made and stays.                       *)
THEOREM Invariance == Spec => []Inv
<1>1. Init => Inv
  BY Initially
<1>2. Inv /\ [Next]_vars => Inv'
  BY Preserved
<1> QED
  BY <1>1, <1>2, PTL DEF Spec

(* When ~ServerList cleans the lists, accept and list have ended and nobody *)
(* holds a lock; when main ends, every thread has (Bind.h, ServerList.h:    *)
(* the order of the members).                                               *)
THEOREM Destruction == Spec => []UsersEndFirst
<1>1. Inv => UsersEndFirst
  <2> SUFFICES ASSUME Inv, pc["main"] \in AfterAccept \ {"joinList"}
      PROVE  /\ pc["accept"] = "ended" /\ pc["list"] = "ended"
             /\ \A l \in Locks : Holders(l) = {}
             /\ pc["main"] = "ended" => \A t \in Threads \ {"main"} : pc[t] \in {"none", "ended"}
    BY DEF Inv, UsersEndFirst, AfterAccept
  <2>1. pc["accept"] = "ended" /\ pc["list"] = "ended"
    BY DEF Inv, Order
  <2>2. \A l \in Locks : Holders(l) = {}
    BY <2>1 DEF Inv, Held, Holders, Locks
  <2>3. pc["main"] = "ended" => \A t \in Threads \ {"main"} : pc[t] \in {"none", "ended"}
    BY <2>1 DEF Inv, Order, Made, Threads
  <2> QED
    BY <2>1, <2>2, <2>3
<1> QED
  BY <1>1, Invariance, PTL

(***************************************************************************)
(* Who waits for whom.                                                     *)
(***************************************************************************)
LEMMA LocksWanted ==
  ASSUME NEW t
  PROVE  /\ pc[t] \in WritesServers => BlockedBy(t) = Holders("servers")
         /\ pc[t] \in WritesPeers => BlockedBy(t) = Holders("peers")
         /\ pc[t] \in ReadsServers => BlockedBy(t) = lock["servers"].writing
         /\ pc[t] \in ReadsPeers => BlockedBy(t) = lock["peers"].writing
<1>1. /\ pc[t] \in WritesServers => pc[t] \notin WritesPeers \cup ReadsServers \cup ReadsPeers
      /\ pc[t] \in WritesPeers => pc[t] \notin ReadsServers \cup ReadsPeers
      /\ pc[t] \in ReadsServers => pc[t] \notin ReadsPeers
  BY DEF WritesServers, WritesPeers, ReadsServers, ReadsPeers
<1>2. pc[t] \in WritesServers \cup WritesPeers \cup ReadsServers \cup ReadsPeers =>
        pc[t] \notin PostsToAdmin \cup PostsToList \cup WritesPipe \cup Joins
  BY Apart
<1> QED
  BY <1>1, <1>2 DEF BlockedBy

(* main waits only after a stop ... *)
LEMMA MainWaits ==
  ASSUME Inv, NEW u \in BlockedBy("main")
  PROVE  finish["accept"]
<1>1. ASSUME pc["main"] \in {"top", "running"} PROVE BlockedBy("main") = {}
  BY <1>1 DEF BlockedBy, WritesServers, WritesPeers, ReadsServers, ReadsPeers, PostsToAdmin,
     PostsToList, WritesPipe, Joins
<1> QED
  BY <1>1 DEF Inv, Alive

(* accept waits for a lock of list, or for room in a queue that is full. *)
LEMMA AcceptWaits ==
  ASSUME Inv, NEW u \in BlockedBy("accept")
  PROVE  \/ /\ u = "list" /\ "list" \in Holders("peers")
            /\ pc["accept"] \in {"search", "recreate", "add"}
         \/ u = "admin" /\ admin_jq = AdminJqLimit /\ pc["accept"] = "announce"
         \/ u \in Made /\ pipe[u] = PipeSize /\ pc["accept"] \in {"close", "notify"}
<1>1. pc["accept"] \in AcceptPlaces \cup {"none"} /\ lock["servers"].writing = {}
      /\ Holders("peers") \subseteq {"accept", "list"}
      /\ ("accept" \in Holders("peers") => pc["accept"] \in {"close", "announce"})
  BY DEF Inv, Own, Held
<1>2. CASE pc["accept"] \in {"none", "begin", "select", "connect", "ended"}
  <2>1. BlockedBy("accept") = {}
    BY <1>2 DEF BlockedBy, WritesServers, WritesPeers, ReadsServers, ReadsPeers, PostsToAdmin,
       PostsToList, WritesPipe, Joins
  <2> QED
    BY <2>1
<1>3. CASE pc["accept"] = "servers"
  <2>1. BlockedBy("accept") = lock["servers"].writing
    BY <1>3, LocksWanted DEF ReadsServers
  <2> QED
    BY <1>1, <2>1
<1>4. CASE pc["accept"] \in {"search", "recreate", "add"}
  <2>1. BlockedBy("accept") \subseteq Holders("peers")
    BY <1>4, LocksWanted DEF ReadsPeers, WritesPeers, Holders
  <2> QED
    BY <1>1, <1>4, <2>1
<1>5. CASE pc["accept"] = "announce"
  <2>1. BlockedBy("accept") = IF admin_jq < AdminJqLimit THEN {} ELSE {"admin"}
    BY <1>5, Apart DEF BlockedBy, PostsToAdmin
  <2>2. admin_jq \in 0..AdminJqLimit
    BY DEF Inv, TypeOK
  <2> QED
    BY <1>5, <2>1, <2>2, Bounds
<1>6. CASE pc["accept"] \in {"close", "notify"}
  <2> DEFINE m == local["accept"].aim
  <2>1. BlockedBy("accept") = IF pipe[m] < PipeSize THEN {} ELSE {m}
    BY <1>6, Apart DEF BlockedBy, WritesPipe
  <2>2. m \in Made
    BY <1>6 DEF Inv, Started
  <2>3. pipe[m] \in 0..PipeSize
    BY <2>2, MadeIsManagers DEF Inv, TypeOK
  <2> HIDE DEF m
  <2> QED
    BY <1>6, <2>1, <2>2, <2>3, Bounds
<1> QED
  BY <1>1, <1>2, <1>3, <1>4, <1>5, <1>6 DEF AcceptPlaces

(* list waits for a lock of accept, or for room in a queue that is full. *)
LEMMA ListWaits ==
  ASSUME Inv, NEW u \in BlockedBy("list")
  PROVE  \/ u = "accept" /\ "accept" \in Holders("peers")
         \/ u = "admin" /\ admin_jq = AdminJqLimit /\ pc["list"] \in {"forward", "deleted"}
         \/ u \in Made /\ pipe[u] = PipeSize /\ pc["list"] \in {"kicking", "purging"}
<1>1. pc["list"] \in ListPlaces \cup {"none"} /\ lock["servers"].writing = {}
      /\ Holders("peers") \subseteq {"accept", "list"}
      /\ ("list" \in Holders("peers") =>
            pc["list"] \in {"kicking", "forward", "counters", "entry", "deleted", "purging"})
  BY DEF Inv, Own, Held
<1>2. CASE pc["list"] \in {"none", "top", "ended"}
  <2>1. BlockedBy("list") = {}
    BY <1>2 DEF BlockedBy, WritesServers, WritesPeers, ReadsServers, ReadsPeers, PostsToAdmin,
       PostsToList, WritesPipe, Joins
  <2> QED
    BY <2>1
<1>3. CASE pc["list"] \in {"counters", "entry"}
  <2>1. BlockedBy("list") = lock["servers"].writing
    BY <1>3, LocksWanted DEF ReadsServers
  <2> QED
    BY <1>1, <2>1
<1>4. CASE pc["list"] \in {"kick", "news", "clean", "purge"}
  <2>1. BlockedBy("list") \subseteq Holders("peers")
    BY <1>4, LocksWanted DEF ReadsPeers, WritesPeers, Holders
  <2> QED
    BY <1>1, <1>4, <2>1
<1>5. CASE pc["list"] \in {"forward", "deleted"}
  <2>1. BlockedBy("list") = IF admin_jq < AdminJqLimit THEN {} ELSE {"admin"}
    BY <1>5, Apart DEF BlockedBy, PostsToAdmin
  <2>2. admin_jq \in 0..AdminJqLimit
    BY DEF Inv, TypeOK
  <2> QED
    BY <1>5, <2>1, <2>2, Bounds
<1>6. CASE pc["list"] \in {"kicking", "purging"}
  <2> DEFINE m == local["list"].aim
  <2>1. BlockedBy("list") = IF pipe[m] < PipeSize THEN {} ELSE {m}
    BY <1>6, Apart DEF BlockedBy, WritesPipe
  <2>2. m \in Made
    BY <1>6 DEF Inv, Started
  <2>3. pipe[m] \in 0..PipeSize
    BY <2>2, MadeIsManagers DEF Inv, TypeOK
  <2> HIDE DEF m
  <2> QED
    BY <1>6, <2>1, <2>2, <2>3, Bounds
<1> QED
  BY <1>1, <1>2, <1>3, <1>4, <1>5, <1>6 DEF ListPlaces

(* The admin and the managers wait for ServerList's queue only. *)
LEMMA PostersWait ==
  ASSUME Inv, NEW t \in Managers \cup {"admin"}, NEW u \in BlockedBy(t)
  PROVE  u = "list" /\ Full(jq)
<1>1. pc[t] \in {"none", "drain", "serve", "request", "ended", "undefined", "select", "post"}
  BY DEF Inv, Own, AdminPlaces, ManagerPlaces
<1>2. CASE pc[t] \in {"request", "post"}
  <2>1. BlockedBy(t) = IF Full(jq) THEN {"list"} ELSE {}
    BY <1>2, Apart DEF BlockedBy, PostsToList
  <2> QED
    BY <2>1
<1>3. CASE pc[t] \in {"none", "drain", "serve", "ended", "undefined", "select"}
  <2>1. BlockedBy(t) = {}
    BY <1>3 DEF BlockedBy, WritesServers, WritesPeers, ReadsServers, ReadsPeers, PostsToAdmin,
       PostsToList, WritesPipe, Joins
  <2> QED
    BY <2>1
<1> QED
  BY <1>1, <1>2, <1>3

(* ... and not for itself. *)
LEMMA MainWaitsFor ==
  ASSUME Inv, NEW u \in BlockedBy("main")
  PROVE  u /= "main"
<1>1. CASE pc["main"] \in WritesServers \cup WritesPeers
  <2>1. BlockedBy("main") \subseteq Holders("servers") \cup Holders("peers")
    BY <1>1, LocksWanted
  <2> QED
    BY <2>1 DEF Inv, Held, Holders
<1>2. CASE pc["main"] = "wake"
  <2>1. BlockedBy("main") \subseteq {local["main"].aim}
    BY <1>2, Apart DEF BlockedBy, WritesPipe
  <2>2. local["main"].aim \in Managers
    BY <1>2, HeadTailProperties DEF Inv, Order, TypeOK
  <2> QED
    BY <2>1, <2>2, ThreadNames
<1>3. CASE pc["main"] \in Joins
  <2>1. BlockedBy("main") \subseteq {Joined("main")}
    BY <1>3, Apart DEF BlockedBy
  <2>2. pc["main"] = "joinManager" => local["main"].aim \in Managers
    BY HeadTailProperties DEF Inv, Order, TypeOK
  <2>3. Joined("main") /= "main"
    BY <1>3, <2>2, ThreadNames DEF Joined, Joins
  <2> QED
    BY <2>1, <2>3
<1>4. CASE pc["main"] \in {"top", "running", "destroy", "ended"}
  <2>1. BlockedBy("main") = {}
    BY <1>4 DEF BlockedBy, WritesServers, WritesPeers, ReadsServers, ReadsPeers, PostsToAdmin,
       PostsToList, WritesPipe, Joins
  <2> QED
    BY <2>1
<1> QED
  BY <1>1, <1>2, <1>3, <1>4 DEF Inv, Own, AfterAccept, WritesServers, WritesPeers, Joins

(* Around a circle: main is outside of it, and the admin and the managers wait   *)
(* for list.  Of accept and list one waits for a queue, since a lock that one of *)
(* them waits for is the other's, who then waits for a full queue or a pipe.     *)
LEMMA CirclesNeedQueues ==
  ASSUME Inv, NEW some \in SUBSET Waiting, Circular(some)
  PROVE  /\ "list" \in some /\ Full(jq)
         /\ \/ admin_jq = AdminJqLimit
            \/ \E m \in some \cap Managers : pipe[m] = PipeSize
<1>1. some \subseteq Threads /\ some /= {} /\ \A t \in some : \E u \in some : u \in BlockedBy(t)
  BY DEF Waiting, Circular
<1>2. ASSUME NEW t \in some, t \in Managers \cup {"admin"} PROVE "list" \in some /\ Full(jq)
  BY <1>1, <1>2, PostersWait
<1>3. \E t \in some : t \in {"accept", "list", "admin"} \cup Managers
  BY <1>1, MainWaitsFor DEF Threads
<1>4. Made \subseteq Managers
  BY MadeIsManagers DEF Inv
<1>5. ASSUME "accept" \in some, "accept" \in Holders("peers")
      PROVE  \/ admin_jq = AdminJqLimit /\ "admin" \in some
             \/ \E m \in some \cap Managers : pipe[m] = PipeSize
  <2>1. pc["accept"] \in {"close", "announce"}
    BY <1>5 DEF Inv, Held
  <2> QED
    BY <1>1, <1>4, <1>5, <2>1, AcceptWaits
<1>6. ASSUME "list" \in some
      PROVE  \/ admin_jq = AdminJqLimit /\ "admin" \in some
             \/ \E m \in some \cap Managers : pipe[m] = PipeSize
  BY <1>1, <1>4, <1>5, <1>6, ListWaits
<1>7. \E t \in some : t \in Managers \cup {"admin"}
  BY <1>1, <1>3, <1>4, <1>6, AcceptWaits
<1> QED
  BY <1>2, <1>6, <1>7

(* Before a stop, nobody waits for a thread that is not there. *)
LEMMA NobodyIsAbandoned ==
  ASSUME Inv, Abandoned
  PROVE  finish["accept"]
<1> SUFFICES ASSUME ~finish["accept"] PROVE FALSE
  OBVIOUS
<1>0. PICK t \in Threads : \E u \in BlockedBy(t) : pc[u] \in {"none", "ended", "undefined"}
  BY DEF Abandoned, Waiting
<1>1. PICK u \in BlockedBy(t) : pc[u] \in {"none", "ended", "undefined"}
  BY <1>0
<1>2. t /= "main"
  BY <1>1, MainWaits
<1>3. \A v \in Threads : pc[v] \notin {"ended", "undefined"}
  BY DEF Inv, Alive
<1>4. Made \subseteq Managers /\ \A m \in Made : pc[m] /= "none"
  BY MadeIsManagers DEF Inv, Started
<1>5. "list" \in Holders("peers") => pc["list"] /= "none"
  BY DEF Inv, Held
<1>6. "accept" \in Holders("peers") => pc["accept"] /= "none"
  BY DEF Inv, Held
<1>7. pc["accept"] = "announce" \/ pc["list"] \in {"forward", "deleted"} => pc["admin"] /= "none"
  BY DEF Inv, Started
<1>8. Full(jq) => pc["list"] /= "none"
  <2>1. ASSUME pc["list"] = "none" PROVE ~Full(jq)
    <3>1. pc["main"] = "top"
      BY <2>1 DEF Inv, Order
    <3>2. pc["accept"] = "none"
      BY <3>1 DEF Inv, Order
    <3>3. jq = <<>>
      BY <3>2 DEF Inv, Started
    <3> QED
      BY <3>3, BindAssumption, EmptySeq DEF Full
  <2> QED
    BY <2>1
<1>9. CASE t = "accept"
  <2>1. u \in BlockedBy("accept")
    BY <1>1, <1>9
  <2>2. pc[u] = "none" \/ u \notin Threads
    BY <1>1, <1>3
  <2> QED
    BY <1>4, <1>5, <1>7, <2>1, <2>2, AcceptWaits, ThreadNames
<1>10. CASE t = "list"
  <2>1. u \in BlockedBy("list")
    BY <1>1, <1>10
  <2>2. pc[u] = "none" \/ u \notin Threads
    BY <1>1, <1>3
  <2> QED
    BY <1>4, <1>6, <1>7, <2>1, <2>2, ListWaits, ThreadNames
<1>11. CASE t \in Managers \cup {"admin"}
  BY <1>1, <1>3, <1>8, <1>11, PostersWait, ThreadNames
<1> QED
  BY <1>1, <1>2, <1>9, <1>10, <1>11 DEF Threads

(* With any number of managers and queues of any size: the locks alone      *)
(* never stop the threads, and nobody waits for a thread that has not been  *)
(* started, or has ended, before a stop (the order of the locks of          *)
(* ServerList::getServer, processMessage and cleanConnections).             *)
THEOREM Waits == Spec => []OnlyFullQueuesStop
<1>1. Inv => OnlyFullQueuesStop
  BY CirclesNeedQueues, NobodyIsAbandoned DEF OnlyFullQueuesStop
<1> QED
  BY <1>1, Invariance, PTL

(***************************************************************************)
(* The program is a Bind: whatever a configuration file says, the Bind is  *)
(* started with what StartListening takes, and nothing but its own threads *)
(* changes it.                                                             *)
(***************************************************************************)

(***************************************************************************)
(* What the configuration can become: the setting that startListening is   *)
(* told has its type, before and after the hand-over.                      *)
(***************************************************************************)
Settled(s) == "admin" \in DOMAIN s /\ s.admin.enabled \in BOOLEAN

Told == Settled(settings) /\ Settled(running.settings)

LEMMA DefaultsSettled == Settled(Defaults)
<1> DEFINE admin == [enabled |-> FALSE, ip |-> "any", port |-> 8182]
<1>1. admin.enabled \in BOOLEAN
  OBVIOUS
<1>2. Defaults = [admin |-> admin, retryserver |-> 30, conperthread |-> 16]
  BY DEF Defaults
<1> HIDE DEF admin
<1>3. "admin" \in DOMAIN Defaults /\ Defaults.admin = admin
  BY <1>2
<1> QED
  BY <1>1, <1>3 DEF Settled

LEMMA LinesSettle ==
  ASSUME Told, NEW l \in Lines, processConfigLine(l)
  PROVE  Settled(settings')
<1>1. CASE UNCHANGED settings
  BY <1>1 DEF Told
<1>2. CASE AdminLine(l) /\ settings' /= settings
  <2> DEFINE at == Listens(l, "127.0.0.1")
             admin == [enabled |-> TRUE, ip |-> at.ip, port |-> at.port]
  <2>1. settings' = [settings EXCEPT !.admin = admin]
    BY <1>2 DEF AdminLine
  <2>2. admin.enabled = TRUE
    OBVIOUS
  <2> HIDE DEF admin
  <2> QED
    BY <2>1, <2>2 DEF Told, Settled, Defaults
<1>3. CASE RetryLine(l) \/ ConPerThreadLine(l)
  <2>1. \E n : \/ settings' = [settings EXCEPT !.retryserver = n]
               \/ settings' = [settings EXCEPT !.conperthread = n]
    BY <1>3 DEF RetryLine, ConPerThreadLine
  <2> QED
    BY <2>1 DEF Told, Settled
<1> QED
  BY <1>1, <1>2, <1>3
  DEF processConfigLine, BindLine, ServerLine, FilterLine, TaskLine

LEMMA ToldPreserved == Told /\ [ProgramNext]_programVars => Told'
<1> SUFFICES ASSUME Told, [ProgramNext]_programVars PROVE Told'
  OBVIOUS
<1>1. ASSUME settings' \in {settings, Defaults}, UNCHANGED running PROVE Told'
  BY <1>1, DefaultsSettled DEF Told
<1>2. CASE UNCHANGED configVars
  BY <1>2 DEF configVars, Told
<1>3. CASE ReadArguments \/ OpenFile \/ ReadFails \/ EndOfFile \/ checkConfig
  BY <1>1, <1>3
  DEF ReadArguments, OpenFile, ReadFails, NotLoaded, setDefaultValues, EndOfFile, checkConfig
<1>4. CASE ReadLine
  BY <1>4, LinesSettle DEF ReadLine, Told
<1>5. CASE SetUp
  <2>1. running'.settings = settings /\ UNCHANGED settings
    BY <1>5 DEF SetUp
  <2> QED
    BY <2>1 DEF Told
<1>6. CASE StartBind
  <2>1. running'.settings = Defaults /\ settings' = Defaults
    BY <1>6 DEF StartBind
  <2> QED
    BY <2>1, DefaultsSettled DEF Told
<1> QED
  BY <1>2, <1>3, <1>4, <1>5, <1>6
  DEF ProgramNext, programVars, Configure, ConfigNext, RunBind, StopFromConsole,
      StopWithoutConsole

(* The threads of the program are those of a Bind: reading the configuration *)
(* leaves them alone, main hands over settings that startListening may get   *)
(* (main.cpp), and both ends of main are ~Bind.                              *)
THEOREM ProgramIsBind == ProgramSpec => Spec
<1>1. ProgramInit => Init /\ Told
  BY DefaultsSettled DEF ProgramInit, ConfigInit, Told
<1>2. Told /\ [ProgramNext]_programVars => Told'
  BY ToldPreserved
<1>3. Told /\ [ProgramNext]_programVars => [Next]_vars
  <2> SUFFICES ASSUME Told, [ProgramNext]_programVars PROVE [Next]_vars
    OBVIOUS
  <2>1. CASE StartBind
    <3>1. StartListening(running.settings.admin.enabled, Len(running.bind.address))
      BY <2>1 DEF StartBind
    <3>2. Len(running.bind.address) \in 1..MaxAddresses
      BY <3>1 DEF StartListening
    <3> QED
      BY <3>1, <3>2 DEF Told, Settled, Next, Starts
  <2>2. CASE Configure \/ UNCHANGED programVars
    BY <2>2 DEF Configure, programVars
  <2>3. CASE RunBind \/ StopFromConsole \/ StopWithoutConsole
    BY <2>3 DEF RunBind, StopFromConsole, StopWithoutConsole, Next
  <2> QED
    BY <2>1, <2>2, <2>3 DEF ProgramNext
<1> QED
  BY <1>1, <1>2, <1>3, PTL DEF ProgramSpec, Spec

(* The program, for every file, any bounds and whenever it is stopped:      *)
(* what is checked of it on a small instance (Bind.cpp, ServerList.cpp,     *)
(* ThreadedConnectionManagerList.cpp under main.cpp).                       *)
THEOREM ProgramIsSafe ==
  ProgramSpec => [](UsersEndFirst /\ OnlyFullQueuesStop)
  BY ProgramIsBind, Destruction, Waits, PTL

(***************************************************************************)
(* The Bind is told what the configuration says.  The lines are read one   *)
(* after the other: what each adds to the binds and the settings is what   *)
(* it adds to what is written, as ConfiguredAsWritten says it of the whole *)
(* text.  The first bind is complete when a second one begins.             *)
(***************************************************************************)
(* What a line adds to what is written before it. *)
LEMMA ValuesGrow ==
  ASSUME NEW s \in Seq(Lines), NEW l \in Lines, NEW valid, NEW value, NEW V,
         \A k \in Lines : value[k] \in V
  PROVE  /\ Values(s, valid, value) \in Seq(V)
         /\ Values(Append(s, l), valid, value) =
              IF l \in valid THEN Append(Values(s, valid, value), value[l])
              ELSE Values(s, valid, value)
<1> DEFINE those == Projection(s, valid)
           more == Append(those, l)
           Each(r) == [i \in DOMAIN r |-> value[r[i]]]
<1>1. those \in Seq(Lines)
  BY ProjectedMembers
<1>2. Projection(Append(s, l), valid) = IF l \in valid THEN more ELSE those
  BY ProjectionGrows
<1> HIDE DEF those
<1>3. PICK n \in Nat : n = Len(those)
  BY <1>1
<1>4. DOMAIN those = 1 .. n /\ \A i \in 1 .. n : those[i] \in Lines
  BY <1>1, <1>3
<1>5. more \in Seq(Lines) /\ DOMAIN more = 1 .. n + 1
      /\ more[n + 1] = l /\ \A i \in 1 .. n : more[i] = those[i]
  BY <1>1, <1>3
<1> HIDE DEF more
<1>6. Each(those) = [i \in 1 .. n |-> value[those[i]]]
  BY <1>4
<1>7. Each(those) \in Seq(V)
  <2>1. \A i \in 1 .. n : value[those[i]] \in V
    BY <1>4
  <2> DEFINE at(i) == value[those[i]]
  <2>2. \A i \in 1 .. n : at(i) \in V
    BY <2>1
  <2> HIDE DEF at
  <2>3. [i \in 1 .. n |-> at(i)] \in Seq(V)
    BY <2>2, SeqDef
  <2>4. QED BY <1>6, <2>3 DEF at
<1>8. Each(more) = Append(Each(those), value[l])
  <2> DEFINE a == Each(those)
             b == Each(more)
  <2>1. b = [i \in 1 .. n + 1 |-> value[more[i]]]
    BY <1>5
  <2>2. /\ a \in Seq(V) /\ Len(a) = n
        /\ \A i \in 1 .. n : a[i] = value[those[i]]
    BY <1>3, <1>6, <1>7
  <2> HIDE DEF a
  <2>3. \A i \in 1 .. n + 1 : b[i] = Append(a, value[l])[i]
    <3>1. \A i \in 1 .. n : b[i] = a[i] /\ Append(a, value[l])[i] = a[i]
      <4> SUFFICES ASSUME NEW i \in 1 .. n PROVE b[i] = a[i] /\ Append(a, value[l])[i] = a[i]
        OBVIOUS
      <4>1. more[i] = those[i]
        BY <1>5
      <4>2. b[i] = value[those[i]]
        BY <2>1, <4>1
      <4>3. value[l] \in V
        OBVIOUS
      <4>4. Append(a, value[l])[i] = a[i]
        BY <2>2, <4>3
      <4> HIDE DEF b
      <4>5. QED BY <2>2, <4>2, <4>4
    <3>2. b[n + 1] = value[l]
      BY <1>5, <2>1
    <3>3. Append(a, value[l])[n + 1] = value[l]
      <4>1. value[l] \in V
        OBVIOUS
      <4>2. QED BY <2>2, <4>1
    <3> HIDE DEF b
    <3>4. \A i \in 1 .. n + 1 : i \in 1 .. n \/ i = n + 1
      OBVIOUS
    <3> DEFINE c == Append(a, value[l])
    <3>5. (\A i \in 1 .. n : b[i] = c[i]) /\ b[n + 1] = c[n + 1]
      BY <3>1, <3>2, <3>3
    <3> HIDE DEF c
    <3>6. \A i \in 1 .. n + 1 : b[i] = c[i]
      BY <3>4, <3>5
    <3>7. QED BY <3>6 DEF c
  <2>4. Append(a, value[l]) \in Seq(V) /\ Len(Append(a, value[l])) = n + 1
    <3>1. value[l] \in V
      OBVIOUS
    <3>2. QED BY <2>2, <3>1
  <2>5. Append(a, value[l]) = [i \in 1 .. n + 1 |-> Append(a, value[l])[i]]
    <3> DEFINE c == Append(a, value[l])
    <3>1. c \in Seq(V) /\ Len(c) = n + 1
      BY <2>4
    <3> HIDE DEF c
    <3>2. c = [i \in 1 .. n + 1 |-> c[i]]
      BY <3>1
    <3>3. QED BY <3>2 DEF c
  <2>6. b = [i \in 1 .. n + 1 |-> b[i]]
    BY <2>1
  <2> HIDE DEF b
  <2>7. QED BY <2>3, <2>5, <2>6 DEF a, b
<1>9. Values(s, valid, value) = Each(those)
  BY DEF Values, those
<1>10. Values(Append(s, l), valid, value) = IF l \in valid THEN Each(more) ELSE Each(those)
  BY <1>2 DEF Values
<1> HIDE DEF Each
<1>11. QED BY <1>7, <1>8, <1>9, <1>10

(* Nothing is written in no lines. *)
LEMMA NothingWritten ==
  ASSUME NEW valid, NEW value PROVE Values(<<>>, valid, value) = <<>>
<1>1. Values(<<>>, valid, value) = [i \in DOMAIN <<>> |-> value[<<>>[i]]]
  BY NothingProjected DEF Values
<1>2. DOMAIN <<>> = {}
  OBVIOUS
<1>3. QED BY <1>1, <1>2

-----------------------------------------------------------------------------
(* The first and the last place. *)
LEMMA EarliestIsFirst ==
  ASSUME NEW M, M \subseteq Nat, M # {}
  PROVE  Earliest(M) \in M /\ \A j \in M : Earliest(M) <= j
<1>1. \E i \in M : \A j \in M : i <= j
  BY Least
<1>2. QED BY <1>1 DEF Earliest

(* The earliest of one place, the one after n. *)
LEMMA EarliestOfOne == ASSUME NEW n \in Nat PROVE Earliest({n + 1}) = n + 1
<1>1. {n + 1} \subseteq Nat /\ {n + 1} # {}
  OBVIOUS
<1>2. Earliest({n + 1}) \in {n + 1}
  BY <1>1, EarliestIsFirst
<1>3. QED BY <1>2

(* The latest of some places of a list. *)
LEMMA LatestIsLast ==
  ASSUME NEW n \in Nat, NEW M, M \subseteq 1 .. n, M # {}
  PROVE  Latest(M) \in M /\ \A j \in M : Latest(M) >= j
<1> DEFINE T == {n - i : i \in M}
<1>1. T \subseteq Nat /\ T # {}
  OBVIOUS
<1>2. \E x \in T : \A y \in T : x <= y
  <2> HIDE DEF T
  <2>1. QED BY <1>1, Least
<1>3. PICK x \in T : \A y \in T : x <= y
  BY <1>2
<1>4. PICK i \in M : x = n - i
  BY <1>3
<1>5. ASSUME NEW j \in M PROVE i >= j
  <2>1. n - j \in T
    OBVIOUS
  <2>2. n - i <= n - j
    BY <1>3, <1>4, <2>1
  <2>3. i \in Nat /\ j \in Nat
    OBVIOUS
  <2>4. QED BY <2>2, <2>3
<1>6. \E k \in M : \A j \in M : k >= j
  BY <1>5
<1>7. QED BY <1>6 DEF Latest

IsBegin(l) == l.tag = "bind" /\ Port(l) /= 0

(* A line begins a bind or not: the places that do grow by one or stay. *)
LEMMA BeginsGrow ==
  ASSUME NEW t \in Seq(Lines), NEW l \in Lines
  PROVE  /\ Begins(t) \subseteq 1 .. Len(t)
         /\ Begins(Append(t, l)) =
              Begins(t) \cup (IF IsBegin(l) THEN {Len(t) + 1} ELSE {})
<1>1. PICK n \in Nat : n = Len(t)
  OBVIOUS
<1> DEFINE u == Append(t, l)
<1>2. /\ DOMAIN t = 1 .. n /\ DOMAIN u = 1 .. n + 1
      /\ u[n + 1] = l /\ \A i \in 1 .. n : u[i] = t[i]
  BY <1>1
<1> HIDE DEF u
<1>3. \A i : i \in 1 .. n + 1 <=> i \in 1 .. n \/ i = n + 1
  BY <1>1
<1>4. Begins(t) = {i \in 1 .. n : IsBegin(t[i])}
  BY <1>2 DEF Begins, IsBegin
<1>5. Begins(u) = {i \in 1 .. n + 1 : IsBegin(u[i])}
  BY <1>2 DEF Begins, IsBegin
<1>6. n + 1 \notin 1 .. n
  BY <1>1
<1>7. Begins(u) = Begins(t) \cup (IF IsBegin(l) THEN {n + 1} ELSE {})
  BY <1>2, <1>3, <1>4, <1>5, <1>6
<1>8. QED BY <1>1, <1>4, <1>7 DEF u

(* There is one line that begins a bind. *)
One(t) == \A i, j \in Begins(t) : i = j

(* With one begin the section goes to the end of the text. *)
LEMMA SectionOfOne ==
  ASSUME NEW t \in Seq(Lines), Begins(t) # {}, One(t)
  PROVE  /\ Earliest(Begins(t)) \in 1 .. Len(t)
         /\ Section(t) = SubSeq(t, Earliest(Begins(t)), Len(t))
<1>1. Begins(t) \subseteq 1 .. Len(t)
  BY DEF Begins
<1>2. Begins(t) \subseteq Nat
  BY <1>1
<1>3. Earliest(Begins(t)) \in Begins(t)
  BY <1>2, EarliestIsFirst
<1>4. {i \in Begins(t) : i > Earliest(Begins(t))} = {}
  BY <1>2, <1>3 DEF One
<1>5. QED BY <1>1, <1>3, <1>4 DEF Section

(* The section is a list of lines. *)
LEMMA SectionIsText ==
  ASSUME NEW t \in Seq(Lines), Begins(t) # {}
  PROVE  Section(t) \in Seq(Lines)
<1> DEFINE b == Earliest(Begins(t))
           later == {i \in Begins(t) : i > b}
<1>1. Begins(t) \subseteq 1 .. Len(t) /\ Begins(t) \subseteq Nat
  BY DEF Begins
<1>2. b \in 1 .. Len(t)
  BY <1>1, EarliestIsFirst
<1>3. later # {} => Earliest(later) \in 1 .. Len(t)
  <2>1. later \subseteq Nat /\ later \subseteq 1 .. Len(t)
    BY <1>1
  <2> HIDE DEF later
  <2>2. QED BY <2>1, EarliestIsFirst
<1> DEFINE e == IF later = {} THEN Len(t) ELSE Earliest(later) - 1
<1>4. e \in Int /\ e <= Len(t)
  <2> HIDE DEF later
  <2>1. Len(t) \in Nat
    OBVIOUS
  <2>2. QED BY <1>3, <2>1
<1>5. Section(t) = SubSeq(t, b, e)
  BY DEF Section
<1> HIDE DEF b, e
<1>6. \A i \in b .. e : t[i] \in Lines
  <2> SUFFICES ASSUME NEW i \in b .. e PROVE t[i] \in Lines
    OBVIOUS
  <2>1. i \in 1 .. Len(t)
    BY <1>2, <1>4
  <2>2. QED BY <2>1, ElementOfSeq
<1>7. b \in Int
  BY <1>2
<1>8. QED BY <1>4, <1>5, <1>6, <1>7, SubSeqProperties

(* The first line that begins a bind begins the section. *)
LEMMA SectionBegins ==
  ASSUME NEW t \in Seq(Lines), NEW l \in Lines, Begins(t) = {}, IsBegin(l)
  PROVE  Section(Append(t, l)) = <<l>>
<1>1. PICK n \in Nat : n = Len(t)
  OBVIOUS
<1> DEFINE u == Append(t, l)
<1>2. u \in Seq(Lines) /\ Len(u) = n + 1 /\ u[n + 1] = l
  BY <1>1
<1>3. Begins(u) = {n + 1}
  BY <1>1, BeginsGrow
<1> HIDE DEF u
<1>4. Earliest({n + 1}) = n + 1
  BY EarliestOfOne
<1>5. Section(u) = SubSeq(u, n + 1, n + 1)
  BY <1>2, <1>3, <1>4, SectionOfOne DEF One
<1>6. SubSeq(u, n + 1, n + 1) = <<l>>
  <2> DEFINE v == SubSeq(u, n + 1, n + 1)
  <2>1. \A i \in n + 1 .. n + 1 : u[i] \in Lines
    BY <1>2
  <2>2. /\ v \in Seq(Lines) /\ Len(v) = n + 1 - (n + 1) + 1
        /\ \A i \in 1 .. n + 1 - (n + 1) + 1 : v[i] = u[n + 1 + i - 1]
    <3>1. n + 1 \in Int /\ n + 1 <= n + 1
      OBVIOUS
    <3>2. QED BY <2>1, <3>1, SubSeqProperties
  <2> HIDE DEF v
  <2>3. Len(v) = 1 /\ v[1] = l
    <3>1. n + 1 - (n + 1) + 1 = 1 /\ n + 1 + 1 - 1 = n + 1
      OBVIOUS
    <3>2. 1 \in 1 .. n + 1 - (n + 1) + 1
      BY <3>1
    <3>3. v[1] = u[n + 1 + 1 - 1]
      BY <2>2, <3>2
    <3>4. QED BY <1>2, <2>2, <3>1, <3>3
  <2>4. v = <<l>>
    BY <2>2, <2>3
  <2>5. QED BY <2>4 DEF v
<1>7. QED BY <1>5, <1>6 DEF u

(* A line after it that begins none is one more of the section. *)
LEMMA SectionGrows ==
  ASSUME NEW t \in Seq(Lines), NEW l \in Lines, Begins(t) # {}, One(t), ~IsBegin(l)
  PROVE  Section(Append(t, l)) = Append(Section(t), l)
<1>1. PICK n \in Nat : n = Len(t)
  OBVIOUS
<1>2. PICK b : b = Earliest(Begins(t))
  OBVIOUS
<1> DEFINE u == Append(t, l)
<1>3. /\ u \in Seq(Lines) /\ Len(u) = n + 1 /\ u[n + 1] = l
      /\ \A i \in 1 .. n : u[i] = t[i]
  BY <1>1
<1>4. Begins(u) = Begins(t)
  BY BeginsGrow
<1> HIDE DEF u
<1>5. b \in 1 .. n /\ Section(t) = SubSeq(t, b, n)
  BY <1>1, <1>2, SectionOfOne
<1>6. Section(u) = SubSeq(u, b, n + 1)
  BY <1>2, <1>3, <1>4, SectionOfOne DEF One
<1>7. SubSeq(u, b, n + 1) = Append(SubSeq(t, b, n), l)
  <2> DEFINE v == SubSeq(u, b, n + 1)
             s == SubSeq(t, b, n)
             w == Append(s, l)
  <2>1. /\ s \in Seq(Lines) /\ Len(s) = n - b + 1
        /\ \A i \in 1 .. n - b + 1 : s[i] = t[b + i - 1]
    <3>1. b \in Int /\ n \in Int /\ b <= n
      BY <1>5
    <3>2. \A i \in b .. n : t[i] \in Lines
      BY <1>1, <1>5, ElementOfSeq
    <3>3. QED BY <3>1, <3>2, SubSeqProperties
  <2>2. /\ v \in Seq(Lines) /\ Len(v) = n + 1 - b + 1
        /\ \A i \in 1 .. n + 1 - b + 1 : v[i] = u[b + i - 1]
    <3>1. b \in Int /\ n + 1 \in Int /\ b <= n + 1
      BY <1>5
    <3>2. \A i \in b .. n + 1 : u[i] \in Lines
      BY <1>3, <1>5, ElementOfSeq
    <3>3. QED BY <3>1, <3>2, SubSeqProperties
  <2> HIDE DEF s, v
  <2>3. PICK k \in Nat : k = n - b + 1
    BY <1>5
  <2>4. /\ w \in Seq(Lines) /\ Len(w) = k + 1 /\ w[k + 1] = l
        /\ \A i \in 1 .. k : w[i] = s[i]
    BY <2>1, <2>3
  <2> HIDE DEF w
  <2>5. Len(v) = k + 1 /\ \A i \in 1 .. k + 1 : v[i] = u[b + i - 1]
    <3>1. n + 1 - b + 1 = k + 1
      BY <1>5, <2>3
    <3>2. QED BY <2>2, <3>1
  <2>6. ASSUME NEW i \in 1 .. k + 1 PROVE v[i] = w[i]
    <3>1. CASE i \in 1 .. k
      <4>1. b + i - 1 \in 1 .. n
        BY <1>5, <2>3, <3>1
      <4>2. v[i] = t[b + i - 1]
        BY <1>3, <2>5, <4>1
      <4>3. w[i] = t[b + i - 1]
        BY <2>1, <2>3, <2>4, <3>1
      <4>4. QED BY <4>2, <4>3
    <3>2. CASE i = k + 1
      <4>1. b + i - 1 = n + 1
        BY <1>5, <2>3, <3>2
      <4>2. QED BY <1>3, <2>4, <2>5, <3>2, <4>1
    <3>3. QED BY <3>1, <3>2
  <2>7. v = w
    BY <2>2, <2>4, <2>5, <2>6, SeqEqual
  <2>8. QED BY <2>7 DEF v, w, s
<1>8. QED BY <1>5, <1>6, <1>7 DEF u

(* The second begin, and whatever comes after it, is not in the section. *)
LEMMA SectionStays ==
  ASSUME NEW t \in Seq(Lines), NEW l \in Lines, Begins(t) # {}, IsBegin(l) \/ ~One(t)
  PROVE  Section(Append(t, l)) = Section(t)
<1>1. PICK n \in Nat : n = Len(t)
  OBVIOUS
<1>2. PICK b : b = Earliest(Begins(t))
  OBVIOUS
<1> DEFINE u == Append(t, l)
           later == {i \in Begins(t) : i > b}
           after == {i \in Begins(u) : i > b}
<1>3. /\ u \in Seq(Lines) /\ Len(u) = n + 1
      /\ \A i \in 1 .. n : u[i] = t[i]
  BY <1>1
<1>4. /\ Begins(t) \subseteq 1 .. n
      /\ Begins(u) = Begins(t) \cup (IF IsBegin(l) THEN {n + 1} ELSE {})
  BY <1>1, BeginsGrow
<1> HIDE DEF u
<1>5. b \in Begins(t) /\ b \in 1 .. n /\ \A j \in Begins(t) : b <= j
  BY <1>2, <1>4, EarliestIsFirst
<1>6. Earliest(Begins(u)) = b
  <2>1. Begins(u) \subseteq Nat /\ Begins(u) # {}
    BY <1>4, <1>5
  <2>2. Earliest(Begins(u)) \in Begins(u) /\ \A j \in Begins(u) : Earliest(Begins(u)) <= j
    BY <2>1, EarliestIsFirst
  <2>3. b \in Begins(u) /\ \A j \in Begins(u) : b <= j
    BY <1>4, <1>5
  <2>4. QED BY <2>1, <2>2, <2>3
<1>7. after = later \cup (IF IsBegin(l) THEN {n + 1} ELSE {})
  BY <1>4, <1>5
<1>8. PICK e \in Nat : /\ e = IF later = {} THEN n ELSE Earliest(later) - 1
                       /\ e <= n
                       /\ after # {} /\ Earliest(after) = e + 1
  <2>1. CASE later = {}
    <3>1. IsBegin(l)
      BY <1>5, <2>1 DEF One
    <3>2. after = {n + 1}
      BY <1>7, <2>1, <3>1
    <3> HIDE DEF after, later
    <3>3. Earliest(after) = n + 1
      BY <3>2, EarliestOfOne
    <3>4. QED BY <2>1, <3>2, <3>3
  <2>2. CASE later # {}
    <3>1. later \subseteq 1 .. n /\ later \subseteq Nat
      BY <1>4
    <3> DEFINE f == Earliest(later)
    <3>2. f \in later /\ \A j \in later : f <= j
      <4> HIDE DEF later
      <4>1. QED BY <2>2, <3>1, EarliestIsFirst
    <3>3. f \in 1 .. n
      BY <3>1, <3>2
    <3>4. after \subseteq Nat /\ after # {}
      <4> HIDE DEF after, later
      <4>1. QED BY <1>7, <2>2, <3>1
    <3>5. Earliest(after) \in after /\ \A j \in after : Earliest(after) <= j
      <4> HIDE DEF after
      <4>1. QED BY <3>4, EarliestIsFirst
    <3>6. f \in after /\ \A j \in after : f <= j
      <4> HIDE DEF after, later, f
      <4>1. QED BY <1>7, <3>2, <3>3
    <3>7. Earliest(after) = f
      <4> HIDE DEF after, later, f
      <4>1. Earliest(after) <= f /\ f <= Earliest(after)
        BY <3>5, <3>6
      <4>2. f \in Nat
        BY <3>3
      <4>3. Earliest(after) \in Nat
        BY <3>4, <3>5
      <4>4. QED BY <4>1, <4>2, <4>3
    <3>8. f - 1 \in Nat /\ f - 1 <= n /\ f = f - 1 + 1
      BY <3>3
    <3> HIDE DEF after, later
    <3>9. QED BY <2>2, <3>4, <3>7, <3>8
  <2>3. QED BY <2>1, <2>2
<1>9. Section(t) = SubSeq(t, b, e)
  BY <1>1, <1>2, <1>8 DEF Section
<1>10. Section(u) = SubSeq(u, b, e)
  <2>1. Section(u) = SubSeq(u, b, Earliest(after) - 1)
    BY <1>6, <1>8 DEF Section
  <2>2. Earliest(after) - 1 = e
    BY <1>8
  <2>3. QED BY <2>1, <2>2
<1>11. SubSeq(u, b, e) = SubSeq(t, b, e)
  <2>1. \A i \in b .. e : u[i] = t[i]
    BY <1>3, <1>5, <1>8
  <2>2. \A i \in 1 .. e - b + 1 : u[b + i - 1] = t[b + i - 1]
    BY <1>5, <1>8, <2>1
  <2> DEFINE v == SubSeq(u, b, e)
             w == SubSeq(t, b, e)
  <2>3. b \in Int /\ e \in Int
    BY <1>5
  <2>4. \A i \in b .. e : t[i] \in Lines
    BY <1>1, <1>5, <1>8, ElementOfSeq
  <2>5. /\ w \in Seq(Lines) /\ Len(w) = IF b <= e THEN e - b + 1 ELSE 0
        /\ \A i \in 1 .. e - b + 1 : w[i] = t[b + i - 1]
    BY <2>3, <2>4, SubSeqProperties
  <2>6. \A i \in b .. e : u[i] \in Lines
    BY <2>1, <2>4
  <2>7. /\ v \in Seq(Lines) /\ Len(v) = IF b <= e THEN e - b + 1 ELSE 0
        /\ \A i \in 1 .. e - b + 1 : v[i] = u[b + i - 1]
    BY <2>3, <2>6, SubSeqProperties
  <2> HIDE DEF v, w
  <2>8. \A i \in 1 .. Len(v) : v[i] = w[i]
    <3>1. \A i \in 1 .. Len(v) : i \in 1 .. e - b + 1
      BY <2>3, <2>7
    <3>2. QED BY <2>2, <2>5, <2>7, <3>1
  <2>9. v = w
    BY <2>5, <2>7, <2>8, SeqEqual
  <2>10. QED BY <2>9 DEF v, w
<1>12. QED BY <1>9, <1>10, <1>11 DEF u

-----------------------------------------------------------------------------
(* What a bind is told, and what one more line adds to it. *)
AddressType == {Listens(l, "any") : l \in Lines}
ServerType == {Destination(l) : l \in Lines}
FilterType == {Rule(l) : l \in Lines}
TaskType == {Task(l) : l \in Lines}

BindType == [address : Seq(AddressType), dst : Seq(ServerType),
             filter : Seq(FilterType), tasks : Seq(TaskType)]

Also(list, said, item) == IF said THEN Append(list, item) ELSE list

Added(b, l) ==
  [address |-> Also(b.address, l.tag \in {"bind", "alsobind"} /\ Port(l) /= 0,
                    Listens(l, "any")),
   dst     |-> Also(b.dst, l.tag = "server" /\ IsServer(l), Destination(l)),
   filter  |-> Also(b.filter, l.tag = "filter" /\ IsFilter(l), Rule(l)),
   tasks   |-> Also(b.tasks, l.tag = "task" /\ IsTask(l), Task(l))]

(* The same, with Also. *)
LEMMA ValuesAdd ==
  ASSUME NEW s \in Seq(Lines), NEW l \in Lines, NEW valid, NEW value, NEW V,
         \A k \in Lines : value[k] \in V
  PROVE  /\ Values(s, valid, value) \in Seq(V)
         /\ Values(Append(s, l), valid, value) =
              Also(Values(s, valid, value), l \in valid, value[l])
  BY ValuesGrow DEF Also

(* One more line in the section adds to the bind what the line says. *)
LEMMA WrittenGrows ==
  ASSUME NEW s \in Seq(Lines), NEW l \in Lines
  PROVE  /\ Written(s) \in BindType
         /\ Written(Append(s, l)) = Added(Written(s), l)
<1> DEFINE A == {k \in Lines : k.tag \in {"bind", "alsobind"} /\ Port(k) /= 0}
           D == {k \in Lines : k.tag = "server" /\ IsServer(k)}
           F == {k \in Lines : k.tag = "filter" /\ IsFilter(k)}
           T == {k \in Lines : k.tag = "task" /\ IsTask(k)}
           fa == [k \in Lines |-> Listens(k, "any")]
           fd == [k \in Lines |-> Destination(k)]
           ff == [k \in Lines |-> Rule(k)]
           ft == [k \in Lines |-> Task(k)]
<1>1. /\ Values(s, A, fa) \in Seq(AddressType)
      /\ Values(Append(s, l), A, fa) =
           Also(Values(s, A, fa), l.tag \in {"bind", "alsobind"} /\ Port(l) /= 0, Listens(l, "any"))
  <2>1. \A k \in Lines : fa[k] \in AddressType
    BY DEF AddressType
  <2>2. fa[l] = Listens(l, "any")
    OBVIOUS
  <2>3. l \in A <=> l.tag \in {"bind", "alsobind"} /\ Port(l) /= 0
    OBVIOUS
  <2> HIDE DEF A, fa
  <2>4. /\ Values(s, A, fa) \in Seq(AddressType)
        /\ Values(Append(s, l), A, fa) = Also(Values(s, A, fa), l \in A, fa[l])
    BY <2>1, ValuesAdd
  <2>5. QED BY <2>2, <2>3, <2>4 DEF Also
<1>2. /\ Values(s, D, fd) \in Seq(ServerType)
      /\ Values(Append(s, l), D, fd) =
           Also(Values(s, D, fd), l.tag = "server" /\ IsServer(l), Destination(l))
  <2>1. \A k \in Lines : fd[k] \in ServerType
    BY DEF ServerType
  <2>2. fd[l] = Destination(l)
    OBVIOUS
  <2>3. l \in D <=> l.tag = "server" /\ IsServer(l)
    OBVIOUS
  <2> HIDE DEF D, fd
  <2>4. /\ Values(s, D, fd) \in Seq(ServerType)
        /\ Values(Append(s, l), D, fd) = Also(Values(s, D, fd), l \in D, fd[l])
    BY <2>1, ValuesAdd
  <2>5. QED BY <2>2, <2>3, <2>4 DEF Also
<1>3. /\ Values(s, F, ff) \in Seq(FilterType)
      /\ Values(Append(s, l), F, ff) =
           Also(Values(s, F, ff), l.tag = "filter" /\ IsFilter(l), Rule(l))
  <2>1. \A k \in Lines : ff[k] \in FilterType
    BY DEF FilterType
  <2>2. ff[l] = Rule(l)
    OBVIOUS
  <2>3. l \in F <=> l.tag = "filter" /\ IsFilter(l)
    OBVIOUS
  <2> HIDE DEF F, ff
  <2>4. /\ Values(s, F, ff) \in Seq(FilterType)
        /\ Values(Append(s, l), F, ff) = Also(Values(s, F, ff), l \in F, ff[l])
    BY <2>1, ValuesAdd
  <2>5. QED BY <2>2, <2>3, <2>4 DEF Also
<1>4. /\ Values(s, T, ft) \in Seq(TaskType)
      /\ Values(Append(s, l), T, ft) =
           Also(Values(s, T, ft), l.tag = "task" /\ IsTask(l), Task(l))
  <2>1. \A k \in Lines : ft[k] \in TaskType
    BY DEF TaskType
  <2>2. ft[l] = Task(l)
    OBVIOUS
  <2>3. l \in T <=> l.tag = "task" /\ IsTask(l)
    OBVIOUS
  <2> HIDE DEF T, ft
  <2>4. /\ Values(s, T, ft) \in Seq(TaskType)
        /\ Values(Append(s, l), T, ft) = Also(Values(s, T, ft), l \in T, ft[l])
    BY <2>1, ValuesAdd
  <2>5. QED BY <2>2, <2>3, <2>4 DEF Also
<1>5. \A t : Written(t) = [address |-> Values(t, A, fa), dst |-> Values(t, D, fd),
                           filter |-> Values(t, F, ff), tasks |-> Values(t, T, ft)]
  BY DEF Written
<1> HIDE DEF A, D, F, T, fa, fd, ff, ft
<1>6. QED BY <1>1, <1>2, <1>3, <1>4, <1>5 DEF Added, BindType

(* A section of one line. *)
LEMMA WrittenAlone ==
  ASSUME NEW l \in Lines
  PROVE  Written(<<l>>) = Added(NoBind, l)
<1>1. <<>> \in Seq(Lines) /\ Append(<<>>, l) = <<l>>
  OBVIOUS
<1>2. Written(<<>>) = NoBind
  BY NothingWritten DEF Written, NoBind
<1>3. Written(Append(<<>>, l)) = Added(Written(<<>>), l)
  BY <1>1, WrittenGrows
<1>4. QED BY <1>1, <1>2, <1>3

(* A record with one of its fields changed. *)
LEMMA FieldChanged ==
  ASSUME NEW b, NEW a, NEW d, NEW f, NEW t,
         b = [address |-> b.address, dst |-> b.dst, filter |-> b.filter, tasks |-> b.tasks]
  PROVE  /\ [b EXCEPT !["address"] = a] =
              [address |-> a, dst |-> b.dst, filter |-> b.filter, tasks |-> b.tasks]
         /\ [b EXCEPT !["dst"] = d] =
              [address |-> b.address, dst |-> d, filter |-> b.filter, tasks |-> b.tasks]
         /\ [b EXCEPT !["filter"] = f] =
              [address |-> b.address, dst |-> b.dst, filter |-> f, tasks |-> b.tasks]
         /\ [b EXCEPT !["tasks"] = t] =
              [address |-> b.address, dst |-> b.dst, filter |-> b.filter, tasks |-> t]
<1> DEFINE N == {"address", "dst", "filter", "tasks"}
<1>1. DOMAIN b = N
  OBVIOUS
<1>2. [b EXCEPT !["address"] = a] =
        [address |-> a, dst |-> b.dst, filter |-> b.filter, tasks |-> b.tasks]
  <2>1. [b EXCEPT !["address"] = a] = [n \in N |-> IF n = "address" THEN a ELSE b[n]]
    BY <1>1
  <2>2. [address |-> a, dst |-> b.dst, filter |-> b.filter, tasks |-> b.tasks] =
          [n \in N |-> IF n = "address" THEN a ELSE b[n]]
    OBVIOUS
  <2>3. QED BY <2>1, <2>2
<1>3. [b EXCEPT !["dst"] = d] =
        [address |-> b.address, dst |-> d, filter |-> b.filter, tasks |-> b.tasks]
  <2>1. [b EXCEPT !["dst"] = d] = [n \in N |-> IF n = "dst" THEN d ELSE b[n]]
    BY <1>1
  <2>2. [address |-> b.address, dst |-> d, filter |-> b.filter, tasks |-> b.tasks] =
          [n \in N |-> IF n = "dst" THEN d ELSE b[n]]
    OBVIOUS
  <2>3. QED BY <2>1, <2>2
<1>4. [b EXCEPT !["filter"] = f] =
        [address |-> b.address, dst |-> b.dst, filter |-> f, tasks |-> b.tasks]
  <2>1. [b EXCEPT !["filter"] = f] = [n \in N |-> IF n = "filter" THEN f ELSE b[n]]
    BY <1>1
  <2>2. [address |-> b.address, dst |-> b.dst, filter |-> f, tasks |-> b.tasks] =
          [n \in N |-> IF n = "filter" THEN f ELSE b[n]]
    OBVIOUS
  <2>3. QED BY <2>1, <2>2
<1>5. [b EXCEPT !["tasks"] = t] =
        [address |-> b.address, dst |-> b.dst, filter |-> b.filter, tasks |-> t]
  <2>1. [b EXCEPT !["tasks"] = t] = [n \in N |-> IF n = "tasks" THEN t ELSE b[n]]
    BY <1>1
  <2>2. [address |-> b.address, dst |-> b.dst, filter |-> b.filter, tasks |-> t] =
          [n \in N |-> IF n = "tasks" THEN t ELSE b[n]]
    OBVIOUS
  <2>3. QED BY <2>1, <2>2
<1>6. QED BY <1>2, <1>3, <1>4, <1>5

(* What a line adds to one of the lists. *)
LEMMA OneAdded ==
  ASSUME NEW b \in BindType, NEW l \in Lines
  PROVE  /\ l.tag = "alsobind" /\ Port(l) /= 0 =>
              Added(b, l) = [b EXCEPT !["address"] = Append(@, Listens(l, "any"))]
         /\ l.tag = "server" /\ IsServer(l) =>
              Added(b, l) = [b EXCEPT !["dst"] = Append(@, Destination(l))]
         /\ l.tag = "filter" /\ IsFilter(l) =>
              Added(b, l) = [b EXCEPT !["filter"] = Append(@, Rule(l))]
         /\ l.tag = "task" /\ IsTask(l) =>
              Added(b, l) = [b EXCEPT !["tasks"] = Append(@, Task(l))]
<1>1. PICK a \in Seq(AddressType), d \in Seq(ServerType), f \in Seq(FilterType),
           t \in Seq(TaskType) :
        /\ a = Append(b.address, Listens(l, "any"))
        /\ d = Append(b.dst, Destination(l))
        /\ f = Append(b.filter, Rule(l))
        /\ t = Append(b.tasks, Task(l))
  <2>1. /\ Listens(l, "any") \in AddressType /\ Destination(l) \in ServerType
        /\ Rule(l) \in FilterType /\ Task(l) \in TaskType
    BY DEF AddressType, ServerType, FilterType, TaskType
  <2>2. /\ b.address \in Seq(AddressType) /\ b.dst \in Seq(ServerType)
        /\ b.filter \in Seq(FilterType) /\ b.tasks \in Seq(TaskType)
    BY DEF BindType
  <2>3. Append(b.address, Listens(l, "any")) \in Seq(AddressType)
    BY <2>1, <2>2
  <2>4. Append(b.dst, Destination(l)) \in Seq(ServerType)
    BY <2>1, <2>2
  <2>5. Append(b.filter, Rule(l)) \in Seq(FilterType)
    BY <2>1, <2>2
  <2>6. Append(b.tasks, Task(l)) \in Seq(TaskType)
    BY <2>1, <2>2
  <2>7. QED BY <2>3, <2>4, <2>5, <2>6
<1>2. /\ [b EXCEPT !["address"] = a] =
           [address |-> a, dst |-> b.dst, filter |-> b.filter, tasks |-> b.tasks]
      /\ [b EXCEPT !["dst"] = d] =
           [address |-> b.address, dst |-> d, filter |-> b.filter, tasks |-> b.tasks]
      /\ [b EXCEPT !["filter"] = f] =
           [address |-> b.address, dst |-> b.dst, filter |-> f, tasks |-> b.tasks]
      /\ [b EXCEPT !["tasks"] = t] =
           [address |-> b.address, dst |-> b.dst, filter |-> b.filter, tasks |-> t]
  <2>1. b = [address |-> b.address, dst |-> b.dst, filter |-> b.filter, tasks |-> b.tasks]
    BY DEF BindType
  <2>2. QED BY <2>1, FieldChanged
<1>3. ASSUME l.tag = "alsobind" /\ Port(l) /= 0
      PROVE  Added(b, l) = [b EXCEPT !["address"] = Append(@, Listens(l, "any"))]
  <2>1. Added(b, l) = [b EXCEPT !["address"] = a]
    BY <1>1, <1>2, <1>3 DEF Added, Also
  <2>2. QED BY <1>1, <2>1
<1>4. ASSUME l.tag = "server" /\ IsServer(l)
      PROVE  Added(b, l) = [b EXCEPT !["dst"] = Append(@, Destination(l))]
  <2>1. Added(b, l) = [b EXCEPT !["dst"] = d]
    BY <1>1, <1>2, <1>4 DEF Added, Also
  <2>2. QED BY <1>1, <2>1
<1>5. ASSUME l.tag = "filter" /\ IsFilter(l)
      PROVE  Added(b, l) = [b EXCEPT !["filter"] = Append(@, Rule(l))]
  <2>1. Added(b, l) = [b EXCEPT !["filter"] = f]
    BY <1>1, <1>2, <1>5 DEF Added, Also
  <2>2. QED BY <1>1, <2>1
<1>6. ASSUME l.tag = "task" /\ IsTask(l)
      PROVE  Added(b, l) = [b EXCEPT !["tasks"] = Append(@, Task(l))]
  <2>1. Added(b, l) = [b EXCEPT !["tasks"] = t]
    BY <1>1, <1>2, <1>6 DEF Added, Also
  <2>2. QED BY <1>1, <2>1
<1>7. QED BY <1>3, <1>4, <1>5, <1>6

(* processConfigLine: the line begins a bind or is added to the last one. *)
LEMMA LineIsAdded ==
  ASSUME NEW l \in Lines, processConfigLine(l), bind \in Seq(BindType)
  PROVE  bind' = IF IsBegin(l) THEN Append(bind, Added(NoBind, l))
                 ELSE IF bind = <<>> THEN bind
                 ELSE [bind EXCEPT ![Len(bind)] = Added(@, l)]
<1> DEFINE n == Len(bind)
           b == bind[n]
<1>0. bind # <<>> => n \in DOMAIN bind /\ b \in BindType
  BY EmptySeq, ElementOfSeq
<1>1. CASE IsBegin(l)
  <2>1. bind' = Append(bind, [NoBind EXCEPT !.address = <<Listens(l, "any")>>])
    BY <1>1 DEF processConfigLine, BindLine, IsBegin
  <2>2. [NoBind EXCEPT !.address = <<Listens(l, "any")>>] = Added(NoBind, l)
    BY <1>1 DEF NoBind, Added, Also, IsBegin
  <2>3. QED BY <1>1, <2>1, <2>2
<1>2. CASE ~IsBegin(l) /\ bind = <<>>
  BY <1>2 DEF processConfigLine, BindLine, ServerLine, RetryLine, FilterLine, AdminLine,
              TaskLine, ConPerThreadLine, AddToLast, IsBegin
<1>3. CASE ~IsBegin(l) /\ bind # <<>>
  <2>1. n \in DOMAIN bind /\ b \in BindType
    BY <1>0, <1>3
  <2>2. b = [address |-> b.address, dst |-> b.dst, filter |-> b.filter, tasks |-> b.tasks]
    BY <2>1 DEF BindType
  <2>3. CASE UNCHANGED bind /\ Added(b, l) = b
    BY <1>3, <2>1, <2>3
  <2>4. ASSUME NEW list \in {"address", "dst", "filter", "tasks"}, NEW item,
               AddToLast(list, item), Added(b, l) = [b EXCEPT ![list] = Append(@, item)]
        PROVE  bind' = [bind EXCEPT ![n] = Added(b, l)]
    BY <1>3, <2>1, <2>4 DEF AddToLast
  <2>5. CASE l.tag = "alsobind" /\ Port(l) /= 0
    <3>1. AddToLast("address", Listens(l, "any"))
      BY <2>5 DEF processConfigLine, BindLine
    <3>2. Added(b, l) = [b EXCEPT !["address"] = Append(@, Listens(l, "any"))]
      BY <2>1, <2>5, OneAdded
    <3>3. QED BY <1>3, <2>4, <3>1, <3>2
  <2>6. CASE l.tag = "server" /\ IsServer(l)
    <3>1. AddToLast("dst", Destination(l))
      BY <2>6 DEF processConfigLine, ServerLine
    <3>2. Added(b, l) = [b EXCEPT !["dst"] = Append(@, Destination(l))]
      BY <2>1, <2>6, OneAdded
    <3>3. QED BY <1>3, <2>4, <3>1, <3>2
  <2>7. CASE l.tag = "filter" /\ IsFilter(l)
    <3>1. AddToLast("filter", Rule(l))
      BY <2>7 DEF processConfigLine, FilterLine
    <3>2. Added(b, l) = [b EXCEPT !["filter"] = Append(@, Rule(l))]
      BY <2>1, <2>7, OneAdded
    <3>3. QED BY <1>3, <2>4, <3>1, <3>2
  <2>8. CASE l.tag = "task" /\ IsTask(l)
    <3>1. AddToLast("tasks", Task(l))
      BY <2>8 DEF processConfigLine, TaskLine
    <3>2. Added(b, l) = [b EXCEPT !["tasks"] = Append(@, Task(l))]
      BY <2>1, <2>8, OneAdded
    <3>3. QED BY <1>3, <2>4, <3>1, <3>2
  <2>9. CASE /\ ~(l.tag = "alsobind" /\ Port(l) /= 0)
             /\ ~(l.tag = "server" /\ IsServer(l))
             /\ ~(l.tag = "filter" /\ IsFilter(l))
             /\ ~(l.tag = "task" /\ IsTask(l))
    <3>1. UNCHANGED bind
      <4>1. CASE l.tag \in {"bind", "alsobind"}
        <5>1. Port(l) = 0 /\ BindLine(l)
          BY <1>3, <2>9, <4>1 DEF processConfigLine, IsBegin
        <5>2. QED BY <5>1 DEF BindLine
      <4>2. CASE l.tag \in {"server", "filter", "task"}
        BY <2>9, <4>2 DEF processConfigLine, ServerLine, FilterLine, TaskLine
      <4>3. CASE l.tag \notin {"bind", "alsobind", "server", "filter", "task"}
        BY <4>3 DEF processConfigLine, RetryLine, AdminLine, ConPerThreadLine
      <4>4. QED BY <4>1, <4>2, <4>3
    <3>2. Added(b, l) = b
      BY <1>3, <2>2, <2>9 DEF Added, Also, IsBegin
    <3>3. QED BY <2>3, <3>1, <3>2
  <2>10. QED BY <2>5, <2>6, <2>7, <2>8, <2>9
<1>4. QED BY <1>1, <1>2, <1>3

(* The binds that were read of a text, the first one above all. *)
ListedIn(b, t) ==
  /\ b \in Seq(BindType)
  /\ b = <<>> <=> Begins(t) = {}
  /\ b # <<>> => b[1] = Written(Section(t)) /\ (Len(b) = 1 <=> One(t))

(* What a line adds keeps the type of a bind. *)
LEMMA AddedIsBind ==
  ASSUME NEW l \in Lines
  PROVE  /\ Added(NoBind, l) \in BindType
         /\ \A b \in BindType : Added(b, l) \in BindType
<1>1. Added(NoBind, l) \in BindType
  <2>1. <<l>> \in Seq(Lines)
    OBVIOUS
  <2>2. QED BY <2>1, WrittenGrows, WrittenAlone
<1>2. ASSUME NEW b \in BindType PROVE Added(b, l) \in BindType
  <2>1. /\ Listens(l, "any") \in AddressType /\ Destination(l) \in ServerType
        /\ Rule(l) \in FilterType /\ Task(l) \in TaskType
    BY DEF AddressType, ServerType, FilterType, TaskType
  <2>2. /\ b.address \in Seq(AddressType) /\ b.dst \in Seq(ServerType)
        /\ b.filter \in Seq(FilterType) /\ b.tasks \in Seq(TaskType)
    BY DEF BindType
  <2>3. \A p : Also(b.address, p, Listens(l, "any")) \in Seq(AddressType)
    BY <2>1, <2>2 DEF Also
  <2>4. \A p : Also(b.dst, p, Destination(l)) \in Seq(ServerType)
    BY <2>1, <2>2 DEF Also
  <2>5. \A p : Also(b.filter, p, Rule(l)) \in Seq(FilterType)
    BY <2>1, <2>2 DEF Also
  <2>6. \A p : Also(b.tasks, p, Task(l)) \in Seq(TaskType)
    BY <2>1, <2>2 DEF Also
  <2>7. QED BY <2>3, <2>4, <2>5, <2>6 DEF Added, BindType
<1>3. QED BY <1>1, <1>2

(* A line that is processed keeps the list of binds in step with the text. *)
LEMMA LineIsListed ==
  ASSUME NEW t \in Seq(Lines), NEW l \in Lines, NEW b, NEW c, ListedIn(b, t),
         c = IF IsBegin(l) THEN Append(b, Added(NoBind, l))
             ELSE IF b = <<>> THEN b
             ELSE [b EXCEPT ![Len(b)] = Added(@, l)]
  PROVE  ListedIn(c, Append(t, l))
<1> DEFINE u == Append(t, l)
<1>1. b \in Seq(BindType) /\ Len(b) \in Nat /\ (b = <<>> <=> Len(b) = 0)
  BY EmptySeq DEF ListedIn
<1>2. /\ Begins(t) \subseteq 1 .. Len(t) /\ Len(t) \in Nat
      /\ Begins(u) = Begins(t) \cup (IF IsBegin(l) THEN {Len(t) + 1} ELSE {})
  BY BeginsGrow
<1>3. Added(NoBind, l) \in BindType /\ \A x \in BindType : Added(x, l) \in BindType
  BY AddedIsBind
<1>4. CASE IsBegin(l) /\ b = <<>>
  <2>1. Section(u) = <<l>>
    BY <1>4, SectionBegins DEF ListedIn
  <2>2. c = <<Added(NoBind, l)>>
    BY <1>4
  <2>3. c \in Seq(BindType) /\ Len(c) = 1 /\ c # <<>> /\ c[1] = Added(NoBind, l)
    <3>1. PICK x \in BindType : x = Added(NoBind, l)
      BY <1>3
    <3>2. c = <<x>>
      BY <2>2, <3>1
    <3>3. c \in Seq(BindType) /\ Len(c) = 1 /\ c # <<>> /\ c[1] = x
      BY ONLY <3>2
    <3>4. QED BY <3>1, <3>3
  <2>4. Written(<<l>>) = Added(NoBind, l)
    BY WrittenAlone
  <2>5. Begins(u) = {Len(t) + 1}
    BY <1>2, <1>4 DEF ListedIn
  <2>6. One(u)
    BY <2>5 DEF One
  <2> HIDE DEF u
  <2>7. ListedIn(c, u)
    BY <2>1, <2>3, <2>4, <2>5, <2>6 DEF ListedIn
  <2>8. QED BY <2>7 DEF u
<1>5. CASE IsBegin(l) /\ b # <<>>
  <2>1. Section(u) = Section(t)
    BY <1>5, SectionStays DEF ListedIn
  <2>2. c = Append(b, Added(NoBind, l))
    BY <1>5
  <2>3. c \in Seq(BindType) /\ Len(c) = Len(b) + 1 /\ c # <<>> /\ c[1] = b[1]
    BY <1>1, <1>3, <1>5, <2>2
  <2>4. Len(c) # 1
    BY <1>1, <1>5, <2>3
  <2>5. ~One(u) /\ Begins(u) # {}
    <3>1. PICK i \in Begins(t) : TRUE
      BY <1>5 DEF ListedIn
    <3>2. i \in Begins(u) /\ Len(t) + 1 \in Begins(u) /\ i # Len(t) + 1
      BY <1>2, <1>5, <3>1
    <3>3. QED BY <3>2 DEF One
  <2> HIDE DEF u
  <2>6. b[1] = Written(Section(t))
    BY <1>5 DEF ListedIn
  <2>7. ListedIn(c, u)
    BY <2>1, <2>3, <2>4, <2>5, <2>6 DEF ListedIn
  <2>8. QED BY <2>7 DEF u
<1>6. CASE ~IsBegin(l) /\ b = <<>>
  <2>1. c = <<>> /\ Begins(u) = {}
    BY <1>2, <1>6 DEF ListedIn
  <2> HIDE DEF u
  <2>2. ListedIn(c, u)
    BY <1>1, <1>6, <2>1 DEF ListedIn
  <2>3. QED BY <2>2 DEF u
<1>7. CASE ~IsBegin(l) /\ b # <<>>
  <2> DEFINE n == Len(b)
             x == Added(b[n], l)
  <2>1. n \in DOMAIN b /\ n \in Nat \ {0} /\ b[n] \in BindType /\ DOMAIN b = 1 .. n
    BY <1>1, <1>7, ElementOfSeq
  <2>2. x \in BindType
    BY <1>3, <2>1
  <2>3. c = [b EXCEPT ![n] = x]
    BY <1>7
  <2>4. Begins(u) = Begins(t)
    BY <1>2, <1>7
  <2>5. One(u) <=> One(t)
    BY <2>4 DEF One
  <2>6. /\ b[1] = Written(Section(t)) /\ (n = 1 <=> One(t))
        /\ Begins(t) # {}
    BY <1>7 DEF ListedIn
  <2>7. c \in Seq(BindType) /\ Len(c) = n /\ c # <<>>
        /\ c[1] = IF n = 1 THEN x ELSE b[1]
    <3> HIDE DEF x
    <3>1. c \in Seq(BindType)
      BY <1>1, <2>1, <2>2, <2>3, ExceptSeq
    <3>2. Len(c) = n
      <4>1. DOMAIN c = 1 .. n /\ n \in Nat
        BY <2>1, <2>3
      <4> HIDE DEF n
      <4>2. QED BY <3>1, <4>1
    <3>3. c[1] = IF n = 1 THEN x ELSE b[1]
      BY <2>1, <2>3
    <3>4. c # <<>>
      BY <2>1, <3>2
    <3>5. QED BY <3>1, <3>2, <3>3, <3>4
  <2>8. c[1] = Written(Section(u))
    <3>1. CASE One(t)
      <4>1. Section(u) = Append(Section(t), l)
        BY <1>7, <2>6, <3>1, SectionGrows
      <4>2. Section(t) \in Seq(Lines)
        BY <2>6, SectionIsText
      <4>3. Written(Append(Section(t), l)) = Added(Written(Section(t)), l)
        BY <4>2, WrittenGrows
      <4>4. c[1] = Added(b[1], l)
        BY <2>6, <2>7, <3>1
      <4>5. QED BY <2>6, <4>1, <4>3, <4>4
    <3>2. CASE ~One(t)
      <4>1. Section(u) = Section(t)
        BY <2>6, <3>2, SectionStays
      <4>2. c[1] = b[1]
        BY <2>6, <2>7, <3>2
      <4>3. QED BY <2>6, <4>1, <4>2
    <3>3. QED BY <3>1, <3>2
  <2> HIDE DEF u, n
  <2>9. ListedIn(c, u)
    BY <2>4, <2>5, <2>6, <2>7, <2>8 DEF ListedIn
  <2>10. QED BY <2>9 DEF u
<1>8. QED BY <1>4, <1>5, <1>6, <1>7

-----------------------------------------------------------------------------
(* The settings that were read of a text. *)
SetIn(s, t) ==
  /\ {"admin", "retryserver", "conperthread"} \subseteq DOMAIN s
  /\ s.admin.enabled <=> AdminIsAsked(t)
  /\ s.retryserver = Setting(t, "retryserver", 30)
  /\ s.conperthread = Setting(t, "conperthread", 16)

(* The last line of a tag sets it. *)
LEMMA SettingGrows ==
  ASSUME NEW t \in Seq(Lines), NEW l \in Lines, NEW tag, NEW default
  PROVE  Setting(Append(t, l), tag, default) =
           IF l.tag = tag THEN Or(l.n, default) ELSE Setting(t, tag, default)
<1>1. PICK n \in Nat : n = Len(t)
  OBVIOUS
<1> DEFINE u == Append(t, l)
           those == {i \in DOMAIN t : t[i].tag = tag}
           more == {i \in DOMAIN u : u[i].tag = tag}
<1>2. /\ DOMAIN t = 1 .. n /\ DOMAIN u = 1 .. n + 1
      /\ u[n + 1] = l /\ \A i \in 1 .. n : u[i] = t[i]
  BY <1>1
<1> HIDE DEF u
<1>3. \A i : i \in 1 .. n + 1 <=> i \in 1 .. n \/ i = n + 1
  BY <1>1
<1>4. more = those \cup (IF l.tag = tag THEN {n + 1} ELSE {})
  BY <1>2, <1>3
<1>5. those \subseteq 1 .. n /\ more \subseteq 1 .. n + 1
  BY <1>2
<1>6. /\ Setting(t, tag, default) =
           IF those = {} THEN default ELSE Or(t[Latest(those)].n, default)
      /\ Setting(u, tag, default) =
           IF more = {} THEN default ELSE Or(u[Latest(more)].n, default)
  BY DEF Setting
<1> HIDE DEF those, more
<1>7. CASE l.tag = tag
  <2>1. n + 1 \in more
    BY <1>4, <1>7
  <2>2. Latest(more) \in more /\ \A j \in more : Latest(more) >= j
    <3>1. n + 1 \in Nat
      OBVIOUS
    <3>2. QED BY <1>5, <2>1, <3>1, LatestIsLast
  <2>3. Latest(more) = n + 1
    <3>1. Latest(more) \in 1 .. n + 1 /\ Latest(more) >= n + 1
      BY <1>5, <2>1, <2>2
    <3>2. QED BY <3>1
  <2>4. QED BY <1>2, <1>6, <1>7, <2>1, <2>3 DEF u
<1>8. CASE l.tag # tag
  <2>1. more = those
    BY <1>4, <1>8
  <2>2. those # {} => Latest(those) \in 1 .. n
    BY <1>5, LatestIsLast
  <2>3. those # {} => u[Latest(those)] = t[Latest(those)]
    BY <1>2, <2>2
  <2>4. QED BY <1>6, <1>8, <2>1, <2>3 DEF u
<1>9. QED BY <1>7, <1>8

(* The admin is asked for by this line or by one before it. *)
LEMMA AskedGrows ==
  ASSUME NEW t \in Seq(Lines), NEW l \in Lines
  PROVE  AdminIsAsked(Append(t, l)) <=> AdminIsAsked(t) \/ (l.tag = "admin" /\ Port(l) /= 0)
<1>1. PICK n \in Nat : n = Len(t)
  OBVIOUS
<1> DEFINE u == Append(t, l)
           asks(k) == k.tag = "admin" /\ Port(k) /= 0
<1>2. /\ DOMAIN t = 1 .. n /\ DOMAIN u = 1 .. n + 1
      /\ u[n + 1] = l /\ \A i \in 1 .. n : u[i] = t[i]
  BY <1>1
<1>3. \A i : i \in 1 .. n + 1 <=> i \in 1 .. n \/ i = n + 1
  BY <1>1
<1>4. /\ AdminIsAsked(t) <=> \E i \in 1 .. n : asks(t[i])
      /\ AdminIsAsked(u) <=> \E i \in 1 .. n + 1 : asks(u[i])
  BY <1>2 DEF AdminIsAsked
<1>5. asks(l) <=> l.tag = "admin" /\ Port(l) /= 0
  OBVIOUS
<1> HIDE DEF u, asks
<1>6. AdminIsAsked(u) <=> AdminIsAsked(t) \/ asks(l)
  BY <1>2, <1>3, <1>4
<1>7. QED BY <1>5, <1>6 DEF u

(* At the start of a file: no bind, and the defaults. *)
LEMMA NothingSet ==
  /\ Begins(<<>>) = {}
  /\ SetIn(Defaults, <<>>)
<1>1. DOMAIN <<>> = {}
  OBVIOUS
<1>2. Begins(<<>>) = {} /\ ~AdminIsAsked(<<>>)
  BY <1>1 DEF Begins, AdminIsAsked
<1>3. \A tag, default : Setting(<<>>, tag, default) = default
  BY <1>1 DEF Setting
<1> DEFINE admin == [enabled |-> FALSE, ip |-> "any", port |-> 8182]
<1>4. admin.enabled = FALSE
  OBVIOUS
<1>5. Defaults = [admin |-> admin, retryserver |-> 30, conperthread |-> 16]
  BY DEF Defaults
<1> HIDE DEF admin
<1>6. /\ {"admin", "retryserver", "conperthread"} \subseteq DOMAIN Defaults
      /\ Defaults.admin = admin /\ Defaults.retryserver = 30 /\ Defaults.conperthread = 16
  BY <1>5
<1>7. QED BY <1>2, <1>3, <1>4, <1>6 DEF SetIn

(* processConfigLine keeps the settings in step with the text. *)
LEMMA LineIsSet ==
  ASSUME NEW l \in Lines, processConfigLine(l), NEW t \in Seq(Lines), SetIn(settings, t)
  PROVE  SetIn(settings', Append(t, l))
<1> DEFINE u == Append(t, l)
<1>1. /\ AdminIsAsked(u) <=> AdminIsAsked(t) \/ (l.tag = "admin" /\ Port(l) /= 0)
      /\ \A tag, default : Setting(u, tag, default) =
           IF l.tag = tag THEN Or(l.n, default) ELSE Setting(t, tag, default)
  BY AskedGrows, SettingGrows
<1>2. /\ {"admin", "retryserver", "conperthread"} \subseteq DOMAIN settings
      /\ settings.admin.enabled <=> AdminIsAsked(t)
      /\ settings.retryserver = Setting(t, "retryserver", 30)
      /\ settings.conperthread = Setting(t, "conperthread", 16)
  BY DEF SetIn
<1>3. Defaults.retryserver = 30 /\ Defaults.conperthread = 16
  BY DEF Defaults
<1> HIDE DEF u
<1>4. CASE l.tag = "retryserver"
  <2>1. settings' = [settings EXCEPT !.retryserver = Or(l.n, 30)]
    BY <1>3, <1>4 DEF processConfigLine, RetryLine
  <2>2. /\ {"admin", "retryserver", "conperthread"} \subseteq DOMAIN settings'
        /\ settings'.admin = settings.admin /\ settings'.retryserver = Or(l.n, 30)
        /\ settings'.conperthread = settings.conperthread
    BY <1>2, <2>1
  <2>3. QED BY <1>1, <1>2, <1>4, <2>2 DEF SetIn, u
<1>5. CASE l.tag = "conperthread"
  <2>1. settings' = [settings EXCEPT !.conperthread = Or(l.n, 16)]
    BY <1>3, <1>5 DEF processConfigLine, ConPerThreadLine
  <2>2. /\ {"admin", "retryserver", "conperthread"} \subseteq DOMAIN settings'
        /\ settings'.admin = settings.admin /\ settings'.conperthread = Or(l.n, 16)
        /\ settings'.retryserver = settings.retryserver
    BY <1>2, <2>1
  <2>3. QED BY <1>1, <1>2, <1>5, <2>2 DEF SetIn, u
<1>6. CASE l.tag = "admin" /\ Port(l) /= 0
  <2> DEFINE at == Listens(l, "127.0.0.1")
             admin == [enabled |-> TRUE, ip |-> at.ip, port |-> at.port]
  <2>1. settings' = [settings EXCEPT !.admin = admin]
    BY <1>6 DEF processConfigLine, AdminLine
  <2>2. admin.enabled = TRUE
    OBVIOUS
  <2> HIDE DEF admin
  <2>3. /\ {"admin", "retryserver", "conperthread"} \subseteq DOMAIN settings'
        /\ settings'.admin = admin /\ settings'.conperthread = settings.conperthread
        /\ settings'.retryserver = settings.retryserver
    BY <1>2, <2>1
  <2>4. QED BY <1>1, <1>2, <1>6, <2>2, <2>3 DEF SetIn, u
<1>7. CASE l.tag \notin {"retryserver", "conperthread"} /\ ~(l.tag = "admin" /\ Port(l) /= 0)
  <2>1. settings' = settings
    BY <1>7 DEF processConfigLine, BindLine, ServerLine, FilterLine, AdminLine, TaskLine
  <2>2. QED BY <1>1, <1>2, <1>7, <2>1 DEF SetIn, u
<1>8. QED BY <1>4, <1>5, <1>6, <1>7
-----------------------------------------------------------------------------
(* What the Bind will be told. *)
AsWritten ==
  /\ Begins(text) /= {}
  /\ running.bind = Written(Section(text))
  /\ running.settings.admin.enabled <=> AdminIsAsked(text)
  /\ running.settings.retryserver = Setting(text, "retryserver", 30)
  /\ running.settings.conperthread = Setting(text, "conperthread", 16)

Files == STRING \cup {"relb.conf", "/etc/relb.conf"}

(* What is read is what the text says so far, from the file's first line on. *)
ConfigInv ==
  /\ ConfigTypeOK
  /\ configfile \in Seq(Files)
  /\ stage \in {"read", "check", "setup"} => ListedIn(bind, text) /\ SetIn(settings, text)
  /\ stage = "setup" => IsComplete
  /\ stage = "ready" => AsWritten

(* An argument that is passed leaves a list of arguments. *)
LEMMA ArgumentsGiven ==
  ASSUME NEW args \in Seq(STRING), NEW word
  PROVE  Past(args, word) \in Seq(STRING)
<1>1. Len(args) > 1 => Tail(args) \in Seq(STRING)
  OBVIOUS
<1>2. QED BY <1>1 DEF Past

(* main's arguments name the file, or the two that are tried. *)
LEMMA ReadArgumentsInv == ConfigInv /\ ReadArguments => ConfigInv'
<1> SUFFICES ASSUME ConfigInv, ReadArguments PROVE ConfigInv'
  OBVIOUS
<1>1. PICK args \in Arguments, after \in Seq(STRING) :
        /\ console' \in BOOLEAN
        /\ configfile' = IF Is(after, "configfile") /\ Len(after) > 1
                         THEN <<after[2]>> ELSE <<"relb.conf", "/etc/relb.conf">>
        /\ stage' \in {"exited", "open"}
  <2>1. PICK args \in Arguments :
          LET afterServices == Past(Past(args, "uninstallservice"), "installservice")
              afterConsole  == Past(afterServices, "console")
              afterLicense  == Past(afterConsole, "license")
          IN  /\ console' = Is(afterServices, "console")
              /\ configfile' = IF Is(afterLicense, "configfile") /\ Len(afterLicense) > 1
                               THEN <<afterLicense[2]>>
                               ELSE <<"relb.conf", "/etc/relb.conf">>
              /\ stage' \in {"exited", "open"}
    BY DEF ReadArguments
  <2>2. args \in Seq(STRING)
    BY AppConfigAssumption
  <2>3. Past(Past(Past(Past(args, "uninstallservice"), "installservice"), "console"), "license")
          \in Seq(STRING)
    BY <2>2, ArgumentsGiven
  <2>4. QED BY <2>1, <2>3 DEF Is
<1>2. configfile' \in Seq(Files) /\ configfile' # <<>>
  <2>1. CASE Is(after, "configfile") /\ Len(after) > 1
    <3>1. 2 \in 1 .. Len(after) /\ after[2] \in STRING
      BY <2>1
    <3>2. PICK x \in STRING : x = after[2]
      BY <3>1
    <3>3. x \in Files
      BY DEF Files
    <3>4. <<x>> \in Seq(Files) /\ <<x>> # <<>>
      BY <3>3, ShortLists
    <3>5. QED BY <1>1, <2>1, <3>2, <3>4
  <2>2. CASE ~(Is(after, "configfile") /\ Len(after) > 1)
    <3>1. PICK x \in Files, y \in Files : x = "relb.conf" /\ y = "/etc/relb.conf"
      BY DEF Files
    <3>2. <<x, y>> \in Seq(Files) /\ <<x, y>> # <<>>
      BY <3>1, ShortLists
    <3>3. QED BY <1>1, <2>2, <3>1, <3>2
  <2>3. QED BY <2>1, <2>2
<1>3. text' = text
  BY DEF ReadArguments
<1>4. QED BY <1>1, <1>2, <1>3 DEF ConfigInv, ConfigTypeOK, Stages

(* After a file that was not loaded the next one is opened, if there is one. *)
LEMMA NotLoadedKeeps ==
  ASSUME ConfigInv, NotLoaded, stage \in {"open", "read"}
  PROVE  /\ configfile' \in Seq(Files)
         /\ stage' \in {"exited", "open"}
         /\ stage' = "open" => configfile' # <<>>
<1>1. configfile \in Seq(Files) /\ configfile # <<>>
  BY DEF ConfigInv, ConfigTypeOK
<1>2. configfile' = Tail(configfile) /\ stage' = IF Len(configfile) = 1 THEN "exited" ELSE "open"
  BY DEF NotLoaded
<1>3. Tail(configfile) \in Seq(Files) /\ (Len(configfile) # 1 => Tail(configfile) # <<>>)
  BY <1>1, ShortLists
<1>4. QED BY <1>2, <1>3

(* loadFile starts from the defaults and no bind, whatever was read before. *)
LEMMA OpenFileInv == ConfigInv /\ OpenFile => ConfigInv'
<1> SUFFICES ASSUME ConfigInv, OpenFile PROVE ConfigInv'
  OBVIOUS
<1>1. text' = <<>> /\ console' = console /\ stage = "open" /\ bind' = <<>> /\ settings' = Defaults
  BY DEF OpenFile, NotLoaded, setDefaultValues
<1>2. text' \in Seq(Lines) /\ Len(text') <= MAX_CONFIG_LINES
  BY <1>1, AppConfigAssumption
<1>3. CASE NotLoaded
  BY <1>1, <1>2, <1>3, NotLoadedKeeps DEF ConfigInv, ConfigTypeOK, Stages
<1>4. CASE stage' = "read" /\ UNCHANGED configfile
  <2>1. ListedIn(<<>>, <<>>)
    BY NothingSet DEF ListedIn
  <2>2. ListedIn(bind', text') /\ SetIn(settings', text')
    BY <1>1, <2>1, NothingSet
  <2>3. ConfigTypeOK' /\ configfile' \in Seq(Files)
    BY <1>1, <1>2, <1>4 DEF ConfigInv, ConfigTypeOK, Stages
  <2>4. QED BY <1>4, <2>2, <2>3 DEF ConfigInv
<1>5. QED BY <1>3, <1>4 DEF OpenFile

(* One line of the file more. *)
LEMMA ReadLineInv == ConfigInv /\ ReadLine => ConfigInv'
<1> SUFFICES ASSUME ConfigInv, ReadLine PROVE ConfigInv'
  OBVIOUS
<1>1. PICK l \in Lines : processConfigLine(l) /\ text' = Append(text, l)
  BY DEF ReadLine
<1>2. /\ stage = "read" /\ Len(text) < MAX_CONFIG_LINES
      /\ UNCHANGED <<stage, console, configfile>>
  BY DEF ReadLine
<1>3. text \in Seq(Lines) /\ ListedIn(bind, text) /\ SetIn(settings, text)
  BY <1>2 DEF ConfigInv, ConfigTypeOK
<1>4. ListedIn(bind', text')
  <2>1. bind \in Seq(BindType)
    BY <1>3 DEF ListedIn
  <2>2. bind' = IF IsBegin(l) THEN Append(bind, Added(NoBind, l))
                ELSE IF bind = <<>> THEN bind
                ELSE [bind EXCEPT ![Len(bind)] = Added(@, l)]
    BY <1>1, <2>1, LineIsAdded
  <2>3. PICK t, b, c : t \in Seq(Lines) /\ t = text /\ b = bind /\ c = bind'
    BY <1>3
  <2>4. ListedIn(c, Append(t, l))
    BY <1>3, <2>2, <2>3, LineIsListed
  <2>5. QED BY <1>1, <2>3, <2>4
<1>5. SetIn(settings', text')
  BY <1>1, <1>3, LineIsSet
<1>6. text' \in Seq(Lines) /\ Len(text') <= MAX_CONFIG_LINES
  <2>1. MAX_CONFIG_LINES \in Nat /\ Len(text) \in Nat /\ Len(text') = Len(text) + 1
    BY <1>1, <1>3, AppConfigAssumption
  <2>2. QED BY <1>1, <1>2, <1>3, <2>1
<1>7. QED BY <1>2, <1>4, <1>5, <1>6 DEF ConfigInv, ConfigTypeOK

(* main takes the first bind out with the getters: it is complete, so they *)
(* make nothing up.                                                         *)
LEMMA SetUpInv == ConfigInv /\ SetUp => ConfigInv'
<1> SUFFICES ASSUME ConfigInv, SetUp PROVE ConfigInv'
  OBVIOUS
<1> DEFINE b == bind[1]
           told == [address |-> TheAddresses(b), dst |-> TheServers(b),
                    filter |-> b.filter, tasks |-> b.tasks]
<1>1. /\ stage = "setup" /\ stage' = "ready"
      /\ running' = [bind |-> told, settings |-> settings]
      /\ UNCHANGED <<console, configfile, bind, settings, text>>
  BY DEF SetUp
<1>2. /\ ListedIn(bind, text) /\ SetIn(settings, text) /\ IsComplete
      /\ bind # <<>> /\ Begins(text) # {} /\ b = Written(Section(text))
  BY <1>1 DEF ConfigInv, ListedIn, IsComplete
<1>3. 1 \in DOMAIN bind /\ b \in BindType
  BY <1>2, EmptySeq, ElementOfSeq DEF ListedIn
<1>4. b.address # <<>> /\ b.dst # <<>>
  BY <1>2, <1>3 DEF IsComplete
<1>5. told = b
  <2>1. b = [address |-> b.address, dst |-> b.dst, filter |-> b.filter, tasks |-> b.tasks]
    BY <1>3 DEF BindType
  <2>2. TheAddresses(b) = b.address /\ TheServers(b) = b.dst
    BY <1>4 DEF TheAddresses, TheServers, AtLeast
  <2> HIDE DEF b
  <2>3. QED BY <2>1, <2>2
<1> HIDE DEF told
<1>6. running'.bind = told /\ running'.settings = settings
  BY <1>1
<1>7. AsWritten'
  BY <1>1, <1>2, <1>5, <1>6 DEF AsWritten, SetIn
<1>8. QED BY <1>1, <1>7 DEF ConfigInv, ConfigTypeOK, Stages

(* Every step of the program keeps it. *)
LEMMA ConfigInvPreserved == ConfigInv /\ [ProgramNext]_programVars => ConfigInv'
<1> SUFFICES ASSUME ConfigInv, [ProgramNext]_programVars PROVE ConfigInv'
  OBVIOUS
<1>1. CASE UNCHANGED configVars
  BY <1>1 DEF configVars, ConfigInv, ConfigTypeOK, IsComplete, AsWritten
<1>2. CASE ReadArguments
  BY <1>2, ReadArgumentsInv
<1>3. CASE OpenFile
  BY <1>3, OpenFileInv
<1>4. CASE ReadLine
  BY <1>4, ReadLineInv
<1>5. CASE ReadFails
  <2>1. NotLoaded /\ stage = "read" /\ UNCHANGED <<console, text, running>>
    BY <1>5 DEF ReadFails
  <2>2. QED BY <2>1, NotLoadedKeeps DEF ConfigInv, ConfigTypeOK, Stages
<1>6. CASE EndOfFile
  BY <1>6 DEF EndOfFile, ConfigInv, ConfigTypeOK, Stages
<1>7. CASE checkConfig
  BY <1>7 DEF checkConfig, ConfigInv, ConfigTypeOK, Stages, IsComplete
<1>8. CASE SetUp
  BY <1>8, SetUpInv
<1>9. CASE StartBind
  <2>1. /\ stage' = "started" /\ console' = console
        /\ configfile' = <<>> /\ text' = <<>>
    BY <1>9 DEF StartBind
  <2>2. text' \in Seq(Lines) /\ Len(text') <= MAX_CONFIG_LINES /\ configfile' \in Seq(Files)
    BY <2>1, AppConfigAssumption
  <2>3. QED BY <2>1, <2>2 DEF ConfigInv, ConfigTypeOK, Stages
<1>10. QED
  BY <1>1, <1>2, <1>3, <1>4, <1>5, <1>6, <1>7, <1>8, <1>9
  DEF ProgramNext, programVars, Configure, ConfigNext, RunBind, StopFromConsole,
      StopWithoutConsole

(* Whatever the files, the arguments and the failures: the Bind is told what *)
(* the one file that was loaded says, and nothing that was made up           *)
(* (AppConfig::loadConfig, processConfigLine, main.cpp).                     *)
THEOREM ToldIsWritten == ProgramSpec => []ConfiguredAsWritten
<1>1. ProgramInit => ConfigInv
  <2> SUFFICES ASSUME ProgramInit PROVE ConfigInv
    OBVIOUS
  <2>1. stage = "arguments" /\ console = FALSE /\ configfile = <<>> /\ text = <<>>
    BY DEF ProgramInit, ConfigInit
  <2>2. text \in Seq(Lines) /\ Len(text) <= MAX_CONFIG_LINES /\ configfile \in Seq(Files)
    BY <2>1, AppConfigAssumption
  <2>3. QED BY <2>1, <2>2 DEF ConfigInv, ConfigTypeOK, Stages
<1>2. ConfigInv => ConfiguredAsWritten
  BY DEF ConfigInv, ConfiguredAsWritten, AsWritten
<1>3. QED BY <1>1, <1>2, ConfigInvPreserved, PTL DEF ProgramSpec
=============================================================================
