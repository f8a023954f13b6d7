-------------------------- MODULE ServerListProofs --------------------------
(***************************************************************************)
(* The directory of sessions and the admin's mirror of it, proved for any  *)
(* number of clients, servers, connections, messages and tasks; what is    *)
(* said of the directory holds with and without the admin option:          *)
(*                                                                         *)
(*   EntriesAreSound        nothing twice, nothing deleted                 *)
(*   EntriesAreAllowed      the filters hold for every session             *)
(*   LiveIsListed           a connection that has not ended is listed      *)
(*   EndedIsMarked          what has ended looks ended                     *)
(*   OnlyEndedAreReplaced   only that is taken out of the directory        *)
(*   EndedAreCounted        and what a clean would take is counted         *)
(*   RequestsMeetTheListed  a page's request meets only what is listed     *)
(*   LiveIsShown            the admin shows every connection that lives    *)
(*   StatusIsMirrored       with the status that ServerList gave it        *)
(*   ShownIsListed          and in the end nothing that was dropped        *)
(*                                                                         *)
(* The first five follow from one invariant, Inv.  Its heart is about a    *)
(* peer_info that one connection has (~Shared): as long as that connection *)
(* lives, the entry is in the list, does not look ended, and no message    *)
(* says it ended (Living); from its end on, the entry is off the list, or  *)
(* marked, or a message that will mark it is on its way and nothing behind *)
(* that says the contrary (Passed).  The counters add Covered; the mirror  *)
(* adds what the messages to the admin say of a session (AdminInv), and of *)
(* one that is dropped (Leavers).                                          *)
(***************************************************************************)
EXTENDS AdminMirror, SelectionProofs, FiniteSetTheorems

(***************************************************************************)
(* The invariant.                                                          *)
(***************************************************************************)
Asked == {"PEER_CONNECTION_KICKED"} \cup Bans
Made == "CONNECTION_ESTABLISHED"

MessageType == [id : PeerNotConnected \cup {Made} \cup Asked, param : Infos]

InfoType == [client : Clients, port : Nat, server : DOMAIN Servers,
             status : Statuses, old : BOOLEAN]

Uses(c, p) == connection[c].info = p

(* Reused, without counting.                                               *)
Shared(p) ==
  \/ \E c, d \in DOMAIN connection : c # d /\ Uses(c, p) /\ Uses(d, p)
  \/ bind.info = p /\ \E c \in DOMAIN connection : Uses(c, p)

ServersKept ==
  /\ servers_list \in Seq(ServerType(Ips))
  /\ DOMAIN servers_list = DOMAIN Servers
  /\ \A s \in DOMAIN Servers : servers_list[s].ip = Servers[s].ip
  /\ last_server_assigned \in DOMAIN Servers
  /\ bind_read.connecting \in Nat /\ list_read \in Nat

Entries ==
  /\ info \in [DOMAIN info -> InfoType]
  /\ DOMAIN info \subseteq Infos
  /\ \A p \in DOMAIN info :
       IsServerAllowed(filter_list, Servers[info[p].server].ip, info[p].client)

Listed ==
  /\ peer_list \in Seq(Infos)
  /\ IsInjective(peer_list)
  /\ freed \subseteq DOMAIN info
  /\ ToSet(peer_list) \subseteq DOMAIN info \ freed

Dated == modified \in Seq(Infos) /\ DOMAIN info \subseteq ToSet(modified)

Carried ==
  /\ jq \in Seq(MessageType)
  /\ connection \in Seq(ConnectionType)
  /\ to_be_closed \subseteq Infos

BindRecords ==
  [pc : {"idle", "recreate", "select", "add", "connect"},
   client : Clients \cup {"none"}, port : Nat, index : Nat, server : Nat,
   info : Infos \cup {NoInfo}]

Binding ==
  /\ bind \in BindRecords
  /\ bind.pc # "idle" => bind.client \in Clients /\ Len(connection) < MaxConnections
  /\ bind.pc = "recreate" => bind.index # 0
  /\ bind.pc \in {"idle", "recreate", "select"} => bind.info = NoInfo
  /\ bind.pc \in {"add", "connect"} => bind.info \in DOMAIN info
  /\ bind.pc = "add" => /\ bind.info \notin ToSet(peer_list) /\ bind.info \notin freed
                        /\ info[bind.info].status \notin PeerNotConnected
                        /\ \A c \in DOMAIN connection : ~Uses(c, bind.info)

Counting ==
  /\ list.pc \in {"idle", "counting"}
  /\ list.pc = "idle" => list.msg = NoMessage
  /\ list.pc = "counting" => /\ list.msg \in MessageType
                             /\ list.msg.param \in ToSet(peer_list)
                             /\ \/ list.msg.id = "PEER_CONNECTION_KICKED"
                                \/ Shared(list.msg.param)
                                \/ info[list.msg.param].status = list.msg.id

(* There are addresses enough.                                             *)
Enough ==
  Cardinality(DOMAIN info) <= Len(connection) + (IF bind.info = NoInfo THEN 0 ELSE 1)

(* Whose a session and a message are.                                      *)
Owned ==
  /\ \A c \in DOMAIN connection : connection[c].info \in DOMAIN info
  /\ \A p \in DOMAIN info : p = bind.info \/ \E c \in DOMAIN connection : Uses(c, p)
  /\ \A i \in DOMAIN jq :
       jq[i].id \in Asked \/ \E c \in DOMAIN connection : Uses(c, jq[i].param)

Alive == {"connecting", "open"}

Lives(p) ==
  \/ bind.pc = "connect" /\ bind.info = p
  \/ \E c \in DOMAIN connection : Uses(c, p) /\ connection[c].phase \in Alive

Ends(p) == \E c \in DOMAIN connection : Uses(c, p) /\ connection[c].phase \notin Alive

Living(p) ==
  /\ p \in ToSet(peer_list)
  /\ info[p].status \notin PeerNotConnected
  /\ \A i \in DOMAIN jq : jq[i].param = p => jq[i].id \notin PeerNotConnected
  /\ list.msg.param = p => list.msg.id \notin PeerNotConnected

NotEstablishedAfter(p, n) ==
  \A j \in DOMAIN jq : j > n /\ jq[j].param = p => jq[j].id # Made

Passed(p) ==
  \/ p \notin ToSet(peer_list)
  \/ \E i \in DOMAIN jq : /\ jq[i].param = p /\ jq[i].id \in PeerNotConnected
                          /\ NotEstablishedAfter(p, i)
  \/ info[p].status \in PeerNotConnected \cup Bans /\ NotEstablishedAfter(p, 0)

Followed ==
  /\ \A p \in DOMAIN info : Lives(p) /\ ~Shared(p) => Living(p)
  /\ \A p \in DOMAIN info : Ends(p) /\ ~Shared(p) => Passed(p)

Inv ==
  /\ ServersKept /\ Entries /\ Listed /\ Dated /\ Carried
  /\ Binding /\ Counting /\ Enough /\ Owned /\ Followed

-----------------------------------------------------------------------------
(* Parts that a step leaves alone.                                         *)

LEMMA EntriesSame == ASSUME Entries, UNCHANGED info PROVE Entries'
  BY DEF Entries

LEMMA ListedSame == ASSUME Listed, UNCHANGED <<peer_list, info, freed>> PROVE Listed'
  BY DEF Listed

LEMMA DatedSame == ASSUME Dated, UNCHANGED <<modified, info>> PROVE Dated'
  BY DEF Dated

LEMMA CarriedSame == ASSUME Carried, UNCHANGED outside PROVE Carried'
  BY DEF Carried, outside

LEMMA ServersSame == ASSUME ServersKept, UNCHANGED counters PROVE ServersKept'
  BY DEF ServersKept, counters

LEMMA SharedSame ==
  ASSUME NEW p, UNCHANGED <<connection, bind>>
  PROVE  Shared(p)' <=> Shared(p)
  BY DEF Shared, Uses

LEMMA BindingSame ==
  ASSUME Binding, UNCHANGED <<bind, connection, info, peer_list, freed>>
  PROVE  Binding'
  BY DEF Binding, Uses

LEMMA CountingSame ==
  ASSUME Counting, UNCHANGED <<list, peer_list, info, connection, bind>>
  PROVE  Counting'
  BY DEF Counting, Shared, Uses

LEMMA EnoughSame == ASSUME Enough, UNCHANGED <<info, connection, bind>> PROVE Enough'
  BY DEF Enough

LEMMA OwnedSame == ASSUME Owned, UNCHANGED <<info, connection, bind, jq>> PROVE Owned'
  BY DEF Owned, Uses

LEMMA FollowedSame ==
  ASSUME Followed, UNCHANGED <<bind, list, peer_list, info, connection, jq>>
  PROVE  Followed'
  BY DEF Followed, Lives, Ends, Living, Passed, NotEstablishedAfter, Shared, Uses

-----------------------------------------------------------------------------
(* The servers: their addresses stay, whatever is counted.                 *)
SameHosts(f, g) ==
  /\ g \in Seq(ServerType(Ips))
  /\ DOMAIN g = DOMAIN f
  /\ \A s \in DOMAIN f : g[s].ip = f[s].ip

LEMMA HostsKept ==
  ASSUME ServersKept, SameHosts(servers_list, servers_list'),
         last_server_assigned' \in DOMAIN Servers,
         bind_read'.connecting \in Nat, list_read' \in Nat
  PROVE  ServersKept'
  BY DEF ServersKept, SameHosts

LEMMA HostsOnward ==
  ASSUME NEW f, NEW g, NEW h, SameHosts(f, g), SameHosts(g, h)
  PROVE  SameHosts(f, h)
  BY DEF SameHosts

LEMMA HostsOfAll ==
  ASSUME NEW f \in Seq(ServerType(Ips)), NEW g, g = [s \in DOMAIN f |-> g[s]],
         \A s \in DOMAIN f : g[s] \in ServerType(Ips) /\ g[s].ip = f[s].ip
  PROVE  SameHosts(f, g)
<1>1. Len(f) \in Nat /\ DOMAIN f = 1 .. Len(f)
  OBVIOUS
<1>2. g \in [1 .. Len(f) -> ServerType(Ips)]
  BY <1>1
<1>3. g \in Seq(ServerType(Ips))
  BY <1>1, <1>2, SeqDef
<1>4. QED BY <1>3 DEF SameHosts

LEMMA HostsOfOne ==
  ASSUME NEW f \in Seq(ServerType(Ips)), NEW b, NEW r,
         b \in DOMAIN f => r \in ServerType(Ips) /\ r.ip = f[b].ip
  PROVE  SameHosts(f, [f EXCEPT ![b] = r])
<1> DEFINE g == [f EXCEPT ![b] = r]
<1>1. g = [s \in DOMAIN f |-> g[s]]
  OBVIOUS
<1>2. \A s \in DOMAIN f : f[s] \in ServerType(Ips)
  BY ElementOfSeq
<1>3. \A s \in DOMAIN f : g[s] \in ServerType(Ips) /\ g[s].ip = f[s].ip
  BY <1>2
<1> HIDE DEF g
<1>4. SameHosts(f, g)
  BY <1>1, <1>3, HostsOfAll
<1>5. QED BY <1>4 DEF g

LEMMA ReducedType ==
  ASSUME NEW n \in Nat, NEW k \in Nat
  PROVE  Reduced(n, k) \in Nat
  BY DEF Reduced

LEMMA ConnectingSet ==
  ASSUME ServersKept, NEW s, NEW n \in Nat
  PROVE  SameHosts(servers_list, [servers_list EXCEPT ![s].connecting = n])
<1> DEFINE old == servers_list[s]
           new == [old EXCEPT !.connecting = n]
<1>1. [servers_list EXCEPT ![s].connecting = n] = [servers_list EXCEPT ![s] = new]
  OBVIOUS
<1>2. servers_list \in Seq(ServerType(Ips))
  BY DEF ServersKept
<1>3. ASSUME s \in DOMAIN servers_list
      PROVE  new \in ServerType(Ips) /\ new.ip = old.ip
  <2>1. old \in ServerType(Ips)
    BY <1>2, <1>3, ElementOfSeq
  <2> HIDE DEF old
  <2>2. QED BY <2>1 DEF ServerType
<1>4. s \in DOMAIN servers_list => new \in ServerType(Ips) /\ new.ip = servers_list[s].ip
  BY <1>3
<1> HIDE DEF new
<1>5. SameHosts(servers_list, [servers_list EXCEPT ![s] = new])
  BY <1>2, <1>4, HostsOfOne
<1>6. QED BY <1>1, <1>5

(* What bind and list read of a server is a number.                        *)
LEMMA ReadsAreNumbers ==
  ASSUME ServersKept, NEW s \in DOMAIN Servers
  PROVE  servers_list[s].connecting \in Nat
<1>1. servers_list \in Seq(ServerType(Ips)) /\ s \in DOMAIN servers_list
  BY DEF ServersKept
<1>2. servers_list[s] \in ServerType(Ips)
  BY <1>1, ElementOfSeq
<1>3. QED BY <1>2 DEF ServerType

LEMMA CountedHosts ==
  ASSUME NEW server \in ServerType(Ips), NEW id, NEW forgotten \in BOOLEAN
  PROVE  /\ Counted(server, id, forgotten) \in ServerType(Ips)
         /\ Counted(server, id, forgotten).ip = server.ip
<1> DEFINE failed == server.failed \/ id = "CONNECTION_FAILED"
           connecting == IF id = "CONNECTION_FAILED" THEN Decreased(server.connecting)
                         ELSE server.connecting
           connected == IF id = "CONNECTION_FAILED" THEN server.connected
                        ELSE Decreased(server.connected)
           disconnected == IF ~forgotten /\ id \in PeerDisconnected
                           THEN server.disconnected + 1 ELSE server.disconnected
           finished == IF ~forgotten /\ id \notin PeerDisconnected
                       THEN server.finished + 1 ELSE server.finished
<1>0. /\ server.connecting \in Nat /\ server.connected \in Nat
      /\ server.disconnected \in Nat /\ server.finished \in Nat
      /\ server.failed \in BOOLEAN
  BY DEF ServerType
<1>1. \A n \in Nat : Decreased(n) \in Nat
  BY ReducedType DEF Decreased
<1>2. /\ Ended(server, id, forgotten) \in ServerType(Ips)
      /\ Ended(server, id, forgotten).ip = server.ip
  <2>1. /\ connecting \in Nat /\ connected \in Nat
        /\ disconnected \in Nat /\ finished \in Nat
    BY <1>0, <1>1
  <2>2. failed \in BOOLEAN
    BY <1>0
  <2> DEFINE s1 == [server EXCEPT !.failed = failed]
             s2 == [s1 EXCEPT !.connecting = connecting]
             s3 == [s2 EXCEPT !.connected = connected]
             s4 == [s3 EXCEPT !.disconnected = disconnected]
             s5 == [s4 EXCEPT !.finished = finished]
  <2>3. Ended(server, id, forgotten) = s5
    BY DEF Ended
  <2> HIDE DEF failed, connecting, connected, disconnected, finished
  <2>4. s1 \in ServerType(Ips) /\ s1.ip = server.ip
    BY <2>2 DEF ServerType
  <2> HIDE DEF s1
  <2>5. s2 \in ServerType(Ips) /\ s2.ip = server.ip
    BY <2>1, <2>4 DEF ServerType
  <2> HIDE DEF s2
  <2>6. s3 \in ServerType(Ips) /\ s3.ip = server.ip
    BY <2>1, <2>5 DEF ServerType
  <2> HIDE DEF s3
  <2>7. s4 \in ServerType(Ips) /\ s4.ip = server.ip
    BY <2>1, <2>6 DEF ServerType
  <2> HIDE DEF s4
  <2>8. s5 \in ServerType(Ips) /\ s5.ip = server.ip
    BY <2>1, <2>7 DEF ServerType
  <2> HIDE DEF s5
  <2>9. QED BY <2>3, <2>8
<1>3. /\ Established(server) \in ServerType(Ips)
      /\ Established(server).ip = server.ip
  <2> DEFINE s1 == [server EXCEPT !.connected = @ + 1]
             s2 == [s1 EXCEPT !.connecting = Decreased(@)]
             s3 == [s2 EXCEPT !.failed = FALSE]
  <2>1. s1 \in ServerType(Ips) /\ s1.ip = server.ip /\ s1.connecting = server.connecting
    BY <1>0 DEF ServerType
  <2>2. Established(server) = s3
    BY DEF Established
  <2> HIDE DEF s1
  <2>3. s2 \in ServerType(Ips) /\ s2.ip = server.ip
    BY <1>0, <1>1, <2>1 DEF ServerType
  <2> HIDE DEF s2
  <2>4. s3 \in ServerType(Ips) /\ s3.ip = server.ip
    BY <2>3 DEF ServerType
  <2>5. QED BY <2>2, <2>4
<1>4. QED BY <1>2, <1>3 DEF Counted

(* A number of places of a list is one.                                    *)
LEMMA PlacesCounted ==
  ASSUME NEW S, NEW s \in Seq(S), NEW T, T \subseteq DOMAIN s
  PROVE  IsFiniteSet(T) /\ Cardinality(T) \in Nat
<1>1. DOMAIN s = 1 .. Len(s) /\ Len(s) \in Nat
  OBVIOUS
<1>2. IsFiniteSet(1 .. Len(s))
  BY <1>1, FS_Interval
<1>3. IsFiniteSet(T)
  BY <1>1, <1>2, FS_Subset
<1>4. QED BY <1>3, FS_CardinalityType

LEMMA CountedOffHosts ==
  ASSUME NEW f \in Seq(ServerType(Ips)), NEW S, NEW sessions \in Seq(S), NEW status
  PROVE  SameHosts(f, CountedOff(f, sessions, status))
<1> DEFINE Number(s, statuses) ==
             Cardinality({i \in DOMAIN sessions :
                            /\ FirstServerOf(sessions[i]) = s
                            /\ status[sessions[i]] \in statuses})
           lost(s) == Number(s, PeerDisconnected)
           over(s) == Number(s, Statuses \ PeerDisconnected)
           new(s) == [f[s] EXCEPT
                        !.disconnected = Reduced(@, lost(s)),
                        !.finished = Reduced(@, over(s) + Reduced(lost(s), f[s].disconnected))]
           g == [s \in DOMAIN f |-> new(s)]
<1>1. CountedOff(f, sessions, status) = g
  BY DEF CountedOff
<1>2. ASSUME NEW s \in DOMAIN f
      PROVE  new(s) \in ServerType(Ips) /\ new(s).ip = f[s].ip
  <2>1. lost(s) \in Nat /\ over(s) \in Nat
    <3>1. ASSUME NEW statuses PROVE Number(s, statuses) \in Nat
      <4> DEFINE T == {i \in DOMAIN sessions :
                            /\ FirstServerOf(sessions[i]) = s
                            /\ status[sessions[i]] \in statuses}
      <4>1. T \subseteq DOMAIN sessions
        OBVIOUS
      <4> HIDE DEF T
      <4>2. Cardinality(T) \in Nat
        BY <4>1, PlacesCounted
      <4>3. QED BY <4>2 DEF T
    <3> HIDE DEF Number
    <3>2. QED BY <3>1
  <2> DEFINE old == f[s]
             d == Reduced(old.disconnected, lost(s))
             e == Reduced(old.finished, over(s) + Reduced(lost(s), old.disconnected))
             mid == [old EXCEPT !.disconnected = d]
  <2>2. old \in ServerType(Ips)
    BY ElementOfSeq
  <2>3. old.disconnected \in Nat /\ old.finished \in Nat
    BY <2>2 DEF ServerType
  <2>4. d \in Nat /\ e \in Nat
    <3> HIDE DEF Number, old, lost, over
    <3>1. Reduced(lost(s), old.disconnected) \in Nat
      BY <2>1, <2>3, ReducedType
    <3>2. over(s) + Reduced(lost(s), old.disconnected) \in Nat
      BY <2>1, <3>1
    <3>3. QED BY <2>1, <2>3, <3>2, ReducedType
  <2>5. new(s) = [old EXCEPT !.disconnected = d, !.finished = e]
    OBVIOUS
  <2> HIDE DEF d, e, new, old
  <2>6. new(s) = [mid EXCEPT !.finished = e]
    BY <2>5
  <2>7. mid \in ServerType(Ips) /\ mid.ip = old.ip
    BY <2>2, <2>4 DEF ServerType
  <2> HIDE DEF mid
  <2>8. new(s) \in ServerType(Ips) /\ new(s).ip = mid.ip
    BY <2>4, <2>6, <2>7 DEF ServerType
  <2>9. QED BY <2>7, <2>8 DEF old
<1> HIDE DEF new
<1>3. g = [s \in DOMAIN f |-> g[s]]
  OBVIOUS
<1>4. \A s \in DOMAIN f : g[s] \in ServerType(Ips) /\ g[s].ip = f[s].ip
  BY <1>2
<1> HIDE DEF g
<1>5. QED BY <1>1, <1>3, <1>4, HostsOfAll

-----------------------------------------------------------------------------
(* Helpers of the actions.                                                 *)

LEMMA InfoCounted ==
  ASSUME Entries
  PROVE  IsFiniteSet(DOMAIN info) /\ Cardinality(DOMAIN info) \in Nat
<1>1. IsFiniteSet(Infos) /\ DOMAIN info \subseteq Infos
  BY DirectoryAssumption DEF Entries
<1>2. IsFiniteSet(DOMAIN info)
  BY <1>1, FS_Subset
<1>3. QED BY <1>2, FS_CardinalityType

LEMMA FreshFound ==
  ASSUME Entries, Carried, Enough, bind.info = NoInfo, Len(connection) < MaxConnections
  PROVE  Fresh \in Infos \ DOMAIN info
<1>1. /\ IsFiniteSet(Infos) /\ Cardinality(Infos) >= MaxConnections
      /\ MaxConnections \in Nat
  BY DirectoryAssumption
<1>2. DOMAIN info \subseteq Infos
  BY DEF Entries
<1>3. Len(connection) \in Nat
  BY DEF Carried
<1>4. Cardinality(DOMAIN info) <= Len(connection)
  BY <1>3 DEF Enough
<1>5. Cardinality(Infos) \in Nat
  BY <1>1, FS_CardinalityType
<1>7. Cardinality(DOMAIN info) \in Nat
  BY InfoCounted
<1>8. DOMAIN info # Infos
  <2> SUFFICES ASSUME DOMAIN info = Infos PROVE FALSE
    OBVIOUS
  <2>1. Cardinality(DOMAIN info) = Cardinality(Infos)
    OBVIOUS
  <2>2. QED BY <1>1, <1>3, <1>4, <1>5, <1>7, <2>1
<1>9. \E p \in Infos : p \notin DOMAIN info
  BY <1>2, <1>8
<1>10. QED BY <1>9 DEF Fresh

LEMMA Touched ==
  ASSUME modified \in Seq(Infos), NEW p \in Infos
  PROVE  /\ Touch(p) \in Seq(Infos)
         /\ ToSet(Touch(p)) = ToSet(modified) \cup {p}
<1> DEFINE rest == Projection(modified, Infos \ {p})
<1>1. rest \in Seq(Infos) /\ ToSet(rest) = ToSet(modified) \cap (Infos \ {p})
  BY ProjectedMembers
<1>2. ToSet(modified) \subseteq Infos
  BY ListMembers
<1>3. Touch(p) = Append(rest, p)
  BY DEF Touch
<1> HIDE DEF rest
<1>4. Append(rest, p) \in Seq(Infos)
  BY <1>1
<1>5. ToSet(Append(rest, p)) = ToSet(rest) \cup {p}
  BY <1>1, AppendedMembers
<1>6. QED BY <1>1, <1>2, <1>3, <1>4, <1>5

LEMMA TwoOf ==
  ASSUME NEW S, NEW s \in Seq(S), NEW T, T \subseteq DOMAIN s
  PROVE  Cardinality(T) > 1 <=> \E c, d \in T : c # d
<1>1. IsFiniteSet(T) /\ Cardinality(T) \in Nat
  BY PlacesCounted
<1>2. CASE T = {}
  BY <1>2, FS_EmptySet
<1>3. CASE \E c \in T : T = {c}
  <2>1. PICK c : T = {c}
    BY <1>3
  <2>2. Cardinality(T) = 1
    BY <2>1, FS_Singleton
  <2>3. QED BY <2>1, <2>2
<1>4. CASE \E c, d \in T : c # d
  <2>1. T # {} /\ \A c : T # {c}
    BY <1>4
  <2>2. Cardinality(T) # 0
    BY <1>1, <2>1, FS_EmptySet
  <2>3. Cardinality(T) # 1
    BY <1>1, <2>1, FS_Singleton
  <2>4. QED BY <1>1, <1>4, <2>2, <2>3
<1>5. QED BY <1>2, <1>3, <1>4

LEMMA ReusedIsShared ==
  ASSUME Carried, NEW p
  PROVE  Reused(p) <=> Shared(p)
<1> DEFINE users == {c \in DOMAIN connection : connection[c].info = p}
<1>1. users \subseteq DOMAIN connection
  OBVIOUS
<1>2. connection \in Seq(ConnectionType)
  BY DEF Carried
<1>3. Cardinality(users) > 1 <=> \E c, d \in users : c # d
  <2> HIDE DEF users
  <2>1. QED BY <1>1, <1>2, TwoOf
<1>4. Reused(p) <=> Cardinality(users) > 1 \/ (bind.info = p /\ users # {})
  BY DEF Reused
<1>5. Reused(p) <=> (\E c, d \in users : c # d) \/ (bind.info = p /\ users # {})
  BY <1>3, <1>4, Zenon
<1>6. QED BY <1>5 DEF Shared, Uses

(* The session that is there first, or was modified last, is one.          *)
LEMMA ExactFound ==
  ASSUME Listed, NEW client, NEW port, Exact(client, port) # {}
  PROVE  Min(Exact(client, port)) \in Exact(client, port)
<1> DEFINE T == Exact(client, port)
<1>1. T \subseteq Nat
  <2>1. DOMAIN peer_list = 1 .. Len(peer_list) /\ Len(peer_list) \in Nat
    BY DEF Listed
  <2>2. QED BY <2>1 DEF Exact, Sessions
<1> HIDE DEF T
<1>2. \E x \in T : \A y \in T : x <= y
  BY <1>1, Least DEF T
<1>3. Min(T) \in T
  BY <1>2 DEF Min
<1>4. QED BY <1>3 DEF T

LEMMA Greatest ==
  ASSUME NEW n \in Nat, NEW T, T # {}, NEW f \in [T -> 0 .. n]
  PROVE  \E x \in T : \A y \in T : f[y] <= f[x]
<1> DEFINE S == {n - f[x] : x \in T}
<1>1. S \subseteq Nat /\ S # {}
  OBVIOUS
<1>2. PICK s \in S : \A t \in S : s <= t
  <2> HIDE DEF S
  <2>1. QED BY <1>1, Least
<1>3. PICK x \in T : s = n - f[x]
  OBVIOUS
<1>4. \A y \in T : n - f[x] <= n - f[y] /\ f[x] \in 0 .. n /\ f[y] \in 0 .. n
  BY <1>2, <1>3
<1>5. QED BY <1>4

LEMMA ServerFound ==
  ASSUME ServersKept, Entries, NEW p \in DOMAIN info
  PROVE  ServerOf(p) \in DOMAIN Servers /\ ServerOf(p) \in Nat
<1> DEFINE T == {s \in DOMAIN servers_list :
                   servers_list[s].ip = servers_list[info[p].server].ip}
           n == Len(servers_list)
           f == [s \in T |-> s]
<1>1. n \in Nat /\ DOMAIN servers_list = 1 .. n
  BY DEF ServersKept
<1>2. info[p].server \in DOMAIN servers_list
  BY DEF ServersKept, Entries, InfoType
<1>3. T # {} /\ T \subseteq 1 .. n
  BY <1>1, <1>2
<1>4. ServerOf(p) = CHOOSE s \in DOMAIN servers_list :
                      /\ s \in T
                      /\ \A t \in DOMAIN servers_list :
                           servers_list[t].ip = servers_list[s].ip => t <= s
  BY DEF ServerOf
<1>5. \A s \in T : \A t \in DOMAIN servers_list :
        servers_list[t].ip = servers_list[s].ip <=> t \in T
  OBVIOUS
<1> HIDE DEF T, n
<1>6. f \in [T -> 0 .. n]
  BY <1>3
<1>7. \E s \in T : \A t \in T : f[t] <= f[s]
  <2> HIDE DEF f
  <2>1. QED BY <1>1, <1>3, <1>6, Greatest
<1>8. \E s \in T : \A t \in T : t <= s
  BY <1>7
<1>9. \E s \in DOMAIN servers_list :
        /\ s \in T
        /\ \A t \in DOMAIN servers_list :
             servers_list[t].ip = servers_list[s].ip => t <= s
  BY <1>1, <1>3, <1>5, <1>8
<1>10. ServerOf(p) \in T
  BY <1>4, <1>9
<1>11. ServerOf(p) \in 1 .. n
  BY <1>3, <1>10
<1>12. ServerOf(p) \in DOMAIN servers_list /\ ServerOf(p) \in Nat
  BY <1>1, <1>11 DEF n
<1>13. DOMAIN servers_list = DOMAIN Servers
  BY DEF ServersKept
<1>14. QED BY <1>12, <1>13

LEMMA LatestFound ==
  ASSUME Listed, Dated, NEW client, Sessions(client) # {}
  PROVE  LatestSession(client) \in Sessions(client)
<1> DEFINE T == Sessions(client)
           n == Len(modified)
           Places(j) == {k \in DOMAIN modified : modified[k] = peer_list[j]}
           f == [j \in T |-> Max(Places(j))]
<1>1. n \in Nat /\ DOMAIN modified = 1 .. n
  BY DEF Dated
<1>2. T \subseteq DOMAIN peer_list
  BY DEF Sessions
<1>3. ASSUME NEW j \in T
      PROVE  Max(Places(j)) \in 0 .. n
  <2>1. peer_list[j] \in ToSet(peer_list)
    BY <1>2 DEF ToSet
  <2>2. peer_list[j] \in ToSet(modified)
    BY <2>1 DEF Listed, Dated
  <2>3. Places(j) # {} /\ Places(j) \subseteq 1 .. n
    BY <1>1, <2>2 DEF ToSet
  <2> DEFINE P == Places(j)
             g == [k \in P |-> k]
  <2>4. P # {} /\ g \in [P -> 0 .. n]
    BY <1>1, <2>3
  <2> HIDE DEF P, Places, n
  <2>5. \E x \in P : \A y \in P : g[y] <= g[x]
    BY <1>1, <2>4, Greatest
  <2>6. \E x \in P : \A y \in P : x >= y
    BY <1>1, <2>3, <2>5 DEF P
  <2>7. Max(P) \in P
    BY <2>6 DEF Max
  <2>8. QED BY <1>1, <2>3, <2>7 DEF P
<1> HIDE DEF T, n, Places
<1>4. f \in [T -> 0 .. n]
  BY <1>3
<1>5. T # {}
  BY DEF T
<1> HIDE DEF f
<1>6. \E x \in T : \A y \in T : f[y] <= f[x]
  BY <1>1, <1>4, <1>5, Greatest
<1>7. \E x \in T : \A y \in T : Max(Places(y)) <= Max(Places(x))
  BY <1>6 DEF f
<1>8. LatestSession(client) = CHOOSE i \in T : \A j \in T : Max(Places(j)) <= Max(Places(i))
  BY DEF LatestSession, T, Places
<1>9. LatestSession(client) \in T
  BY <1>7, <1>8
<1>10. QED BY <1>9 DEF T

(* A session that is made.                                                 *)
LEMMA Made1 ==
  ASSUME Entries, NEW new \in Infos \ DOMAIN info,
         NEW client \in Clients, NEW port \in Nat, NEW server \in DOMAIN Servers,
         IsServerAllowed(filter_list, Servers[server].ip, client),
         info' = With(new, NewInfo(client, port, server))
  PROVE  /\ Entries'
         /\ DOMAIN info' = DOMAIN info \cup {new}
         /\ \A q \in DOMAIN info : info'[q] = info[q]
         /\ info'[new].status = "CONNECTING_SERVER"
<1> DEFINE record == NewInfo(client, port, server)
<1>1. /\ record \in InfoType
      /\ record.status = "CONNECTING_SERVER"
      /\ record.server = server /\ record.client = client
  BY DEF NewInfo, InfoType, Statuses
<1> HIDE DEF record
<1>2. info' = [q \in DOMAIN info \cup {new} |-> IF q = new THEN record ELSE info[q]]
  BY DEF With, record
<1>3. /\ DOMAIN info' = DOMAIN info \cup {new}
      /\ \A q \in DOMAIN info : info'[q] = info[q]
      /\ info'[new] = record
  BY <1>2
<1>4. info' \in [DOMAIN info' -> InfoType]
  BY <1>1, <1>2, <1>3 DEF Entries
<1>5. Entries'
  BY <1>1, <1>3, <1>4 DEF Entries
<1>6. QED BY <1>1, <1>3, <1>5

-----------------------------------------------------------------------------
(* The steps that only change a thread, a server or a request to close.    *)

LEMMA RetryElapsesKeeps ==
  ASSUME Inv, RetryElapses
  PROVE  Inv'
<1>1. PICK s \in DOMAIN servers_list :
        servers_list' = [servers_list EXCEPT ![s].failed = FALSE]
  BY DEF RetryElapses
<1> DEFINE new == [servers_list[s] EXCEPT !.failed = FALSE]
<1>2. servers_list \in Seq(ServerType(Ips))
  BY DEF Inv, ServersKept
<1>3. servers_list[s] \in ServerType(Ips)
  BY <1>2, ElementOfSeq
<1>4. new \in ServerType(Ips) /\ new.ip = servers_list[s].ip
  BY <1>3 DEF ServerType
<1>5. servers_list' = [servers_list EXCEPT ![s] = new]
  BY <1>1
<1> HIDE DEF new
<1>6. SameHosts(servers_list, servers_list')
  BY <1>2, <1>4, <1>5, HostsOfOne
<1>7. UNCHANGED <<directory, last_server_assigned, bind_read, list_read, outside, bind,
                  list>>
  BY DEF RetryElapses
<1>8. ServersKept'
  BY <1>6, <1>7, HostsKept DEF Inv, ServersKept
<1>9. QED
  BY <1>7, <1>8, EntriesSame, ListedSame, DatedSame, CarriedSame, BindingSame,
     CountingSame, EnoughSame, OwnedSame, FollowedSame DEF Inv, directory, outside

LEMMA CountConnectingKeeps ==
  ASSUME Inv, CountConnecting
  PROVE  Inv'
<1> DEFINE s == bind_read.server
           n == bind_read.connecting + 1
<1>1. /\ servers_list' = [servers_list EXCEPT ![s].connecting = n]
      /\ bind_read' = Nothing
      /\ UNCHANGED <<directory, last_server_assigned, list_read, outside, bind, list>>
  BY DEF CountConnecting
<1>2. n \in Nat
  BY DEF Inv, ServersKept
<1> HIDE DEF s, n
<1>3. SameHosts(servers_list, servers_list')
  BY <1>1, <1>2, ConnectingSet DEF Inv
<1>4. ServersKept'
  BY <1>1, <1>3, HostsKept DEF Inv, ServersKept, Nothing
<1>5. QED
  BY <1>1, <1>4, EntriesSame, ListedSame, DatedSame, CarriedSame, BindingSame,
     CountingSame, EnoughSame, OwnedSame, FollowedSame DEF Inv, directory, outside

LEMMA PurgeKeeps ==
  ASSUME Inv, PurgeConnections
  PROVE  Inv'
<1>1. /\ info' = [p \in DOMAIN info |-> [info[p] EXCEPT !.old = TRUE]]
      /\ to_be_closed' = to_be_closed \cup ToSet(peer_list)
      /\ UNCHANGED <<peer_list, freed, modified, counters, jq, connection, bind, list>>
  BY DEF PurgeConnections
<1>2. /\ DOMAIN info' = DOMAIN info
      /\ \A p \in DOMAIN info : /\ info'[p] \in InfoType
                                /\ info'[p].status = info[p].status
                                /\ info'[p].client = info[p].client
                                /\ info'[p].server = info[p].server
  <2>1. ASSUME NEW p \in DOMAIN info
        PROVE  /\ info'[p] \in InfoType
               /\ info'[p].status = info[p].status
               /\ info'[p].client = info[p].client
               /\ info'[p].server = info[p].server
    <3> DEFINE old == info[p]
               new == [old EXCEPT !.old = TRUE]
    <3>1. old \in InfoType
      BY DEF Inv, Entries
    <3>2. info'[p] = new
      BY <1>1
    <3> HIDE DEF old
    <3>3. /\ new \in InfoType /\ new.status = old.status
          /\ new.client = old.client /\ new.server = old.server
      BY <3>1 DEF InfoType
    <3>4. QED BY <3>2, <3>3 DEF old
  <2>2. QED BY <1>1, <2>1
<1>3. Entries'
  <2>1. info' = [p \in DOMAIN info' |-> info'[p]]
    BY <1>1
  <2>2. info' \in [DOMAIN info' -> InfoType]
    BY <1>2, <2>1
  <2>3. QED BY <1>2, <2>2 DEF Inv, Entries
<1>4. Carried'
  <2>1. ToSet(peer_list) \subseteq Infos
    BY ListMembers DEF Inv, Listed
  <2>2. QED BY <1>1, <2>1 DEF Inv, Carried
<1>5. ToSet(peer_list) \subseteq DOMAIN info
  BY DEF Inv, Listed
<1>6. Listed' /\ Dated' /\ Enough' /\ ServersKept'
  BY <1>1, <1>2, ServersSame DEF Inv, Listed, Dated, Enough
<1>7. \A p : Shared(p)' <=> Shared(p)
  BY <1>1, SharedSame
<1>8. Counting'
  BY <1>1, <1>2, <1>5, <1>7 DEF Inv, Counting
<1>9. Binding'
  BY <1>1, <1>2 DEF Inv, Binding, Uses
<1>10. Owned'
  BY <1>1, <1>2 DEF Inv, Owned, Uses
<1>11. Followed'
  <2>1. ASSUME NEW p \in DOMAIN info', Lives(p)', ~Shared(p)'
        PROVE  Living(p)'
    <3>1. Living(p)
      BY <1>1, <1>2, <1>7, <2>1 DEF Inv, Followed, Lives, Uses
    <3>2. QED BY <1>1, <1>2, <2>1, <3>1 DEF Living
  <2>2. ASSUME NEW p \in DOMAIN info', Ends(p)', ~Shared(p)'
        PROVE  Passed(p)'
    <3>1. Passed(p)
      BY <1>1, <1>2, <1>7, <2>2 DEF Inv, Followed, Ends, Uses
    <3>2. QED BY <1>1, <1>2, <2>2, <3>1 DEF Passed, NotEstablishedAfter
  <2>3. QED BY <2>1, <2>2 DEF Followed
<1>12. QED BY <1>3, <1>4, <1>6, <1>8, <1>9, <1>10, <1>11 DEF Inv

-----------------------------------------------------------------------------
(* getServer.                                                              *)

(* The accept thread went on with the same session.                        *)
LEMMA OnwardKeeps ==
  ASSUME Counting, Enough, Owned, Followed,
         bind'.info = bind.info, bind'.pc = "connect" => bind.pc = "connect",
         UNCHANGED <<connection, info, peer_list, jq, list>>
  PROVE  Counting' /\ Enough' /\ Owned' /\ Followed'
<1>1. \A p : Shared(p)' <=> Shared(p)
  BY DEF Shared, Uses
<1>2. Counting'
  BY <1>1 DEF Counting
<1>3. Enough' /\ Owned'
  BY DEF Enough, Owned, Uses
<1>4. \A p : /\ Lives(p)' => Lives(p)
             /\ Ends(p)' => Ends(p)
  BY DEF Lives, Ends, Uses
<1>5. \A p : /\ Living(p) => Living(p)'
             /\ Passed(p) => Passed(p)'
  BY DEF Living, Passed, NotEstablishedAfter
<1>6. Followed'
  BY <1>1, <1>4, <1>5 DEF Followed
<1>7. QED BY <1>2, <1>3, <1>6

Searching(client, port) ==
  /\ bind.pc = "idle" /\ bind.info = NoInfo
  /\ client \in Clients /\ port \in Nat
  /\ Len(connection) < MaxConnections
  /\ UNCHANGED <<peer_list, freed, servers_list, last_server_assigned, list_read, outside,
                 list>>

LEMMA SearchLatestKeeps ==
  ASSUME Inv, NEW client, NEW port, Searching(client, port), SearchLatest(client, port)
  PROVE  Inv'
<1>1. /\ UNCHANGED <<counters, info, modified>>
      /\ UNCHANGED <<peer_list, freed, outside, list>>
  BY DEF SearchLatest, Searching, counters
<1>2. /\ bind' \in BindRecords
      /\ bind'.pc \in {"select", "recreate"} /\ bind'.info = NoInfo
      /\ bind'.client = client
      /\ bind'.pc = "recreate" => bind'.index # 0
  <2>0. client \in Clients /\ port \in Nat
    BY DEF Searching
  <2>1. CASE Sessions(client) = {}
    <3>1. bind' = [Idle EXCEPT !.pc = "select", !.client = client, !.port = port]
      BY <2>1 DEF SearchLatest
    <3>2. bind' = [pc |-> "select", client |-> client, port |-> port, index |-> 0,
                   server |-> 0, info |-> NoInfo]
      BY <3>1 DEF Idle
    <3>3. QED BY <2>0, <3>2 DEF BindRecords
  <2>2. CASE Sessions(client) # {}
    <3> DEFINE i == LatestSession(client)
               s == ServerOf(peer_list[i])
    <3>1. i \in DOMAIN peer_list
      BY <2>2, LatestFound DEF Inv, Sessions
    <3>2. DOMAIN peer_list = 1 .. Len(peer_list) /\ Len(peer_list) \in Nat
      BY DEF Inv, Listed
    <3>3. i \in Nat \ {0}
      BY <3>1, <3>2
    <3>4. peer_list[i] \in DOMAIN info
      <4>1. peer_list[i] \in ToSet(peer_list)
        BY <3>1 DEF ToSet
      <4>2. QED BY <4>1 DEF Inv, Listed
    <3>5. s \in Nat
      BY <3>4, ServerFound DEF Inv
    <3>6. bind' = [Idle EXCEPT !.pc = "recreate", !.client = client,
                               !.port = port, !.index = i, !.server = s]
      BY <2>2 DEF SearchLatest
    <3> HIDE DEF i, s
    <3>7. bind' = [pc |-> "recreate", client |-> client, port |-> port, index |-> i,
                   server |-> s, info |-> NoInfo]
      BY <3>6 DEF Idle
    <3>8. QED BY <2>0, <3>3, <3>5, <3>7 DEF BindRecords
  <2>3. QED BY <2>1, <2>2
<1>3. Binding'
  BY <1>1, <1>2 DEF Binding, Searching, outside
<1>4. bind'.info = bind.info /\ bind'.pc # "connect"
  BY <1>2 DEF Searching
<1>5. Counting' /\ Enough' /\ Owned' /\ Followed'
  <2>1. UNCHANGED <<connection, info, peer_list, jq, list>>
    BY <1>1 DEF outside
  <2>2. Counting /\ Enough /\ Owned /\ Followed
    BY DEF Inv
  <2>3. QED BY <1>4, <2>1, <2>2, OnwardKeeps
<1>6. ServersKept' /\ Entries' /\ Listed' /\ Dated' /\ Carried'
  BY <1>1, ServersSame, EntriesSame, ListedSame, DatedSame, CarriedSame
  DEF Inv, counters
<1>7. QED BY <1>3, <1>5, <1>6 DEF Inv

LEMMA RecreateFailsKeeps ==
  ASSUME Inv, RecreateFails
  PROVE  Inv'
<1>1. /\ bind.pc = "recreate" /\ bind' = [bind EXCEPT !.pc = "select"]
      /\ UNCHANGED <<directory, counters, outside, list>>
  BY DEF RecreateFails
<1>2. Binding /\ bind.info = NoInfo /\ bind \in BindRecords
  BY <1>1 DEF Inv, Binding
<1>3. /\ bind' \in BindRecords
      /\ bind'.pc = "select" /\ bind'.info = NoInfo /\ bind'.client = bind.client
  BY <1>1, <1>2 DEF BindRecords
<1>4. Binding'
  BY <1>1, <1>2, <1>3 DEF Binding, outside
<1>5. Counting' /\ Enough' /\ Owned' /\ Followed'
  <2>1. UNCHANGED <<connection, info, peer_list, jq, list>>
    BY <1>1 DEF outside, directory, RecreateFails
  <2>2. Counting /\ Enough /\ Owned /\ Followed
    BY DEF Inv
  <2>3. QED BY <1>2, <1>3, <2>1, <2>2, OnwardKeeps
<1>6. ServersKept' /\ Entries' /\ Listed' /\ Dated' /\ Carried'
  BY <1>1, ServersSame, EntriesSame, ListedSame, DatedSame, CarriedSame
  DEF Inv, directory
<1>7. QED BY <1>4, <1>5, <1>6 DEF Inv

(* Only the status of one session changed.                                 *)
LEMMA StatusSet ==
  ASSUME Entries, NEW p \in DOMAIN info, NEW x \in Statuses,
         info' = [info EXCEPT ![p].status = x]
  PROVE  /\ Entries'
         /\ DOMAIN info' = DOMAIN info
         /\ info'[p].status = x
         /\ \A q \in DOMAIN info : q # p => info'[q] = info[q]
<1> DEFINE old == info[p]
           new == [old EXCEPT !.status = x]
<1>1. old \in InfoType
  BY DEF Entries
<1>2. info' = [info EXCEPT ![p] = new]
  OBVIOUS
<1>3. /\ new \in InfoType /\ new.status = x
      /\ new.client = old.client /\ new.server = old.server
  <2> HIDE DEF old
  <2>1. QED BY <1>1 DEF InfoType
<1> HIDE DEF new
<1>4. /\ DOMAIN info' = DOMAIN info /\ info'[p] = new
      /\ \A q \in DOMAIN info : q # p => info'[q] = info[q]
  BY <1>2
<1>5. info' \in [DOMAIN info' -> InfoType]
  BY <1>2, <1>3, <1>4 DEF Entries
<1>6. Entries'
  BY <1>3, <1>4, <1>5 DEF Entries
<1>7. QED BY <1>3, <1>4, <1>6

LEMMA SearchExactKeeps ==
  ASSUME Inv, NEW client, NEW port, Searching(client, port), SearchExact(client, port)
  PROVE  Inv'
<1>0. PICK p : p = peer_list[Min(Exact(client, port))]
  OBVIOUS
<1>1. /\ Exact(client, port) # {}
      /\ bind_read' = ReadOf(ServerOf(p))
      /\ info' = [info EXCEPT ![p].status = "CONNECTING_SERVER"]
      /\ modified' = Touch(p)
      /\ bind' = [Idle EXCEPT !.pc = "connect", !.client = client,
                              !.port = port, !.info = p]
      /\ UNCHANGED <<peer_list, freed, servers_list, last_server_assigned, list_read,
                     outside, list>>
  BY <1>0 DEF SearchExact, Searching
<1>2. p \in ToSet(peer_list)
  <2>1. Min(Exact(client, port)) \in DOMAIN peer_list
    <3>1. Min(Exact(client, port)) \in Exact(client, port)
      BY <1>1, ExactFound DEF Inv
    <3>2. QED BY <3>1 DEF Exact, Sessions
  <2>2. QED BY <1>0, <2>1 DEF ToSet
<1>3. p \in DOMAIN info /\ p \in Infos /\ p # NoInfo
  BY <1>2, DirectoryAssumption DEF Inv, Listed, Entries
<1>4. /\ Entries' /\ DOMAIN info' = DOMAIN info
      /\ info'[p].status = "CONNECTING_SERVER"
      /\ \A q \in DOMAIN info : q # p => info'[q] = info[q]
  <2>1. "CONNECTING_SERVER" \in Statuses /\ Entries
    BY DEF Statuses, Inv
  <2>2. QED BY <1>1, <1>3, <2>1, StatusSet
<1>5. /\ bind' \in BindRecords /\ bind'.pc = "connect" /\ bind'.info = p
      /\ bind'.client = client
  <2>1. bind' = [pc |-> "connect", client |-> client, port |-> port, index |-> 0,
                 server |-> 0, info |-> p]
    BY <1>1 DEF Idle
  <2>2. QED BY <1>3, <2>1 DEF BindRecords, Searching
<1>6. Binding'
  BY <1>1, <1>3, <1>4, <1>5 DEF Binding, Searching, outside
<1>7. ServersKept'
  <2>1. ServerOf(p) \in DOMAIN Servers
    BY <1>3, ServerFound DEF Inv
  <2>2. bind_read'.connecting \in Nat
    BY <1>1, <2>1, ReadsAreNumbers DEF Inv, ReadOf
  <2>3. QED BY <1>1, <2>2 DEF Inv, ServersKept
<1>8. Listed' /\ Carried'
  BY <1>1, <1>4, CarriedSame DEF Inv, Listed
<1>9. Dated'
  BY <1>1, <1>3, <1>4, Touched DEF Inv, Dated
<1>10. Enough'
  BY <1>1, <1>3, <1>4, <1>5, InfoCounted DEF Inv, Enough, Searching, outside, Carried
<1>11. bind.pc = "idle" /\ bind.info = NoInfo
  BY DEF Searching
<1>12. \E c \in DOMAIN connection : Uses(c, p)
  BY <1>3, <1>11 DEF Inv, Owned
<1>13. Owned'
  BY <1>1, <1>4, <1>11, <1>12, DirectoryAssumption DEF Inv, Owned, Uses, outside, Entries
<1>14. /\ Shared(p)'
       /\ \A q \in Infos : q # p => (Shared(q)' <=> Shared(q))
  BY <1>1, <1>5, <1>11, <1>12, DirectoryAssumption DEF Shared, Uses, outside
<1>15. Counting'
  <2>1. list.pc = "counting" => list.msg.param \in DOMAIN info /\ list.msg.param \in Infos
    BY DEF Inv, Counting, Listed, Entries
  <2>2. Counting
    BY DEF Inv
  <2>3. QED BY <1>1, <1>4, <1>14, <2>1, <2>2 DEF Counting
<1>16. Followed'
  <2>1. ASSUME NEW q \in DOMAIN info', ~Shared(q)'
        PROVE  /\ Lives(q)' => Living(q)'
               /\ Ends(q)' => Passed(q)'
    <3>1. q # p /\ q \in DOMAIN info /\ q \in Infos /\ ~Shared(q)
      BY <1>4, <1>14, <2>1 DEF Inv, Entries
    <3>2. (Lives(q)' => Lives(q)) /\ (Ends(q)' => Ends(q))
      BY <1>1, <1>5, <3>1 DEF Lives, Ends, Uses, outside
    <3>3. (Lives(q) => Living(q)) /\ (Ends(q) => Passed(q))
      BY <3>1 DEF Inv, Followed
    <3>4. (Living(q) => Living(q)') /\ (Passed(q) => Passed(q)')
      BY <1>1, <1>4, <3>1 DEF Living, Passed, NotEstablishedAfter, outside
    <3>5. QED BY <3>2, <3>3, <3>4
  <2>2. QED BY <2>1 DEF Followed
<1>17. QED BY <1>4, <1>6, <1>7, <1>8, <1>9, <1>10, <1>13, <1>15, <1>16 DEF Inv

LEMMA SearchKeeps ==
  ASSUME Inv, Search
  PROVE  Inv'
<1>1. bind.pc = "idle" /\ bind.info = NoInfo
  BY DEF Search, Inv, Binding
<1>2. Len(connection) \in Nat /\ Len(connection) < MaxConnections
  <2>1. Len(connection) \in Nat
    BY DEF Inv, Carried
  <2>2. QED BY <2>1, DirectoryAssumption DEF Search
<1>3. PICK client \in Clients : \E port \in {Len(connection) + 1} \cup PortsOf(client) :
        SearchExact(client, port) \/ SearchLatest(client, port)
  BY DEF Search
<1>4. PICK port \in {Len(connection) + 1} \cup PortsOf(client) :
        SearchExact(client, port) \/ SearchLatest(client, port)
  BY <1>3
<1>5. port \in Nat
  <2>1. \A p \in DOMAIN info : info[p].port \in Nat
    BY DEF Inv, Entries, InfoType
  <2>2. QED BY <1>2, <2>1 DEF PortsOf
<1>6. Searching(client, port)
  BY <1>1, <1>2, <1>5 DEF Searching, Search
<1>7. QED BY <1>4, <1>6, SearchExactKeeps, SearchLatestKeeps

(* A session that nobody uses and no message speaks of.                    *)
Untouched(p) ==
  /\ \A c \in DOMAIN connection : ~Uses(c, p)
  /\ \A i \in DOMAIN jq : jq[i].param = p => jq[i].id \in Asked

LEMMA NewKeeps ==
  ASSUME Inv, bind.pc \in {"recreate", "select"},
         NEW new, new = Fresh, NEW server \in DOMAIN Servers, NEW x \in {"add", "connect"},
         IsServerAllowed(filter_list, Servers[server].ip, bind.client),
         info' = With(new, NewInfo(bind.client, bind.port, server)),
         modified' = Touch(new),
         bind' = [bind EXCEPT !.pc = x, !.info = new],
         UNCHANGED <<freed, outside, list>>
  PROVE  /\ new \in Infos \ DOMAIN info /\ new # NoInfo
         /\ DOMAIN info' = DOMAIN info \cup {new}
         /\ \A q \in DOMAIN info : info'[q] = info[q]
         /\ info'[new].status = "CONNECTING_SERVER"
         /\ bind' \in BindRecords /\ bind'.pc = x /\ bind'.info = new
         /\ bind'.client = bind.client
         /\ bind.client \in Clients /\ Len(connection) < MaxConnections
         /\ Entries' /\ Dated' /\ Carried' /\ Enough' /\ Owned'
         /\ Untouched(new)
         /\ \A q \in DOMAIN info : Shared(q)' <=> Shared(q)
<1>1. /\ bind \in BindRecords /\ bind.info = NoInfo /\ bind.client \in Clients
      /\ Len(connection) < MaxConnections
      /\ bind.port \in Nat
  BY DEF Inv, Binding, BindRecords
<1>2. new \in Infos \ DOMAIN info
  BY <1>1, FreshFound DEF Inv
<1>3. /\ new # NoInfo /\ NoInfo \notin Infos /\ DOMAIN info \subseteq Infos
  BY <1>2, DirectoryAssumption DEF Inv, Entries
<1>4. /\ Entries'
      /\ DOMAIN info' = DOMAIN info \cup {new}
      /\ \A q \in DOMAIN info : info'[q] = info[q]
      /\ info'[new].status = "CONNECTING_SERVER"
  BY <1>1, <1>2, Made1 DEF Inv
<1>5. bind' \in BindRecords /\ bind'.pc = x /\ bind'.info = new /\ bind'.client = bind.client
  BY <1>1, <1>2 DEF BindRecords
<1>6. Dated'
  BY <1>2, <1>4, Touched DEF Inv, Dated
<1>7. Carried'
  BY CarriedSame DEF Inv
<1>8. Enough'
  <2>1. Cardinality(DOMAIN info) <= Len(connection)
    BY <1>1 DEF Inv, Enough, Carried
  <2>2. Cardinality(DOMAIN info') = Cardinality(DOMAIN info) + 1
    BY <1>2, <1>4, InfoCounted, FS_AddElement DEF Inv
  <2>3. Cardinality(DOMAIN info) \in Nat /\ Len(connection) \in Nat
    BY InfoCounted DEF Inv, Carried
  <2>4. connection' = connection
    BY DEF outside
  <2>5. QED BY <1>3, <1>5, <2>1, <2>2, <2>3, <2>4 DEF Enough
<1>9. Owned'
  BY <1>1, <1>3, <1>4, <1>5 DEF Inv, Owned, Uses, outside
<1>10. Untouched(new)
  BY <1>2 DEF Inv, Owned, Uses, Untouched
<1>11. \A q \in DOMAIN info : Shared(q)' <=> Shared(q)
  BY <1>1, <1>2, <1>3, <1>5 DEF Shared, Uses, outside
<1>12. QED BY <1>1, <1>2, <1>3, <1>4, <1>5, <1>6, <1>7, <1>8, <1>9, <1>10, <1>11

LEMMA RecreateServers ==
  ASSUME Inv, Recreate
  PROVE  ServersKept'
<1> DEFINE b == bind.server
           f == servers_list
           d(n) == CountedDown(n, PeerDisconnected)
           e(n) == CountedDown(n, Statuses \ PeerDisconnected)
           old == f[b]
           s1 == [old EXCEPT !.connecting = @ + 1]
           s2 == [s1 EXCEPT !.disconnected = d(@)]
           s3 == [s2 EXCEPT !.finished = e(@)]
<1>1. /\ f' = [f EXCEPT ![b].connecting = @ + 1, ![b].disconnected = d(@),
                        ![b].finished = e(@)]
      /\ UNCHANGED <<last_server_assigned, bind_read, list_read>>
  BY DEF Recreate
<1>2. f \in Seq(ServerType(Ips))
  BY DEF Inv, ServersKept
<1>3. ASSUME NEW n \in Nat PROVE d(n) \in Nat /\ e(n) \in Nat
  <2>1. peer_list \in Seq(Infos)
    BY DEF Inv, Listed
  <2>2. ASSUME NEW statuses
        PROVE  CountedDown(n, statuses) \in Nat
    <3> DEFINE T == {i \in Replaced : info[peer_list[i]].status \in statuses}
    <3>1. T \subseteq DOMAIN peer_list
      BY DEF Replaced
    <3> HIDE DEF T
    <3>2. Cardinality(T) \in Nat
      BY <2>1, <3>1, PlacesCounted
    <3>3. Reduced(n, Cardinality(T)) \in Nat
      BY <3>2, ReducedType
    <3>4. QED BY <3>3 DEF CountedDown, T
  <2>3. QED BY <2>2
<1> HIDE DEF d, e
<1>4. f' = [f EXCEPT ![b] = s3]
  <2>1. CASE b \in DOMAIN f
    BY <1>1, <2>1
  <2>2. CASE b \notin DOMAIN f
    BY <1>1, <2>2
  <2>3. QED BY <2>1, <2>2
<1>5. ASSUME b \in DOMAIN f
      PROVE  s3 \in ServerType(Ips) /\ s3.ip = f[b].ip
  <2>1. old \in ServerType(Ips)
    BY <1>2, <1>5, ElementOfSeq
  <2> HIDE DEF old
  <2>2. s1 \in ServerType(Ips) /\ s1.ip = old.ip
    BY <2>1 DEF ServerType
  <2> HIDE DEF s1
  <2>3. s1.disconnected \in Nat
    BY <2>2 DEF ServerType
  <2>4. d(s1.disconnected) \in Nat
    BY <1>3, <2>3
  <2>5. s2 \in ServerType(Ips) /\ s2.ip = old.ip
    BY <2>2, <2>4 DEF ServerType
  <2> HIDE DEF s2
  <2>6. s2.finished \in Nat
    BY <2>5 DEF ServerType
  <2>7. e(s2.finished) \in Nat
    BY <1>3, <2>6
  <2>8. s3 \in ServerType(Ips) /\ s3.ip = old.ip
    BY <2>5, <2>7 DEF ServerType
  <2>9. QED BY <2>8 DEF old
<1>6. b \in DOMAIN f => s3 \in ServerType(Ips) /\ s3.ip = f[b].ip
  BY <1>5
<1> HIDE DEF s3
<1>7. SameHosts(f, [f EXCEPT ![b] = s3])
  BY <1>2, <1>6, HostsOfOne
<1>8. SameHosts(servers_list, servers_list')
  BY <1>4, <1>7
<1>9. QED BY <1>1, <1>8, HostsKept DEF Inv, ServersKept

LEMMA RecreateKeeps ==
  ASSUME Inv, Recreate
  PROVE  Inv'
<1> DEFINE old == peer_list[bind.index]
<1>0. PICK new : new = Fresh
  OBVIOUS
<1>1. /\ bind.pc = "recreate" /\ list.pc = "idle"
      /\ bind.index <= Len(peer_list) /\ info[old].client = bind.client
      /\ info' = With(new, NewInfo(bind.client, bind.port, info[old].server))
      /\ modified' = Touch(new)
      /\ peer_list' = Append(Kept, new)
      /\ bind' = [bind EXCEPT !.pc = "connect", !.info = new]
      /\ UNCHANGED <<freed, outside, list>>
  BY <1>0 DEF Recreate, PeerLockFree, StillThere
<1>2. old \in DOMAIN info
  <2>1. bind.index \in Nat \ {0}
    BY <1>1 DEF Inv, Binding, BindRecords
  <2>2. bind.index \in 1 .. Len(peer_list) /\ DOMAIN peer_list = 1 .. Len(peer_list)
    BY <1>1, <2>1 DEF Inv, Listed
  <2>3. old \in ToSet(peer_list)
    BY <2>2 DEF ToSet
  <2>4. QED BY <2>3 DEF Inv, Listed
<1>3. /\ info[old].server \in DOMAIN Servers
      /\ IsServerAllowed(filter_list, Servers[info[old].server].ip, bind.client)
  BY <1>1, <1>2 DEF Inv, Entries, InfoType
<1> HIDE DEF old
<1>4. /\ new \in Infos \ DOMAIN info /\ new # NoInfo
      /\ DOMAIN info' = DOMAIN info \cup {new}
      /\ \A q \in DOMAIN info : info'[q] = info[q]
      /\ info'[new].status = "CONNECTING_SERVER"
      /\ bind' \in BindRecords /\ bind'.pc = "connect" /\ bind'.info = new
      /\ bind'.client = bind.client
      /\ bind.client \in Clients /\ Len(connection) < MaxConnections
      /\ Entries' /\ Dated' /\ Carried' /\ Enough' /\ Owned'
      /\ Untouched(new)
      /\ \A q \in DOMAIN info : Shared(q)' <=> Shared(q)
  BY <1>0, <1>1, <1>3, NewKeeps
<1>5. /\ Kept \in Seq(Infos) /\ IsInjective(Kept)
      /\ ToSet(Kept) = ToSet(peer_list) \ {peer_list[i] : i \in Replaced}
  <2> DEFINE keep == ToSet(peer_list) \ {peer_list[i] : i \in Replaced}
  <2>1. Kept = Projection(peer_list, keep)
    BY DEF Kept
  <2>2. ToSet(peer_list) \cap keep = keep
    OBVIOUS
  <2> HIDE DEF keep
  <2>3. peer_list \in Seq(Infos) /\ IsInjective(peer_list)
    BY DEF Inv, Listed
  <2>4. /\ Kept \in Seq(Infos) /\ IsInjective(Kept)
        /\ ToSet(Kept) = ToSet(peer_list) \cap keep
    BY <2>1, <2>3, ProjectedMembers
  <2>5. QED BY <2>2, <2>4 DEF keep
<1>6. /\ ToSet(Kept) \subseteq ToSet(peer_list)
      /\ \A q \in ToSet(peer_list) :
           info[q].status \notin PeerNotConnected => q \in ToSet(Kept)
  BY <1>5 DEF Replaced
<1>7. /\ freed \subseteq DOMAIN info /\ ToSet(peer_list) \subseteq DOMAIN info \ freed
  BY DEF Inv, Listed
<1>8. /\ peer_list' \in Seq(Infos) /\ IsInjective(peer_list')
      /\ ToSet(peer_list') = ToSet(Kept) \cup {new}
  <2>1. new \in Infos /\ new \notin ToSet(Kept)
    BY <1>4, <1>6, <1>7
  <2>2. Append(Kept, new) \in Seq(Infos)
    BY <1>5, <2>1
  <2>3. QED BY <1>1, <1>5, <2>1, <2>2, AppendedMembers
<1>9. Listed'
  BY <1>1, <1>4, <1>6, <1>7, <1>8 DEF Listed
<1>10. Binding'
  BY <1>1, <1>4 DEF Binding, outside
<1>11. Counting'
  BY <1>1 DEF Inv, Counting
<1>12. Followed'
  <2>1. list.msg = NoMessage
    BY <1>1 DEF Inv, Counting
  <2>2. Living(new)'
    <3>1. new \in ToSet(peer_list')
      BY <1>8
    <3>2. \A i \in DOMAIN jq : jq[i].param = new => jq[i].id \notin PeerNotConnected
      BY <1>4 DEF Untouched, Asked, Bans, PeerNotConnected, PeerDisconnected
    <3>3. QED
      BY <1>1, <1>4, <2>1, <3>1, <3>2
      DEF Living, outside, NoMessage, PeerNotConnected, PeerDisconnected
  <2>3. ~Ends(new)'
    BY <1>1, <1>4 DEF Ends, Untouched, Uses, outside
  <2>4. ASSUME NEW q \in DOMAIN info, ~Shared(q)'
        PROVE  /\ Lives(q)' => Living(q)'
               /\ Ends(q)' => Passed(q)'
    <3>1. q # new /\ ~Shared(q)
      BY <1>4, <2>4
    <3>2. (Lives(q)' => Lives(q)) /\ (Ends(q)' => Ends(q))
      BY <1>1, <1>4, <3>1 DEF Lives, Ends, Uses, outside
    <3>3. (Lives(q) => Living(q)) /\ (Ends(q) => Passed(q))
      BY <3>1 DEF Inv, Followed
    <3>4. Living(q) => Living(q)'
      BY <1>1, <1>4, <1>6, <1>8 DEF Living, outside
    <3>5. Passed(q) => Passed(q)'
      BY <1>1, <1>4, <1>6, <1>8, <3>1 DEF Passed, NotEstablishedAfter, outside
    <3>6. QED BY <3>2, <3>3, <3>4, <3>5
  <2>5. QED BY <1>4, <2>2, <2>3, <2>4 DEF Followed
<1>13. ServersKept'
  BY RecreateServers
<1>14. QED BY <1>4, <1>9, <1>10, <1>11, <1>12, <1>13 DEF Inv

LEMMA AssignKeeps ==
  ASSUME Inv, Assign
  PROVE  Inv'
<1> DEFINE best == Select(servers_list, filter_list, last_server_assigned, bind.client)
           turn == Turn(servers_list, last_server_assigned)
           s == best.next.server
<1>1. /\ bind.pc = "select"
      /\ UNCHANGED <<peer_list, freed, servers_list, list_read, outside, list>>
      /\ best.assigned => /\ last_server_assigned' = s
                          /\ bind_read' = ReadOf(s)
                          /\ info' = With(Fresh, NewInfo(bind.client, bind.port, s))
                          /\ modified' = Touch(Fresh)
                          /\ bind' = [bind EXCEPT !.pc = "add", !.info = Fresh]
      /\ ~best.assigned => /\ last_server_assigned' = turn
                           /\ bind' = Idle
                           /\ UNCHANGED <<bind_read, info, modified>>
  BY DEF Assign
<1>2. /\ servers_list \in Seq(ServerType(Ips)) /\ servers_list # <<>>
      /\ last_server_assigned \in DOMAIN servers_list
      /\ DOMAIN servers_list = DOMAIN Servers
  <2>1. Servers \in Seq(ServerType(Ips)) /\ Servers # <<>>
    BY DirectoryAssumption
  <2>2. servers_list \in Seq(ServerType(Ips)) /\ DOMAIN servers_list = DOMAIN Servers
        /\ last_server_assigned \in DOMAIN Servers
    BY DEF Inv, ServersKept
  <2>3. DOMAIN Servers # {}
    BY <2>2
  <2>4. servers_list # <<>>
    BY <2>2, <2>3
  <2>5. QED BY <2>2, <2>4
<1>3. /\ turn \in DOMAIN servers_list
      /\ Known(best, servers_list, filter_list, turn, bind.client, DOMAIN servers_list)
  BY <1>2, SelectKnows
<1>4. /\ s \in DOMAIN Servers
      /\ best.assigned => IsServerAllowed(filter_list, servers_list[s].ip, bind.client)
  BY <1>2, <1>3 DEF Known
<1>5. servers_list[s].ip = Servers[s].ip
  BY <1>4 DEF Inv, ServersKept
<1> HIDE DEF best, turn, s
<1>6. CASE best.assigned
  <2>1. PICK new : new = Fresh
    OBVIOUS
  <2>2. /\ info' = With(new, NewInfo(bind.client, bind.port, s))
        /\ modified' = Touch(new)
        /\ bind' = [bind EXCEPT !.pc = "add", !.info = new]
        /\ UNCHANGED <<freed, outside, list>>
    BY <1>1, <1>6, <2>1
  <2>3. IsServerAllowed(filter_list, Servers[s].ip, bind.client)
    BY <1>4, <1>5, <1>6
  <2>4. /\ new \in Infos \ DOMAIN info /\ new # NoInfo
        /\ DOMAIN info' = DOMAIN info \cup {new}
        /\ \A q \in DOMAIN info : info'[q] = info[q]
        /\ info'[new].status = "CONNECTING_SERVER"
        /\ bind' \in BindRecords /\ bind'.pc = "add" /\ bind'.info = new
        /\ bind'.client = bind.client
        /\ bind.client \in Clients /\ Len(connection) < MaxConnections
        /\ Entries' /\ Dated' /\ Carried' /\ Enough' /\ Owned'
        /\ Untouched(new)
        /\ \A q \in DOMAIN info : Shared(q)' <=> Shared(q)
    BY <1>1, <1>4, <2>1, <2>2, <2>3, NewKeeps
  <2>5. ServersKept'
    <3>1. bind_read'.connecting \in Nat
      BY <1>1, <1>4, <1>6, ReadsAreNumbers DEF Inv, ReadOf
    <3>2. QED BY <1>1, <1>4, <1>6, <3>1 DEF Inv, ServersKept
  <2>6. /\ freed \subseteq DOMAIN info /\ ToSet(peer_list) \subseteq DOMAIN info \ freed
    BY DEF Inv, Listed
  <2>7. Listed'
    BY <1>1, <2>4, <2>6 DEF Inv, Listed
  <2>8. "CONNECTING_SERVER" \notin PeerNotConnected
    BY DEF PeerNotConnected, PeerDisconnected
  <2>9. Binding'
    BY <1>1, <2>4, <2>6, <2>8 DEF Binding, outside, Untouched, Uses
  <2>10. Counting'
    BY <1>1, <2>4, <2>6 DEF Inv, Counting
  <2>11. Followed'
    <3>1. ~Lives(new)' /\ ~Ends(new)'
      BY <1>1, <2>4 DEF Lives, Ends, Untouched, Uses, outside
    <3>2. ASSUME NEW q \in DOMAIN info, ~Shared(q)'
          PROVE  /\ Lives(q)' => Living(q)'
                 /\ Ends(q)' => Passed(q)'
      <4>1. ~Shared(q)
        BY <2>4, <3>2
      <4>2. (Lives(q)' => Lives(q)) /\ (Ends(q)' => Ends(q))
        BY <1>1, <2>4 DEF Lives, Ends, Uses, outside
      <4>3. (Lives(q) => Living(q)) /\ (Ends(q) => Passed(q))
        BY <4>1 DEF Inv, Followed
      <4>4. (Living(q) => Living(q)') /\ (Passed(q) => Passed(q)')
        BY <1>1, <2>4 DEF Living, Passed, NotEstablishedAfter, outside
      <4>5. QED BY <4>2, <4>3, <4>4
    <3>3. QED BY <2>4, <3>1, <3>2 DEF Followed
  <2>12. QED BY <2>4, <2>5, <2>7, <2>9, <2>10, <2>11 DEF Inv
<1>7. CASE ~best.assigned
  <2>1. bind' = Idle /\ bind.info = NoInfo
    BY <1>1, <1>7 DEF Inv, Binding
  <2>2. /\ bind' \in BindRecords /\ bind'.pc = "idle" /\ bind'.info = NoInfo
    BY <2>1 DEF Idle, BindRecords
  <2>3. Binding'
    BY <2>2 DEF Binding
  <2>4. ServersKept'
    BY <1>1, <1>2, <1>3, <1>7 DEF Inv, ServersKept
  <2>5. Counting' /\ Enough' /\ Owned' /\ Followed'
    <3>1. UNCHANGED <<connection, info, peer_list, jq, list>>
      BY <1>1, <1>7 DEF outside
    <3>2. Counting /\ Enough /\ Owned /\ Followed
      BY DEF Inv
    <3>3. QED BY <2>1, <2>2, <3>1, <3>2, OnwardKeeps
  <2>6. Entries' /\ Listed' /\ Dated' /\ Carried'
    BY <1>1, <1>7, EntriesSame, ListedSame, DatedSame, CarriedSame DEF Inv
  <2>7. QED BY <2>3, <2>4, <2>5, <2>6 DEF Inv
<1>8. QED BY <1>6, <1>7

LEMMA AddKeeps ==
  ASSUME Inv, Add
  PROVE  Inv'
<1>1. /\ bind.pc = "add" /\ list.pc = "idle"
      /\ peer_list' = Append(peer_list, bind.info)
      /\ bind' = [bind EXCEPT !.pc = "connect"]
      /\ UNCHANGED <<info, freed, modified, counters, outside, list>>
  BY DEF Add, PeerLockFree
<1>2. PICK p : p = bind.info
  OBVIOUS
<1>3. /\ bind \in BindRecords /\ bind.client \in Clients
      /\ Len(connection) < MaxConnections
      /\ p \in DOMAIN info /\ p \notin ToSet(peer_list) /\ p \notin freed
      /\ info[p].status \notin PeerNotConnected
      /\ \A c \in DOMAIN connection : ~Uses(c, p)
  BY <1>1, <1>2 DEF Inv, Binding
<1>4. bind' \in BindRecords /\ bind'.pc = "connect" /\ bind'.info = p
      /\ bind'.client = bind.client
  BY <1>1, <1>2, <1>3 DEF BindRecords
<1>5. /\ peer_list' \in Seq(Infos) /\ IsInjective(peer_list')
      /\ ToSet(peer_list') = ToSet(peer_list) \cup {p}
  <2>1. peer_list \in Seq(Infos) /\ IsInjective(peer_list) /\ p \in Infos
    BY <1>3 DEF Inv, Listed, Entries
  <2>2. Append(peer_list, p) \in Seq(Infos)
    BY <2>1
  <2>3. QED BY <1>1, <1>2, <1>3, <2>1, <2>2, AppendedMembers
<1>6. Listed'
  BY <1>1, <1>3, <1>5 DEF Inv, Listed
<1>7. Binding'
  BY <1>1, <1>3, <1>4 DEF Binding, outside
<1>8. list.msg = NoMessage /\ Counting'
  BY <1>1 DEF Inv, Counting
<1>9. Enough' /\ Owned'
  BY <1>1, <1>2, <1>4 DEF Inv, Enough, Owned, Uses, outside
<1>10. Followed'
  <2>1. Living(p)'
    <3>1. \A i \in DOMAIN jq : jq[i].param = p => jq[i].id \notin PeerNotConnected
      BY <1>3 DEF Inv, Owned, Asked, Bans, Uses, PeerNotConnected, PeerDisconnected
    <3>2. QED
      BY <1>1, <1>3, <1>5, <1>8, <3>1
      DEF Living, outside, NoMessage, PeerNotConnected, PeerDisconnected
  <2>2. ~Ends(p)'
    BY <1>1, <1>3 DEF Ends, Uses, outside
  <2>3. ASSUME NEW q \in DOMAIN info, q # p, ~Shared(q)'
        PROVE  /\ Lives(q)' => Living(q)'
               /\ Ends(q)' => Passed(q)'
    <3>1. ~Shared(q)
      BY <1>1, <1>2, <1>4, <2>3 DEF Shared, Uses, outside
    <3>2. (Lives(q)' => Lives(q)) /\ (Ends(q)' => Ends(q))
      BY <1>1, <1>4, <2>3 DEF Lives, Ends, Uses, outside
    <3>3. (Lives(q) => Living(q)) /\ (Ends(q) => Passed(q))
      BY <3>1 DEF Inv, Followed
    <3>4. (Living(q) => Living(q)') /\ (Passed(q) => Passed(q)')
      BY <1>1, <1>5, <2>3 DEF Living, Passed, NotEstablishedAfter, outside
    <3>5. QED BY <3>2, <3>3, <3>4
  <2>4. QED BY <1>1, <2>1, <2>2, <2>3 DEF Followed
<1>11. ServersKept' /\ Entries' /\ Dated' /\ Carried'
  BY <1>1, ServersSame, EntriesSame, DatedSame, CarriedSame DEF Inv
<1>12. QED BY <1>6, <1>7, <1>8, <1>9, <1>10, <1>11 DEF Inv

LEMMA SetServerKeeps ==
  ASSUME Inv, SetServer
  PROVE  Inv'
<1>0. PICK n : n = Len(connection)
  OBVIOUS
<1>1. PICK p : p = bind.info
  OBVIOUS
<1> DEFINE new == [info |-> p, phase |-> "connecting"]
<1>2. /\ bind.pc = "connect"
      /\ connection' = Append(connection, new)
      /\ bind' = Idle
      /\ UNCHANGED <<directory, counters, jq, to_be_closed, list>>
  BY <1>1 DEF SetServer
<1>3. p \in DOMAIN info /\ p \in Infos /\ p # NoInfo
  BY <1>1, <1>2, DirectoryAssumption DEF Inv, Binding, Entries
<1>4. new \in ConnectionType /\ new.info = p /\ new.phase = "connecting"
  BY <1>3 DEF ConnectionType, Phases
<1> HIDE DEF new
<1>5. /\ connection' \in Seq(ConnectionType)
      /\ n \in Nat /\ Len(connection') = n + 1
      /\ DOMAIN connection = 1 .. n /\ DOMAIN connection' = 1 .. n + 1
      /\ \A c \in 1 .. n : connection'[c] = connection[c]
      /\ connection'[n + 1] = new
  BY <1>0, <1>2, <1>4 DEF Inv, Carried
<1>6. Carried'
  BY <1>2, <1>5 DEF Inv, Carried
<1>7. /\ bind' \in BindRecords /\ bind'.pc = "idle" /\ bind'.info = NoInfo
  BY <1>2 DEF Idle, BindRecords
<1>8. Binding'
  BY <1>7 DEF Binding
<1>9. Enough'
  BY <1>0, <1>1, <1>2, <1>3, <1>5, <1>7, InfoCounted DEF Inv, Enough, directory
<1>10. /\ \A q : (\E c \in DOMAIN connection : Uses(c, q)) =>
                   \E c \in DOMAIN connection' : Uses(c, q)'
       /\ n + 1 \in DOMAIN connection' /\ Uses(n + 1, p)'
  BY <1>4, <1>5 DEF Uses
<1>11. Owned'
  <2>1. ASSUME NEW c \in DOMAIN connection'
        PROVE  connection'[c].info \in DOMAIN info'
    BY <1>2, <1>3, <1>4, <1>5 DEF Inv, Owned, directory
  <2>2. ASSUME NEW q \in DOMAIN info'
        PROVE  q = bind'.info \/ \E c \in DOMAIN connection' : Uses(c, q)'
    BY <1>1, <1>2, <1>10 DEF Inv, Owned, directory
  <2>3. ASSUME NEW i \in DOMAIN jq'
        PROVE  jq'[i].id \in Asked \/ \E c \in DOMAIN connection' : Uses(c, jq[i].param)'
    BY <1>2, <1>5 DEF Inv, Owned, Uses
  <2>4. QED BY <1>2, <2>1, <2>2, <2>3 DEF Owned, Uses
<1>12. ASSUME NEW q \in Infos, Shared(q)
       PROVE  Shared(q)'
  <2>1. CASE bind.info = q /\ \E c \in DOMAIN connection : Uses(c, q)
    <3>1. PICK c \in DOMAIN connection : Uses(c, q)
      BY <2>1
    <3>2. /\ c # n + 1 /\ c \in DOMAIN connection' /\ n + 1 \in DOMAIN connection'
          /\ connection'[c].info = q /\ connection'[n + 1].info = q
      BY <1>1, <1>4, <1>5, <2>1, <3>1 DEF Uses
    <3>3. QED BY <3>2 DEF Shared, Uses
  <2>2. CASE \E c, d \in DOMAIN connection : c # d /\ Uses(c, q) /\ Uses(d, q)
    BY <1>5, <2>2 DEF Shared, Uses
  <2>3. QED BY <1>12, <2>1, <2>2 DEF Shared
<1>13. Counting'
  <2>1. list.pc = "counting" => list.msg.param \in Infos
    BY DEF Inv, Counting, MessageType
  <2>2. QED BY <1>2, <1>12, <2>1 DEF Inv, Counting, directory
<1>14. Followed'
  <2>1. ASSUME NEW q \in DOMAIN info, ~Shared(q)'
        PROVE  /\ Lives(q)' => Living(q)'
               /\ Ends(q)' => Passed(q)'
    <3>1. ~Shared(q) /\ q \in Infos
      BY <1>12, <2>1 DEF Inv, Entries
    <3>2. Lives(q)' => Lives(q)
      BY <1>1, <1>2, <1>4, <1>5, <1>7 DEF Lives, Uses
    <3>3. Ends(q)' => Ends(q)
      BY <1>4, <1>5 DEF Ends, Uses, Alive
    <3>4. (Lives(q) => Living(q)) /\ (Ends(q) => Passed(q))
      BY <3>1 DEF Inv, Followed
    <3>5. (Living(q) => Living(q)') /\ (Passed(q) => Passed(q)')
      BY <1>2 DEF Living, Passed, NotEstablishedAfter, directory
    <3>6. QED BY <3>2, <3>3, <3>4, <3>5
  <2>2. QED BY <1>2, <2>1 DEF Followed, directory
<1>15. ServersKept' /\ Entries' /\ Listed' /\ Dated'
  BY <1>2, ServersSame, EntriesSame, ListedSame, DatedSame DEF Inv, directory
<1>16. QED BY <1>6, <1>8, <1>9, <1>11, <1>13, <1>14, <1>15 DEF Inv

-----------------------------------------------------------------------------
(* The managers.                                                           *)

(* What a manager may make of a connection in phase f: an end is announced *)
(* when it comes, and nothing but ends from then on.                       *)
EndIds == ClientEnds \cup ServerEnds \cup {"CONNECTION_FAILED"}

Fits(f, o) ==
  /\ o.phase \in Phases
  /\ o.posts \in Seq(EndIds \cup {Made})
  /\ o.phase \in Alive =>
       /\ f \in Alive
       /\ \A i \in DOMAIN o.posts : Masked(o.posts[i]) = Made
  /\ o.phase \notin Alive =>
       /\ \A i \in DOMAIN o.posts : Masked(o.posts[i]) \in PeerNotConnected
       /\ f \in Alive => o.posts # <<>>

LEMMA MaskedIds ==
  /\ \A m \in EndIds : Masked(m) \in PeerNotConnected
  /\ Masked(Made) = Made
<1>1. /\ Masked("CLIENT_CONNECTION_LOST") = "CONNECTION_LOST"
      /\ Masked("SERVER_CONNECTION_LOST") = "CONNECTION_LOST"
      /\ Masked("CLIENT_DISCONNECTED_OK") = "DISCONNECTED_OK"
      /\ Masked("SERVER_DISCONNECTED_OK") = "DISCONNECTED_OK"
      /\ Masked("CONNECTION_FAILED") = "CONNECTION_FAILED"
      /\ Masked(Made) = Made
  BY DEF Masked, Made
<1>2. QED BY <1>1 DEF EndIds, ClientEnds, ServerEnds, PeerNotConnected, PeerDisconnected

LEMMA EndFits ==
  ASSUME NEW f, NEW next \in Phases \ Alive, NEW m \in EndIds, NEW n \in EndIds
  PROVE  /\ Fits(f, Outcome(next, <<m>>))
         /\ Fits(f, Outcome(next, <<m, n>>))
<1>1. Masked(m) \in PeerNotConnected /\ Masked(n) \in PeerNotConnected
  BY MaskedIds
<1> DEFINE one == <<m>>
           two == <<m, n>>
<1>2. /\ one \in Seq(EndIds \cup {Made}) /\ DOMAIN one = {1} /\ one[1] = m /\ one # <<>>
      /\ two \in Seq(EndIds \cup {Made}) /\ DOMAIN two = {1, 2}
      /\ two[1] = m /\ two[2] = n /\ two # <<>>
  OBVIOUS
<1> HIDE DEF one, two
<1>3. Fits(f, Outcome(next, one)) /\ Fits(f, Outcome(next, two))
  BY <1>1, <1>2 DEF Fits, Outcome
<1>4. QED BY <1>3 DEF one, two

LEMMA ServedFits ==
  ASSUME NEW f \in Phases, NEW o \in Served(f), o.phase # f
  PROVE  Fits(f, o)
<1>1. o # Outcome(f, <<>>)
  BY DEF Outcome
<1>2. {"flushClient", "flushServer", "over"} \subseteq Phases \ Alive
  BY DEF Phases, Alive
<1>3. ASSUME NEW next \in {"flushClient", "flushServer", "over"}, NEW m \in EndIds,
             o = Outcome(next, <<m>>)
      PROVE  Fits(f, o)
  <2>1. Fits(f, Outcome(next, <<m>>))
    BY <1>2, EndFits
  <2>2. QED BY <1>3, <2>1
<1>4. ASSUME NEW m \in EndIds, NEW n \in EndIds, o = Outcome("over", <<m, n>>)
      PROVE  Fits(f, o)
  <2>1. Fits(f, Outcome("over", <<m, n>>))
    BY <1>2, EndFits
  <2>2. QED BY <1>4, <2>1
<1>5. "CLIENT_CONNECTION_LOST" \in EndIds /\ "SERVER_CONNECTION_LOST" \in EndIds
      /\ "CONNECTION_FAILED" \in EndIds /\ ClientEnds \subseteq EndIds
      /\ ServerEnds \subseteq EndIds
  BY DEF EndIds, ClientEnds, ServerEnds
<1>6. CASE f = "connecting"
  <2>1. o \in Connecting
    BY <1>1, <1>6 DEF Served
  <2>2. CASE o = Outcome("open", <<Made>>)
    <3> DEFINE one == <<Made>>
    <3>1. one \in Seq(EndIds \cup {Made}) /\ DOMAIN one = {1} /\ one[1] = Made
      OBVIOUS
    <3>2. o.phase = "open" /\ o.posts = one
      BY <2>2 DEF Outcome
    <3> HIDE DEF one
    <3>3. Masked(Made) = Made
      BY MaskedIds
    <3>4. QED BY <1>6, <3>1, <3>2, <3>3 DEF Fits, Alive, Phases
  <2>3. o = Outcome("open", <<Made>>) \/ \E m \in EndIds : o = Outcome("over", <<m>>)
    BY <1>5, <2>1 DEF Connecting, Made
  <2>4. QED BY <1>3, <2>2, <2>3
<1>7. CASE f = "open"
  <2>1. o \in ClientFirst \/ o \in ServerFirst
    BY <1>1, <1>7 DEF Served
  <2>2. CASE o \in ClientFirst
    <3>1. \/ \E next \in {"flushServer", "over"}, m \in ClientEnds : o = Outcome(next, <<m>>)
          \/ \E m \in ClientEnds, n \in ServerEnds : o = Outcome("over", <<m, n>>)
      BY <2>2 DEF ClientFirst
    <3>2. QED BY <1>3, <1>4, <1>5, <3>1
  <2>3. CASE o \in ServerFirst
    <3> DEFINE One == {Outcome(next, <<m>>) : next \in {"flushClient", "over"}, m \in ServerEnds}
               Two == {Outcome("over", <<m, "CLIENT_CONNECTION_LOST">>) : m \in ServerEnds}
    <3>0. ServerFirst = One \cup Two
      BY DEF ServerFirst
    <3>1. o \in One \/ o \in Two
      <4> HIDE DEF One, Two
      <4>1. QED BY <2>3, <3>0
    <3>2. CASE o \in One
      <4>1. PICK next \in {"flushClient", "over"}, m \in ServerEnds : o = Outcome(next, <<m>>)
        BY <3>2, SMTT(30)
      <4>2. QED BY <1>3, <1>5, <4>1
    <3>3. CASE o \in Two
      <4>1. PICK m \in ServerEnds : o = Outcome("over", <<m, "CLIENT_CONNECTION_LOST">>)
        BY <3>3
      <4>2. QED BY <1>4, <1>5, <4>1
    <3> HIDE DEF One, Two
    <3>4. QED BY <3>1, <3>2, <3>3
  <2>4. QED BY <2>1, <2>2, <2>3
<1>8. CASE f \in {"flushClient", "flushServer"}
  <2>1. o = Outcome("over", <<>>) \/ \E m \in EndIds : o = Outcome("over", <<m>>)
    BY <1>1, <1>5, <1>8 DEF Served, Flushing
  <2>2. CASE o = Outcome("over", <<>>)
    <3>1. o.phase = "over" /\ o.posts = <<>>
      BY <2>2 DEF Outcome
    <3>2. QED BY <1>2, <1>8, <3>1 DEF Fits, Alive
  <2>3. QED BY <1>3, <2>1, <2>2
<1>9. CASE f = "over"
  BY <1>1, <1>9 DEF Served
<1>10. QED BY <1>6, <1>7, <1>8, <1>9 DEF Phases

LEMMA PeerStepKeeps ==
  ASSUME Inv, NEW c \in DOMAIN connection, NEW o, Fits(connection[c].phase, o),
         connection' = [connection EXCEPT ![c].phase = o.phase],
         jq' = jq \o Messages(connection[c].info, o.posts),
         to_be_closed' \subseteq Infos,
         UNCHANGED <<directory, counters, bind, list>>
  PROVE  Inv'
<1>1. PICK p : p = connection[c].info
  OBVIOUS
<1>2. PICK f : f = connection[c].phase
  OBVIOUS
<1>3. PICK m : m = Len(jq)
  OBVIOUS
<1>4. PICK k : k = Len(o.posts)
  OBVIOUS
<1>5. /\ connection \in Seq(ConnectionType) /\ jq \in Seq(MessageType)
      /\ m \in Nat /\ DOMAIN jq = 1 .. m
      /\ k \in Nat /\ DOMAIN o.posts = 1 .. k
  BY <1>3, <1>4 DEF Inv, Carried, Fits
<1>6. /\ connection[c] \in ConnectionType
      /\ p \in Infos /\ f \in Phases /\ p \in DOMAIN info
  <2>1. connection[c] \in ConnectionType
    BY <1>5, ElementOfSeq
  <2>2. QED BY <1>1, <1>2, <2>1 DEF ConnectionType, Inv, Owned
<1>7. /\ connection' \in Seq(ConnectionType)
      /\ DOMAIN connection' = DOMAIN connection
      /\ Len(connection') = Len(connection)
      /\ \A d \in DOMAIN connection : connection'[d].info = connection[d].info
      /\ \A d \in DOMAIN connection :
           connection'[d].phase = IF d = c THEN o.phase ELSE connection[d].phase
  <2> DEFINE new == [connection[c] EXCEPT !.phase = o.phase]
  <2>1. new \in ConnectionType /\ new.info = p /\ new.phase = o.phase
    BY <1>1, <1>6 DEF ConnectionType, Fits
  <2>2. connection' = [connection EXCEPT ![c] = new]
    OBVIOUS
  <2> HIDE DEF new
  <2>3. c \in 1 .. Len(connection)
    BY <1>5
  <2> DEFINE changed == [connection EXCEPT ![c] = new]
  <2>4. changed \in Seq(ConnectionType) /\ Len(changed) = Len(connection)
    BY <1>5, <2>1, <2>3, ExceptSeq
  <2> HIDE DEF changed
  <2>6. connection' \in Seq(ConnectionType) /\ Len(connection') = Len(connection)
    BY <2>2, <2>4 DEF changed
  <2>7. QED BY <1>1, <1>5, <2>1, <2>2, <2>6
<1> DEFINE posted == Messages(p, o.posts)
<1>8. /\ posted \in Seq(MessageType) /\ Len(posted) = k
      /\ \A i \in 1 .. k : posted[i].param = p /\ posted[i].id = Masked(o.posts[i])
  <2>1. posted = [i \in 1 .. k |-> [id |-> Masked(o.posts[i]), param |-> p]]
    BY <1>5 DEF Messages
  <2>2. \A i \in 1 .. k : Masked(o.posts[i]) \in PeerNotConnected \cup {Made}
    BY <1>5 DEF Fits
  <2>3. posted \in [1 .. k -> MessageType]
    BY <1>6, <2>1, <2>2 DEF MessageType
  <2>4. posted \in Seq(MessageType)
    BY <1>5, <2>3, SeqDef
  <2>5. Len(posted) = k
    BY <1>5, <2>3, <2>4, LenProperties
  <2>6. \A i \in 1 .. k : posted[i].param = p /\ posted[i].id = Masked(o.posts[i])
    <3> HIDE DEF posted
    <3>1. QED BY <2>1
  <2>7. QED BY <2>4, <2>5, <2>6
<1>9. /\ jq' \in Seq(MessageType)
      /\ DOMAIN jq' = 1 .. m + k
      /\ \A i \in 1 .. m : jq'[i] = jq[i]
      /\ \A i \in 1 .. k : jq'[m + i] = posted[i]
  <2>1. jq' = jq \o posted
    BY <1>1
  <2> HIDE DEF posted
  <2>2. QED BY <1>3, <1>5, <1>8, <2>1
<1> HIDE DEF posted
<1>10. /\ \A i \in 1 .. m : jq'[i] = jq[i]
       /\ \A i \in 1 .. m + k : i > m =>
            /\ jq'[i].param = p
            /\ \E j \in DOMAIN o.posts : jq'[i].id = Masked(o.posts[j])
  <2>1. ASSUME NEW i \in 1 .. m + k, i > m
        PROVE  /\ jq'[i].param = p
               /\ \E j \in DOMAIN o.posts : jq'[i].id = Masked(o.posts[j])
    <3>1. PICK l : l = i - m
      OBVIOUS
    <3>2. l \in 1 .. k /\ m + l = i
      BY <1>5, <2>1, <3>1
    <3>3. jq'[i] = posted[l]
      BY <1>9, <3>2
    <3>4. QED BY <1>5, <1>8, <3>2, <3>3
  <2>2. QED BY <1>9, <2>1
<1>11. Carried'
  BY <1>7, <1>9 DEF Carried
<1>12. \A q : Shared(q)' <=> Shared(q)
  BY <1>7 DEF Shared, Uses
<1>13. Binding' /\ Enough' /\ Counting'
  BY <1>7, <1>12 DEF Inv, Binding, Enough, Counting, Uses, directory
<1>14. Owned'
  <2>1. \A i \in DOMAIN jq' :
          jq'[i].id \in Asked \/ \E d \in DOMAIN connection : connection[d].info = jq'[i].param
    <3>1. ASSUME NEW i \in DOMAIN jq', i <= m
          PROVE  jq'[i].id \in Asked
                   \/ \E d \in DOMAIN connection : connection[d].info = jq'[i].param
      <4>1. i \in 1 .. m
        BY <1>5, <1>9, <3>1
      <4>2. QED BY <1>5, <1>9, <4>1 DEF Inv, Owned, Uses
    <3>2. ASSUME NEW i \in DOMAIN jq', i > m
          PROVE  connection[c].info = jq'[i].param
      BY <1>1, <1>9, <1>10, <3>2
    <3>3. \A i \in DOMAIN jq' : i <= m \/ i > m
      BY <1>5, <1>9
    <3>4. QED BY <3>1, <3>2, <3>3
  <2>2. QED BY <1>7, <2>1 DEF Inv, Owned, Uses, directory
<1>15. Followed'
  <2>1. ASSUME NEW q \in DOMAIN info, ~Shared(q)', q # p
        PROVE  /\ Lives(q)' => Living(q)'
               /\ Ends(q)' => Passed(q)'
    <3>1. ~Shared(q)
      BY <1>12, <2>1
    <3>2. (Lives(q)' => Lives(q)) /\ (Ends(q)' => Ends(q))
      BY <1>1, <1>7, <2>1 DEF Lives, Ends, Uses
    <3>3. (Lives(q) => Living(q)) /\ (Ends(q) => Passed(q))
      BY <3>1 DEF Inv, Followed
    <3>4. \A i \in DOMAIN jq' : jq'[i].param = q => i \in 1 .. m
      BY <1>5, <1>9, <1>10, <2>1
    <3>5. Living(q) => Living(q)'
      BY <1>5, <1>9, <3>4 DEF Living, directory
    <3>6. Passed(q) => Passed(q)'
      <4>1. UNCHANGED <<peer_list, info>> /\ 1 .. m \subseteq DOMAIN jq'
        BY <1>5, <1>9 DEF directory
      <4>2. \A n \in Nat : NotEstablishedAfter(q, n) => NotEstablishedAfter(q, n)'
        BY <1>5, <1>9, <3>4 DEF NotEstablishedAfter
      <4>3. \A i \in DOMAIN jq : i \in Nat /\ i \in DOMAIN jq' /\ jq'[i] = jq[i]
        BY <1>5, <1>9, <4>1
      <4>4. QED BY <4>1, <4>2, <4>3 DEF Passed
    <3>7. QED BY <3>2, <3>3, <3>5, <3>6
  <2>2. ASSUME ~Shared(p)'
        PROVE  /\ Lives(p)' => Living(p)'
               /\ Ends(p)' => Passed(p)'
    <3>1. ~Shared(p)
      BY <1>12, <2>2
    <3>2. bind.info # p /\ \A d \in DOMAIN connection : Uses(d, p) <=> d = c
      BY <1>1, <3>1 DEF Shared, Uses
    <3>3. Lives(p)' => o.phase \in Alive
      BY <1>7, <3>2 DEF Lives, Uses
    <3>4. Ends(p)' => o.phase \notin Alive
      BY <1>7, <3>2 DEF Ends, Uses
    <3>5. CASE o.phase \in Alive
      <4>1. f \in Alive /\ \A j \in DOMAIN o.posts : Masked(o.posts[j]) = Made
        BY <1>2, <3>5 DEF Fits
      <4>2. Living(p)
        BY <1>2, <1>6, <3>1, <3>2, <4>1 DEF Inv, Followed, Lives
      <4>3. \A i \in DOMAIN jq' : i > m => jq'[i].id = Made
        BY <1>9, <1>10, <4>1
      <4>4. \A i \in DOMAIN jq' : i > m => jq'[i].id \notin PeerNotConnected
        BY <4>3 DEF Made, PeerNotConnected, PeerDisconnected
      <4>5. \A i \in DOMAIN jq' : i \in 1 .. m \/ i > m
        BY <1>5, <1>9
      <4>6. Living(p)'
        BY <1>5, <1>9, <4>2, <4>4, <4>5 DEF Living, directory
      <4>7. QED BY <3>4, <3>5, <4>6
    <3>6. CASE o.phase \notin Alive
      <4>1. \A j \in DOMAIN o.posts : Masked(o.posts[j]) \in PeerNotConnected
        BY <3>6 DEF Fits
      <4>2. \A i \in DOMAIN jq' : i > m => jq'[i].id \in PeerNotConnected
        BY <1>9, <1>10, <4>1
      <4>3. Made \notin PeerNotConnected
        BY DEF Made, PeerNotConnected, PeerDisconnected
      <4>4. CASE f \in Alive
        <5>1. k >= 1
          BY <1>2, <1>4, <1>5, <3>6, <4>4, EmptySeq DEF Fits
        <5>2. m + 1 \in DOMAIN jq' /\ m + 1 > m
          BY <1>5, <1>9, <5>1
        <5>3. jq'[m + 1].param = p /\ jq'[m + 1].id \in PeerNotConnected
          BY <1>9, <1>10, <4>2, <5>2
        <5>4. \A j \in DOMAIN jq' : j > m + 1 => jq'[j].id # Made
          <6>1. \A j \in DOMAIN jq' : j > m + 1 => j > m
            BY <1>5, <1>9
          <6>2. QED BY <4>2, <4>3, <6>1
        <5>5. QED BY <3>3, <3>6, <5>2, <5>3, <5>4 DEF Passed, NotEstablishedAfter
      <4>5. CASE f \notin Alive
        <5>1. Passed(p)
          BY <1>2, <1>6, <3>1, <3>2, <4>5 DEF Inv, Followed, Ends
        <5>2. \A i \in DOMAIN jq' : i \in 1 .. m \/ jq'[i].id # Made
          BY <1>5, <1>9, <4>2, <4>3
        <5>3. Passed(p)'
          <6>1. UNCHANGED <<peer_list, info>> /\ 1 .. m \subseteq DOMAIN jq'
            BY <1>5, <1>9 DEF directory
          <6>2. \A n \in Nat : NotEstablishedAfter(p, n) => NotEstablishedAfter(p, n)'
            BY <1>5, <1>9, <5>2 DEF NotEstablishedAfter
          <6>3. \A i \in DOMAIN jq : i \in Nat /\ i \in DOMAIN jq' /\ jq'[i] = jq[i]
            BY <1>5, <1>9, <6>1
          <6>4. QED BY <5>1, <6>1, <6>2, <6>3 DEF Passed
        <5>4. QED BY <3>3, <3>6, <5>3
      <4>6. QED BY <4>4, <4>5
    <3>7. QED BY <3>5, <3>6
  <2>3. QED BY <2>1, <2>2 DEF Followed, directory
<1>16. ServersKept' /\ Entries' /\ Listed' /\ Dated'
  BY ServersSame, EntriesSame, ListedSame, DatedSame DEF Inv, directory
<1>17. QED BY <1>11, <1>13, <1>14, <1>15, <1>16 DEF Inv

LEMMA ServeKeeps ==
  ASSUME Inv, Serve
  PROVE  Inv'
<1>1. PICK c \in DOMAIN connection : \E o \in Served(connection[c].phase) :
        /\ o.phase # connection[c].phase
        /\ connection' = [connection EXCEPT ![c].phase = o.phase]
        /\ Post(connection[c].info, o.posts)
        /\ UNCHANGED <<directory, counters, to_be_closed, bind, list, tasks>>
  BY DEF Serve
<1>2. PICK o \in Served(connection[c].phase) :
        /\ o.phase # connection[c].phase
        /\ connection' = [connection EXCEPT ![c].phase = o.phase]
        /\ Post(connection[c].info, o.posts)
        /\ UNCHANGED <<directory, counters, to_be_closed, bind, list, tasks>>
  BY <1>1
<1>3. connection[c].phase \in Phases
  <2>1. connection[c] \in ConnectionType
    BY ElementOfSeq DEF Inv, Carried
  <2>2. QED BY <2>1 DEF ConnectionType
<1>4. Fits(connection[c].phase, o)
  BY <1>2, <1>3, ServedFits
<1>5. to_be_closed' \subseteq Infos
  BY <1>2 DEF Inv, Carried
<1>6. QED BY <1>2, <1>4, <1>5, PeerStepKeeps DEF Post

LEMMA ClosePInfoKeeps ==
  ASSUME Inv, ClosePInfo
  PROVE  Inv'
<1>1. /\ to_be_closed' \subseteq Infos
      /\ UNCHANGED <<directory, counters, bind, list>>
      /\ \/ UNCHANGED <<connection, jq>>
         \/ \E c \in DOMAIN connection :
              /\ connection' = [connection EXCEPT ![c].phase = Kicked.phase]
              /\ jq' = jq \o Messages(connection[c].info, Kicked.posts)
  BY DEF ClosePInfo, Post, Inv, Carried
<1>2. CASE UNCHANGED <<connection, jq>>
  <2>1. Carried'
    BY <1>1, <1>2 DEF Inv, Carried
  <2>2. UNCHANGED <<peer_list, info, freed, modified>>
    BY <1>1 DEF directory
  <2>3. QED
    BY <1>1, <1>2, <2>1, <2>2, ServersSame, EntriesSame, ListedSame, DatedSame,
       BindingSame, CountingSame, EnoughSame, OwnedSame, FollowedSame DEF Inv
<1>3. CASE \E c \in DOMAIN connection :
             /\ connection' = [connection EXCEPT ![c].phase = Kicked.phase]
             /\ jq' = jq \o Messages(connection[c].info, Kicked.posts)
  <2>1. PICK c \in DOMAIN connection :
          /\ connection' = [connection EXCEPT ![c].phase = Kicked.phase]
          /\ jq' = jq \o Messages(connection[c].info, Kicked.posts)
    BY <1>3
  <2>2. Fits(connection[c].phase, Kicked)
    <3>1. "over" \in Phases \ Alive /\ "SERVER_DISCONNECTED_OK" \in EndIds
      BY DEF Phases, Alive, EndIds, ServerEnds
    <3>2. QED BY <3>1, EndFits DEF Kicked
  <2>3. QED BY <1>1, <2>1, <2>2, PeerStepKeeps
<1>4. QED BY <1>1, <1>2, <1>3

-----------------------------------------------------------------------------
(* The ServerList thread.                                                  *)

(* The first message is taken.                                             *)
LEMMA FirstTaken ==
  ASSUME NEW S, NEW s \in Seq(S), s # <<>>, NEW rest, rest = Tail(s)
  PROVE  /\ Head(s) \in S /\ Head(s) = s[1]
         /\ rest \in Seq(S)
         /\ 1 \in DOMAIN s
         /\ \A i \in DOMAIN rest : i \in Nat \ {0} /\ i + 1 \in DOMAIN s /\ rest[i] = s[i + 1]
         /\ \A i \in DOMAIN s : i \in Nat \ {0}
         /\ \A i \in DOMAIN s : i # 1 => i - 1 \in DOMAIN rest /\ rest[i - 1] = s[i]
<1>1. /\ Len(s) \in Nat \ {0} /\ DOMAIN s = 1 .. Len(s)
      /\ rest \in Seq(S) /\ Len(rest) = Len(s) - 1
      /\ DOMAIN rest = 1 .. Len(s) - 1
      /\ \A i \in 1 .. Len(s) - 1 : rest[i] = s[i + 1]
      /\ Head(s) = s[1]
  BY EmptySeq
<1>2. Head(s) \in S
  BY <1>1, ElementOfSeq
<1>3. \A i \in DOMAIN s : i # 1 => i - 1 \in DOMAIN rest /\ rest[i - 1] = s[i]
  <2> SUFFICES ASSUME NEW i \in DOMAIN s, i # 1
               PROVE  i - 1 \in DOMAIN rest /\ rest[i - 1] = s[i]
    OBVIOUS
  <2>1. PICK l : l = i - 1
    OBVIOUS
  <2>2. l \in 1 .. Len(s) - 1 /\ l + 1 = i
    BY <1>1, <2>1
  <2>3. QED BY <1>1, <2>1, <2>2
<1>4. \A i \in DOMAIN rest : i \in Nat \ {0} /\ i + 1 \in DOMAIN s
  BY <1>1
<1>5. QED BY <1>1, <1>2, <1>3, <1>4

LEMMA NearerAfterTail ==
  ASSUME jq \in Seq(MessageType), jq # <<>>, jq' = Tail(jq),
         NEW q, NEW n \in Nat, NEW k \in Nat, n <= k + 1, NotEstablishedAfter(q, n)
  PROVE  NotEstablishedAfter(q, k)'
<1> SUFFICES ASSUME NEW j \in DOMAIN jq', j > k, jq'[j].param = q
             PROVE  jq'[j].id # Made
  BY DEF NotEstablishedAfter
<1>1. j \in Nat \ {0} /\ j + 1 \in DOMAIN jq /\ jq'[j] = jq[j + 1]
  BY FirstTaken
<1>2. PICK l : l = j + 1
  OBVIOUS
<1>3. l > n /\ l \in DOMAIN jq /\ jq'[j] = jq[l]
  BY <1>1, <1>2
<1>4. QED BY <1>3 DEF NotEstablishedAfter

LEMMA ProcessMessageKeeps ==
  ASSUME Inv, ProcessMessage
  PROVE  Inv'
<1>1. PICK msg : msg = Head(jq)
  OBVIOUS
<1>2. PICK p : p = msg.param
  OBVIOUS
<1>3. /\ list.pc = "idle" /\ jq # <<>> /\ jq' = Tail(jq)
      /\ \/ /\ p \in ToSet(peer_list)
            /\ TakeStatus(msg) \/ TakeKick(msg)
            /\ Take(msg)
            /\ list' = [pc |-> "counting", msg |-> msg]
         \/ /\ p \notin ToSet(peer_list)
            /\ UNCHANGED <<info, modified, to_be_closed, list, list_read>>
      /\ UNCHANGED <<peer_list, freed, servers_list, last_server_assigned, bind_read,
                     connection, bind>>
  BY <1>1, <1>2 DEF ProcessMessage, Take
<1>4. jq \in Seq(MessageType)
  BY DEF Inv, Carried
<1>5. /\ msg \in MessageType /\ msg = jq[1] /\ 1 \in DOMAIN jq
      /\ jq' \in Seq(MessageType)
      /\ \A i \in DOMAIN jq' : i \in Nat \ {0} /\ i + 1 \in DOMAIN jq /\ jq'[i] = jq[i + 1]
      /\ \A i \in DOMAIN jq : i \in Nat \ {0}
      /\ \A i \in DOMAIN jq : i # 1 => i - 1 \in DOMAIN jq' /\ jq'[i - 1] = jq[i]
  BY <1>1, <1>3, <1>4, FirstTaken
<1>6. \A q : \A n, k \in Nat :
        n <= k + 1 /\ NotEstablishedAfter(q, n) => NotEstablishedAfter(q, k)'
  BY <1>3, <1>4, NearerAfterTail
<1>7. p \in Infos /\ msg.id \in PeerNotConnected \cup {Made} \cup Asked
  BY <1>2, <1>5 DEF MessageType
<1>8. \A q : Shared(q)' <=> Shared(q)
  BY <1>3, SharedSame
<1>9. list.msg = NoMessage
  BY <1>3 DEF Inv, Counting
<1>10. ServersKept'
  <2>1. ASSUME p \in ToSet(peer_list)
        PROVE  servers_list[info[p].server].connecting \in Nat
    <3>1. info[p] \in InfoType
      BY <2>1 DEF Inv, Entries, Listed
    <3>2. QED BY <3>1, ReadsAreNumbers DEF Inv, InfoType
  <2>2. list_read' \in Nat
    BY <1>2, <1>3, <2>1 DEF Inv, ServersKept, Take
  <2>3. QED BY <1>3, <2>2 DEF Inv, ServersKept
<1>11. \A i \in DOMAIN jq' :
         jq'[i].id \in Asked \/ \E c \in DOMAIN connection : Uses(c, jq'[i].param)
  BY <1>5 DEF Inv, Owned
<1>12. ASSUME NEW q, NEW i \in DOMAIN jq, i # 1, jq[i].param = q,
              jq[i].id \in PeerNotConnected, NotEstablishedAfter(q, i)
       PROVE  \E j \in DOMAIN jq' : /\ jq'[j].param = q /\ jq'[j].id \in PeerNotConnected
                                    /\ NotEstablishedAfter(q, j)'
  <2>1. PICK j : j = i - 1
    OBVIOUS
  <2>2. j \in DOMAIN jq' /\ jq'[j] = jq[i] /\ j \in Nat /\ i \in Nat /\ i <= j + 1
    BY <1>5, <1>12, <2>1
  <2>3. NotEstablishedAfter(q, j)'
    BY <1>6, <1>12, <2>2
  <2>4. QED BY <1>12, <2>2, <2>3
<1>13. /\ PeerNotConnected \cap Asked = {} /\ Made \notin PeerNotConnected \cup Asked
       /\ "none" \notin PeerNotConnected
       /\ "PEER_CONNECTION_KICKED" \notin PeerNotConnected
       /\ Asked = Bans \cup {"PEER_CONNECTION_KICKED"}
  BY DEF PeerNotConnected, PeerDisconnected, Asked, Bans, Made
(* What does not depend on the message's session.                          *)
<1>14. ASSUME NEW q \in DOMAIN info, UNCHANGED info \/ q # p,
              info'[q] = info[q], Passed(q), jq[1].param = q => msg.id \notin PeerNotConnected
       PROVE  Passed(q)'
  <2>1. CASE q \notin ToSet(peer_list)
    BY <1>3, <2>1 DEF Passed
  <2>2. CASE \E i \in DOMAIN jq : /\ jq[i].param = q /\ jq[i].id \in PeerNotConnected
                                  /\ NotEstablishedAfter(q, i)
    <3>1. PICK i \in DOMAIN jq : /\ jq[i].param = q /\ jq[i].id \in PeerNotConnected
                                 /\ NotEstablishedAfter(q, i)
      BY <2>2
    <3>2. i # 1
      BY <1>5, <1>14, <3>1
    <3>3. QED BY <1>12, <3>1, <3>2 DEF Passed
  <2>3. CASE /\ info[q].status \in PeerNotConnected \cup Bans
             /\ NotEstablishedAfter(q, 0)
    <3>1. NotEstablishedAfter(q, 0)'
      BY <1>6, <2>3
    <3>2. QED BY <1>14, <2>3, <3>1 DEF Passed
  <2>4. QED BY <1>14, <2>1, <2>2, <2>3 DEF Passed
<1>15. ASSUME NEW q
       PROVE  (Lives(q)' => Lives(q)) /\ (Ends(q)' => Ends(q))
  BY <1>3 DEF Lives, Ends, Uses
<1>16. ASSUME NEW q \in DOMAIN info, ~Shared(q)'
       PROVE  (Lives(q) => Living(q)) /\ (Ends(q) => Passed(q))
  BY <1>8, <1>16 DEF Inv, Followed
<1>17. ASSUME NEW q, Living(q)
       PROVE  /\ \A i \in DOMAIN jq' : jq'[i].param = q => jq'[i].id \notin PeerNotConnected
              /\ p = q => msg.id \notin PeerNotConnected
  BY <1>2, <1>5, <1>17 DEF Living
<1>18. CASE p \notin ToSet(peer_list)
  <2>1. UNCHANGED <<info, modified, to_be_closed, list>>
    BY <1>3, <1>18
  <2>2. Entries' /\ Listed' /\ Dated' /\ Binding' /\ Counting' /\ Enough'
    BY <1>3, <2>1, EntriesSame, ListedSame, DatedSame, BindingSame, CountingSame,
       EnoughSame DEF Inv
  <2>3. Carried' /\ Owned'
    BY <1>3, <1>5, <1>11, <2>1 DEF Inv, Carried, Owned, Uses
  <2>4. ASSUME NEW q \in DOMAIN info, ~Shared(q)'
        PROVE  /\ Lives(q)' => Living(q)'
               /\ Ends(q)' => Passed(q)'
    <3>1. Living(q) => Living(q)'
      BY <1>3, <1>17, <2>1 DEF Living
    <3>2. Passed(q) => Passed(q)'
      <4>1. CASE q = p
        BY <1>3, <1>18, <4>1 DEF Passed
      <4>2. CASE q # p
        BY <1>2, <1>5, <1>14, <2>1, <4>2
      <4>3. QED BY <4>1, <4>2
    <3>3. QED BY <1>15, <1>16, <2>4, <3>1, <3>2
  <2>5. Followed'
    BY <2>1, <2>4 DEF Followed
  <2>6. QED BY <1>10, <2>2, <2>3, <2>5 DEF Inv
<1>19. CASE p \in ToSet(peer_list) /\ TakeKick(msg)
  <2>1. /\ msg.id = "PEER_CONNECTION_KICKED"
        /\ to_be_closed' = to_be_closed \cup {p}
        /\ UNCHANGED <<info, modified>>
        /\ list' = [pc |-> "counting", msg |-> msg]
    BY <1>2, <1>3, <1>19 DEF TakeKick
  <2>2. Entries' /\ Listed' /\ Dated' /\ Binding' /\ Enough'
    BY <1>3, <2>1, EntriesSame, ListedSame, DatedSame, BindingSame, EnoughSame DEF Inv
  <2>3. Carried' /\ Owned'
    BY <1>3, <1>5, <1>7, <1>11, <2>1 DEF Inv, Carried, Owned, Uses
  <2>4. Counting'
    BY <1>2, <1>3, <1>5, <1>19, <2>1 DEF Counting
  <2>5. ASSUME NEW q \in DOMAIN info, ~Shared(q)'
        PROVE  /\ Lives(q)' => Living(q)'
               /\ Ends(q)' => Passed(q)'
    <3>1. Living(q) => Living(q)'
      BY <1>3, <1>13, <1>17, <2>1 DEF Living
    <3>2. Passed(q) => Passed(q)'
      BY <1>13, <1>14, <2>1
    <3>3. QED BY <1>15, <1>16, <2>5, <3>1, <3>2
  <2>6. Followed'
    BY <2>1, <2>5 DEF Followed
  <2>7. QED BY <1>10, <2>2, <2>3, <2>4, <2>6 DEF Inv
<1>20. CASE p \in ToSet(peer_list) /\ TakeStatus(msg)
  <2>1. /\ msg.id # "PEER_CONNECTION_KICKED"
        /\ info' = [info EXCEPT ![p].status = msg.id]
        /\ modified' = Touch(p)
        /\ UNCHANGED to_be_closed
        /\ list' = [pc |-> "counting", msg |-> msg]
    BY <1>2, <1>3, <1>20 DEF TakeStatus
  <2>2. p \in DOMAIN info
    BY <1>20 DEF Inv, Listed
  <2>3. msg.id \in Statuses /\ msg.id \in PeerNotConnected \cup Bans \cup {Made}
    BY <1>7, <1>13, <2>1 DEF Statuses, Made
  <2>4. /\ Entries' /\ DOMAIN info' = DOMAIN info /\ info'[p].status = msg.id
        /\ \A q \in DOMAIN info : q # p => info'[q] = info[q]
    BY <2>1, <2>2, <2>3, StatusSet DEF Inv
  <2>5. Listed' /\ Enough'
    BY <1>3, <2>4 DEF Inv, Listed, Enough
  <2>6. Dated'
    BY <1>7, <2>1, <2>4, Touched DEF Inv, Dated
  <2>7. Binding'
    BY <1>3, <1>20, <2>4 DEF Inv, Binding, Uses
  <2>8. Carried' /\ Owned'
    BY <1>3, <1>5, <1>11, <2>1, <2>4 DEF Inv, Carried, Owned, Uses
  <2>9. Counting'
    BY <1>2, <1>3, <1>5, <1>20, <2>1, <2>4 DEF Counting
  <2>10. ASSUME NEW q \in DOMAIN info, ~Shared(q)', q # p
         PROVE  /\ Lives(q)' => Living(q)'
                /\ Ends(q)' => Passed(q)'
    <3>1. Living(q) => Living(q)'
      BY <1>2, <1>3, <1>17, <2>1, <2>4, <2>10 DEF Living
    <3>2. Passed(q) => Passed(q)'
      BY <1>2, <1>5, <1>14, <2>4, <2>10
    <3>3. QED BY <1>15, <1>16, <2>10, <3>1, <3>2
  <2>11. ASSUME ~Shared(p)'
         PROVE  /\ Lives(p)' => Living(p)'
                /\ Ends(p)' => Passed(p)'
    <3>1. Living(p) => Living(p)'
      BY <1>2, <1>3, <1>17, <2>1, <2>4 DEF Living
    <3>2. ASSUME Passed(p)
          PROVE  Passed(p)'
      <4>1. CASE msg.id = Made
        <5>1. ~NotEstablishedAfter(p, 0)
          BY <1>2, <1>5, <4>1 DEF NotEstablishedAfter
        <5>2. PICK i \in DOMAIN jq : /\ jq[i].param = p /\ jq[i].id \in PeerNotConnected
                                     /\ NotEstablishedAfter(p, i)
          BY <1>20, <3>2, <5>1 DEF Passed
        <5>3. i # 1
          BY <1>5, <1>13, <4>1, <5>2
        <5>4. QED BY <1>12, <5>2, <5>3 DEF Passed
      <4>2. CASE msg.id # Made
        <5>1. info'[p].status \in PeerNotConnected \cup Bans
          BY <2>3, <2>4, <4>2
        <5>2. CASE \E i \in DOMAIN jq : /\ i # 1 /\ jq[i].param = p
                                        /\ jq[i].id \in PeerNotConnected
                                        /\ NotEstablishedAfter(p, i)
          BY <1>12, <5>2 DEF Passed
        <5>3. CASE NotEstablishedAfter(p, 0) \/ NotEstablishedAfter(p, 1)
          <6>1. NotEstablishedAfter(p, 0)'
            BY <1>6, <5>3
          <6>2. QED BY <5>1, <6>1 DEF Passed
        <5>4. QED BY <1>20, <3>2, <5>2, <5>3 DEF Passed
      <4>3. QED BY <4>1, <4>2
    <3>3. QED BY <1>15, <1>16, <2>2, <2>11, <3>1, <3>2
  <2>12. Followed'
    BY <2>4, <2>10, <2>11 DEF Followed
  <2>13. QED BY <1>10, <2>4, <2>5, <2>6, <2>7, <2>8, <2>9, <2>12 DEF Inv
<1>21. QED BY <1>3, <1>18, <1>19, <1>20

(* A message is counted: what is dropped has ended.                        *)
LEMMA FewerListed ==
  ASSUME Inv, UNCHANGED <<info, modified, connection, jq, to_be_closed, bind>>,
         ServersKept',
         peer_list' \in Seq(Infos), IsInjective(peer_list'),
         ToSet(peer_list') \subseteq ToSet(peer_list),
         freed' \subseteq DOMAIN info, ToSet(peer_list') \cap freed' = {},
         freed' \subseteq freed \cup ToSet(peer_list),
         list'.pc = "idle", list'.msg = NoMessage,
         \A p \in DOMAIN info : Living(p) => p \in ToSet(peer_list')
  PROVE  Inv'
<1>1. Entries' /\ Dated' /\ Enough' /\ Owned'
  BY EntriesSame, DatedSame, EnoughSame, OwnedSame DEF Inv
<1>2. Carried'
  BY DEF Inv, Carried
<1>3. Listed'
  BY DEF Inv, Listed
<1>4. Binding'
  BY DEF Inv, Binding, Uses
<1>5. Counting'
  BY DEF Counting
<1>6. ASSUME NEW p \in DOMAIN info, ~Shared(p)'
      PROVE  /\ Lives(p)' => Living(p)'
             /\ Ends(p)' => Passed(p)'
  <2>1. ~Shared(p) /\ (Lives(p)' => Lives(p)) /\ (Ends(p)' => Ends(p))
    BY <1>6 DEF Shared, Lives, Ends, Uses
  <2>2. (Lives(p) => Living(p)) /\ (Ends(p) => Passed(p))
    BY <2>1 DEF Inv, Followed
  <2>3. p # NoInfo
    BY DirectoryAssumption DEF Inv, Entries
  <2>4. list'.msg.param = NoInfo
    BY DEF NoMessage
  <2>5. Living(p) => Living(p)'
    BY <2>3, <2>4 DEF Living
  <2>6. Passed(p) => Passed(p)'
    BY DEF Passed, NotEstablishedAfter
  <2>7. QED BY <2>1, <2>2, <2>5, <2>6
<1>7. Followed'
  BY <1>6 DEF Followed
<1>8. QED BY <1>1, <1>2, <1>3, <1>4, <1>5, <1>7 DEF Inv

LEMMA CountMessageKeeps ==
  ASSUME Inv, CountMessage
  PROVE  Inv'
<1>1. PICK p : p = list.msg.param
  OBVIOUS
<1>2. PICK id : id = list.msg.id
  OBVIOUS
<1> DEFINE b == info[p].server
<1>3. /\ list.pc = "counting"
      /\ \E n \in ReadConnecting(servers_list[b], id) :
           servers_list' = [servers_list EXCEPT ![b] =
             Counted([@ EXCEPT !.connecting = n], id, Forgotten(p))]
      /\ peer_list' = IF id \in PeerNotConnected /\ Forgotten(p)
                      THEN Projection(peer_list, Infos \ {p}) ELSE peer_list
      /\ list' = [pc |-> "idle", msg |-> NoMessage]
      /\ list_read' = 0
      /\ UNCHANGED <<info, freed, modified, last_server_assigned, bind_read, outside, bind>>
  BY <1>1, <1>2 DEF CountMessage
<1>4. p \in ToSet(peer_list) /\ p \in DOMAIN info
  BY <1>1, <1>3 DEF Inv, Counting, Listed
<1>5. Forgotten(p) \in BOOLEAN
  <2>1. info[p].old \in BOOLEAN
    BY <1>4 DEF Inv, Entries, InfoType
  <2>2. QED BY <2>1 DEF Forgotten, OtherConnected
<1>6. ServersKept'
  <2>0. PICK n \in ReadConnecting(servers_list[b], id) :
          servers_list' = [servers_list EXCEPT ![b] =
            Counted([@ EXCEPT !.connecting = n], id, Forgotten(p))]
    BY <1>3
  <2>1. /\ servers_list \in Seq(ServerType(Ips)) /\ last_server_assigned \in DOMAIN Servers
        /\ bind_read.connecting \in Nat /\ list_read \in Nat
        /\ DOMAIN servers_list = DOMAIN Servers
    BY DEF Inv, ServersKept
  <2>2. b \in DOMAIN Servers
    BY <1>4 DEF Inv, Entries, InfoType
  <2> DEFINE forgotten == Forgotten(p)
             old == [servers_list[b] EXCEPT !.connecting = n]
             new == Counted(old, id, forgotten)
  <2>3. servers_list' = [servers_list EXCEPT ![b] = new]
    BY <2>0
  <2>4. forgotten \in BOOLEAN
    BY <1>5
  <2> HIDE DEF b, forgotten
  <2>5. servers_list[b] \in ServerType(Ips)
    BY <2>1, <2>2, ElementOfSeq
  <2>6. n \in Nat
    <3>1. servers_list[b].connecting \in Nat
      BY <2>5 DEF ServerType
    <3>2. QED BY <2>0, <2>1, <3>1 DEF ReadConnecting
  <2>7. old \in ServerType(Ips) /\ old.ip = servers_list[b].ip
    BY <2>5, <2>6 DEF ServerType
  <2> HIDE DEF old
  <2>8. new \in ServerType(Ips) /\ new.ip = servers_list[b].ip
    BY <2>4, <2>7, CountedHosts
  <2> HIDE DEF new
  <2>9. SameHosts(servers_list, servers_list')
    BY <2>1, <2>3, <2>8, HostsOfOne
  <2>10. QED BY <1>3, <2>1, <2>9, HostsKept DEF Inv
<1>7. /\ peer_list' \in Seq(Infos) /\ IsInjective(peer_list')
      /\ ToSet(peer_list') \subseteq ToSet(peer_list)
      /\ ToSet(peer_list') = IF id \in PeerNotConnected /\ Forgotten(p)
                             THEN ToSet(peer_list) \cap (Infos \ {p}) ELSE ToSet(peer_list)
  <2> DEFINE kept == Projection(peer_list, Infos \ {p})
  <2>1. peer_list \in Seq(Infos) /\ IsInjective(peer_list)
    BY DEF Inv, Listed
  <2>2. /\ kept \in Seq(Infos) /\ IsInjective(kept)
        /\ ToSet(kept) = ToSet(peer_list) \cap (Infos \ {p})
    BY <2>1, ProjectedMembers
  <2>3. peer_list' = IF id \in PeerNotConnected /\ Forgotten(p) THEN kept ELSE peer_list
    BY <1>3
  <2> HIDE DEF kept
  <2>4. CASE id \in PeerNotConnected /\ Forgotten(p)
    BY <2>2, <2>3, <2>4
  <2>5. CASE ~(id \in PeerNotConnected /\ Forgotten(p))
    BY <2>1, <2>3, <2>5
  <2>6. QED BY <2>4, <2>5
<1>8. freed' \subseteq DOMAIN info /\ ToSet(peer_list') \cap freed' = {}
  BY <1>3, <1>7 DEF Inv, Listed
<1>9. ASSUME NEW q \in DOMAIN info, Living(q)
      PROVE  q \in ToSet(peer_list')
  <2>1. q \in ToSet(peer_list) /\ (q = p => id \notin PeerNotConnected)
    BY <1>1, <1>2, <1>9 DEF Living
  <2>2. q \in Infos
    BY DEF Inv, Entries
  <2>3. QED BY <1>7, <2>1, <2>2
<1>10. list'.pc = "idle" /\ list'.msg = NoMessage
  BY <1>3
<1>11. QED BY <1>3, <1>6, <1>7, <1>8, <1>9, <1>10, FewerListed DEF outside

(* The deleted entries have ended, and leave the list.                     *)
LEMMA CleanKeeps ==
  ASSUME Inv, CleanConnections
  PROVE  Inv'
<1>1. /\ list.pc = "idle"
      /\ servers_list' = CountClean
      /\ peer_list' = Projection(peer_list, Infos \ Cleaned)
      /\ freed' = freed \cup Cleaned
      /\ UNCHANGED <<info, modified, last_server_assigned, bind_read, list_read, outside,
                     bind, list>>
  BY DEF CleanConnections
<1>2. peer_list \in Seq(Infos) /\ IsInjective(peer_list)
  BY DEF Inv, Listed
<1>3. /\ peer_list' \in Seq(Infos) /\ IsInjective(peer_list')
      /\ ToSet(peer_list') = ToSet(peer_list) \cap (Infos \ Cleaned)
  BY <1>1, <1>2, ProjectedMembers
<1>4. ServersKept'
  <2> DEFINE gone == Projection(peer_list, Cleaned)
             status == [p \in DOMAIN info |-> info[p].status]
  <2>1. gone \in Seq(Infos)
    BY <1>2, ProjectedMembers
  <2>2. servers_list \in Seq(ServerType(Ips)) /\ last_server_assigned \in DOMAIN Servers
    BY DEF Inv, ServersKept
  <2>3. servers_list' = CountedOff(servers_list, gone, status)
    BY <1>1 DEF CountClean
  <2> HIDE DEF gone, status
  <2>4. SameHosts(servers_list, servers_list')
    BY <2>1, <2>2, <2>3, CountedOffHosts
  <2>5. QED BY <1>1, <2>2, <2>4, HostsKept DEF Inv, ServersKept
<1>5. Cleaned \subseteq ToSet(peer_list)
  BY DEF Cleaned
<1>6. freed' \subseteq DOMAIN info /\ ToSet(peer_list') \cap freed' = {}
  BY <1>1, <1>3, <1>5 DEF Inv, Listed
<1>7. ASSUME NEW q \in DOMAIN info, Living(q)
      PROVE  q \in ToSet(peer_list')
  <2>1. q \in ToSet(peer_list) /\ q \notin Cleaned
    BY <1>7 DEF Living, Cleaned
  <2>2. q \in Infos
    BY DEF Inv, Entries
  <2>3. QED BY <1>3, <2>1, <2>2
<1>8. list'.pc = "idle" /\ list'.msg = NoMessage
  BY <1>1 DEF Inv, Counting
<1>9. QED BY <1>1, <1>3, <1>4, <1>5, <1>6, <1>7, <1>8, FewerListed DEF outside

-----------------------------------------------------------------------------
(* The admin's requests: a message about what is shown.                    *)
LEMMA RequestKeeps ==
  ASSUME Inv, NEW m \in MessageType, m.id \in Asked, jq' = Append(jq, m),
         UNCHANGED <<directory, counters, connection, to_be_closed, bind, list>>
  PROVE  Inv'
<1>1. jq \in Seq(MessageType)
  BY DEF Inv, Carried
<1>2. PICK n \in Nat : n = Len(jq)
  BY <1>1
<1>3. /\ jq' \in Seq(MessageType)
      /\ DOMAIN jq = 1 .. n /\ DOMAIN jq' = 1 .. n + 1
      /\ \A i \in 1 .. n : jq'[i] = jq[i]
      /\ jq'[n + 1] = m
  BY <1>1, <1>2
<1>4. m.id \notin PeerNotConnected /\ m.id # Made
  BY DEF Asked, Bans, PeerNotConnected, PeerDisconnected, Made
<1>5. \A i \in DOMAIN jq' : (i \in DOMAIN jq /\ jq'[i] = jq[i]) \/ jq'[i] = m
  BY <1>3
<1>6. \A i \in DOMAIN jq : i \in DOMAIN jq' /\ jq'[i] = jq[i]
  BY <1>3
<1>7. UNCHANGED <<peer_list, info, freed, modified, connection, to_be_closed, bind, list>>
  BY DEF directory
<1>8. Carried'
  BY <1>3, <1>7 DEF Inv, Carried
<1>9. Owned'
  BY <1>5, <1>7 DEF Inv, Owned, Uses
<1>10. ASSUME NEW p \in DOMAIN info, ~Shared(p)'
       PROVE  /\ Lives(p)' => Living(p)'
              /\ Ends(p)' => Passed(p)'
  <2>1. ~Shared(p) /\ (Lives(p)' => Lives(p)) /\ (Ends(p)' => Ends(p))
    BY <1>7, <1>10 DEF Shared, Lives, Ends, Uses
  <2>2. (Lives(p) => Living(p)) /\ (Ends(p) => Passed(p))
    BY <2>1 DEF Inv, Followed
  <2>3. Living(p) => Living(p)'
    BY <1>4, <1>5, <1>7 DEF Living
  <2>4. \A k : NotEstablishedAfter(p, k) => NotEstablishedAfter(p, k)'
    BY <1>4, <1>5 DEF NotEstablishedAfter
  <2>5. Passed(p) => Passed(p)'
    BY <1>6, <1>7, <2>4 DEF Passed
  <2>6. QED BY <2>1, <2>2, <2>3, <2>5
<1>11. Followed'
  BY <1>7, <1>10 DEF Followed
<1>12. QED
  BY <1>7, <1>8, <1>9, <1>11, ServersSame, EntriesSame, ListedSame, DatedSame,
     BindingSame, CountingSame, EnoughSame DEF Inv

-----------------------------------------------------------------------------
(* The whole.                                                              *)
LEMMA Begins == Init => Inv
<1> SUFFICES ASSUME Init PROVE Inv
  OBVIOUS
<1>1. /\ servers_list = Servers /\ last_server_assigned = Len(Servers)
      /\ peer_list = <<>> /\ info = <<>> /\ freed = {} /\ modified = <<>> /\ jq = <<>>
      /\ connection = <<>> /\ to_be_closed = {} /\ bind = Idle
      /\ list = [pc |-> "idle", msg |-> NoMessage]
      /\ bind_read.connecting = 0 /\ list_read = 0
  BY DEF Init, Nothing
<1>2. ServersKept
  <2>1. Servers \in Seq(ServerType(Ips)) /\ Servers # <<>>
    BY DirectoryAssumption
  <2>2. Len(Servers) \in DOMAIN Servers
    BY <2>1, EmptySeq
  <2>3. QED BY <1>1, <2>1, <2>2 DEF ServersKept
<1>3. DOMAIN info = {} /\ DOMAIN jq = {} /\ DOMAIN connection = {} /\ ToSet(peer_list) = {}
  BY <1>1 DEF ToSet
<1>4. Entries
  <2>1. info = [p \in {} |-> 0]
    BY <1>1
  <2>2. QED BY <1>3, <2>1 DEF Entries
<1>5. Listed
  BY <1>1, <1>3 DEF Listed, IsInjective
<1>6. Dated /\ Carried
  BY <1>1, <1>3 DEF Dated, Carried
<1>7. bind.pc = "idle" /\ bind.info = NoInfo
  BY <1>1 DEF Idle
<1>8. Binding
  <2>1. bind \in BindRecords
    BY <1>1 DEF Idle, BindRecords
  <2>2. QED BY <1>7, <2>1 DEF Binding
<1>9. Counting
  BY <1>1 DEF Counting
<1>10. Enough
  <2>1. Cardinality(DOMAIN info) = 0 /\ Len(connection) = 0
    BY <1>1, <1>3, FS_EmptySet
  <2>2. QED BY <1>7, <2>1 DEF Enough
<1>11. Owned /\ Followed
  BY <1>3 DEF Owned, Followed
<1>12. QED BY <1>2, <1>4, <1>5, <1>6, <1>8, <1>9, <1>10, <1>11 DEF Inv

LEMMA StutterKeeps == ASSUME Inv, UNCHANGED vars PROVE Inv'
<1>1. UNCHANGED <<directory, counters, outside, bind, list>>
  BY DEF vars
<1>2. UNCHANGED <<peer_list, info, freed, modified, connection, jq, bind, list>>
  BY <1>1 DEF directory, outside
<1>3. QED
  BY <1>1, <1>2, ServersSame, EntriesSame, ListedSame, DatedSame, CarriedSame,
     BindingSame, CountingSame, EnoughSame, OwnedSame, FollowedSame DEF Inv

LEMMA StepKeeps == Inv /\ [Next]_vars => Inv'
<1> SUFFICES ASSUME Inv, [Next]_vars PROVE Inv'
  OBVIOUS
<1>1. CASE Search BY <1>1, SearchKeeps
<1>2. CASE Recreate BY <1>2, RecreateKeeps
<1>3. CASE RecreateFails BY <1>3, RecreateFailsKeeps
<1>4. CASE Assign BY <1>4, AssignKeeps
<1>5. CASE Add BY <1>5, AddKeeps
<1>6. CASE SetServer BY <1>6, SetServerKeeps
<1>7. CASE ProcessMessage BY <1>7, ProcessMessageKeeps
<1>8. CASE CountMessage BY <1>8, CountMessageKeeps
<1>9. CASE CleanConnections BY <1>9, CleanKeeps
<1>10. CASE PurgeConnections BY <1>10, PurgeKeeps
<1>11. CASE Serve BY <1>11, ServeKeeps
<1>12. CASE ClosePInfo BY <1>12, ClosePInfoKeeps
<1>13. CASE RetryElapses BY <1>13, RetryElapsesKeeps
<1>14. CASE CountConnecting BY <1>14, CountConnectingKeeps
<1>15. CASE UNCHANGED vars BY <1>15, StutterKeeps
<1>16. QED
  BY <1>1, <1>2, <1>3, <1>4, <1>5, <1>6, <1>7, <1>8, <1>9, <1>10, <1>11, <1>12, <1>13, <1>14,
     <1>15
     DEF Next, GetServer, Execute, Managers

LEMMA Invariant == Spec => []Inv
<1>1. QED BY Begins, StepKeeps, PTL DEF Spec


-----------------------------------------------------------------------------
(***************************************************************************)
(* The mirror: what a step of RELB tells the admin (Tells), and what the   *)
(* admin shows once it has read it.                                        *)
(***************************************************************************)
MirrorMessages == [id : Statuses, param : Infos]

News == "CONNECTING_SERVER"

NewsOf(p, j) == admin_jq[j].param = p /\ admin_jq[j].id = "CONNECTING_SERVER"

LastOf(p, j) ==
  admin_jq[j].param = p /\ \A k \in DOMAIN admin_jq : k > j => admin_jq[k].param # p

AdminTypes ==
  /\ admin_peers \in Seq(Infos)
  /\ admin_jq \in Seq(MirrorMessages)
  /\ \A j \in DOMAIN admin_jq : admin_jq[j].param \in DOMAIN info
  /\ admin_status \in [DOMAIN admin_status -> Statuses]
  /\ DOMAIN admin_status \subseteq DOMAIN info
  /\ ToSet(admin_peers) \subseteq DOMAIN admin_status

(* The last that is said of a session is its status; its news comes once.  *)
Mirrored(p) ==
  /\ \A j \in DOMAIN admin_jq : LastOf(p, j) => admin_jq[j].id = info[p].status
  /\ ~InFlight(p) /\ p \in ToSet(admin_peers) => admin_status[p] = info[p].status
  /\ \A j \in DOMAIN admin_jq : NewsOf(p, j) => p \notin DOMAIN admin_status
  /\ \A j, k \in DOMAIN admin_jq : NewsOf(p, j) /\ NewsOf(p, k) => j = k

Young(p) ==
  \/ bind.info = p
  \/ \E c \in DOMAIN connection : Uses(c, p) /\ connection[c].phase \in Alive

(* No end is said of a session that lives, and it is shown or will be.     *)
Visible(p) ==
  /\ \A j \in DOMAIN admin_jq :
       admin_jq[j].param = p => admin_jq[j].id \in {"CONNECTING_SERVER", Made}
  /\ p \in ToSet(admin_peers) \/ \E j \in DOMAIN admin_jq : NewsOf(p, j)
  /\ p \in DOMAIN admin_status => admin_status[p] \notin PeerNotConnected

Followers ==
  /\ \A p \in DOMAIN info \ freed : ~Shared(p) => Mirrored(p)
  /\ \A p \in DOMAIN info : Young(p) /\ ~Shared(p) /\ p \notin banned => Visible(p)

AdminInv == Inv /\ AdminTypes /\ Followers

-----------------------------------------------------------------------------
(* What a step of RELB tells of a session: nothing, or its new status.     *)
Unmentioned(q) ==
  /\ q \in DOMAIN info
  /\ info'[q].status = info[q].status
  /\ \A j \in DOMAIN Forwarded : Forwarded[j].param # q

Mentioned(q) ==
  /\ Forwarded = <<[id |-> info'[q].status, param |-> q]>>
  /\ q \in DOMAIN info <=> info'[q].status # "CONNECTING_SERVER"

BanTaken(q) == list'.pc = "counting" /\ list'.msg.id \in Bans /\ list'.msg.param = q

Tells ==
  /\ Forwarded \in Seq(MirrorMessages)
  /\ \A j \in DOMAIN Forwarded : Forwarded[j].param \in DOMAIN info'
  /\ DOMAIN info \subseteq DOMAIN info' /\ freed \subseteq freed'
  /\ \A q \in DOMAIN info : Shared(q) => Shared(q)'
  /\ \A q \in DOMAIN info' :
       ~Shared(q)' /\ (q \notin freed' \/ Young(q)') => Unmentioned(q) \/ Mentioned(q)
  /\ \A q \in DOMAIN info : ~Shared(q)' /\ Young(q)' =>
       /\ Young(q)
       /\ Mentioned(q) => info'[q].status = Made \/ BanTaken(q)

(* Who is young has not ended.                                             *)
LEMMA YoungLives ==
  ASSUME Inv, NEW q \in DOMAIN info, Young(q), ~Shared(q)
  PROVE  /\ info[q].status \notin PeerNotConnected
         /\ q \in ToSet(peer_list) => Living(q)
<1>1. CASE bind.info = q /\ bind.pc = "add"
  BY <1>1 DEF Inv, Binding
<1>2. CASE ~(bind.info = q /\ bind.pc = "add")
  <2>1. q # NoInfo
    BY DirectoryAssumption DEF Inv, Entries
  <2>2. bind.info = q => bind.pc = "connect"
    BY <1>2, <2>1 DEF Inv, Binding, BindRecords
  <2>3. Lives(q)
    BY <2>2 DEF Young, Lives
  <2>4. QED BY <2>3 DEF Inv, Followed, Living
<1>3. QED BY <1>1, <1>2

(* Nothing is told unless a session is made, taken up, marked or deleted.  *)
LEMMA NoneDeleted ==
  ASSUME Inv, freed' = freed
  PROVE  Deleted = <<>>
<1> DEFINE gone == Projection(peer_list, freed' \ freed)
<1>1. peer_list \in Seq(Infos)
  BY DEF Inv, Listed
<1>2. gone \in Seq(Infos) /\ ToSet(gone) = ToSet(peer_list) \cap (freed' \ freed)
  BY <1>1, ProjectedMembers
<1>3. freed' \ freed = {}
  OBVIOUS
<1>4. Deleted = [i \in DOMAIN gone |-> [id |-> "PEER_CONNECTION_BAN_THIS", param |-> gone[i]]]
  BY DEF Deleted
<1> HIDE DEF gone
<1>5. ToSet(gone) = {}
  BY <1>2, <1>3
<1>6. DOMAIN gone = {}
  BY <1>5 DEF ToSet
<1>7. QED BY <1>4, <1>6

LEMMA QuietTells ==
  ASSUME Inv, freed' = freed, bind'.info \in {bind.info, NoInfo},
         list.pc = "idle" /\ list'.pc = "counting" => list'.msg.id = "PEER_CONNECTION_KICKED",
         DOMAIN info' = DOMAIN info,
         \A q \in DOMAIN info : info'[q].status = info[q].status,
         \A q \in DOMAIN info : Shared(q) => Shared(q)',
         \A q \in DOMAIN info : ~Shared(q)' /\ Young(q)' => Young(q)
  PROVE  Tells
<1>1. Assigned = <<>> /\ Processed = <<>> /\ Deleted = <<>>
  BY NoneDeleted DEF Assigned, Processed
<1>2. Forwarded = <<>>
  BY <1>1 DEF Forwarded
<1>3. \A q \in DOMAIN info : Unmentioned(q) /\ ~Mentioned(q)
  BY <1>2 DEF Unmentioned, Mentioned
<1>4. Forwarded \in Seq(MirrorMessages) /\ DOMAIN Forwarded = {}
  BY <1>2
<1>5. QED BY <1>3, <1>4 DEF Tells

LEMMA OneTells ==
  ASSUME Inv, freed' = freed, NEW p \in Infos, NEW id \in Statuses,
         Forwarded = <<[id |-> id, param |-> p]>>,
         DOMAIN info' = DOMAIN info \cup {p}, info'[p].status = id,
         \A q \in DOMAIN info : q # p => info'[q].status = info[q].status,
         \A q \in DOMAIN info : Shared(q) => Shared(q)',
         \A q \in DOMAIN info : ~Shared(q)' /\ Young(q)' => Young(q),
         ~Shared(p)' => (p \in DOMAIN info <=> id # "CONNECTING_SERVER"),
         p \in DOMAIN info /\ ~Shared(p)' /\ Young(p) => id = Made \/ BanTaken(p)
  PROVE  Tells
<1> DEFINE m == [id |-> id, param |-> p]
<1>1. m \in MirrorMessages /\ m.param = p
  BY DEF MirrorMessages
<1> HIDE DEF m
<1>2. Forwarded = <<m>>
  BY DEF m
<1>3. Forwarded \in Seq(MirrorMessages) /\ DOMAIN Forwarded = {1} /\ Forwarded[1] = m
  BY <1>1, <1>2
<1>4. \A j \in DOMAIN Forwarded : Forwarded[j].param = p
  BY <1>1, <1>3
<1>5. \A q \in DOMAIN info : q # p => Unmentioned(q) /\ ~Mentioned(q)
  <2> SUFFICES ASSUME NEW q \in DOMAIN info, q # p
               PROVE  Unmentioned(q) /\ ~Mentioned(q)
    OBVIOUS
  <2>1. Unmentioned(q)
    BY <1>4 DEF Unmentioned
  <2>2. ~Mentioned(q)
    <3> SUFFICES ASSUME Mentioned(q) PROVE FALSE
      OBVIOUS
    <3>1. Forwarded[1] = [id |-> info'[q].status, param |-> q]
      BY DEF Mentioned
    <3>2. Forwarded[1].param = q
      BY <3>1
    <3>3. QED BY <1>1, <1>3, <3>2
  <2>3. QED BY <2>1, <2>2
<1>6. ~Shared(p)' => Mentioned(p)
  BY DEF Mentioned
<1>7. QED BY <1>3, <1>4, <1>5, <1>6 DEF Tells

LEMMA SearchLatestTells ==
  ASSUME Inv, NEW client, NEW port, Searching(client, port), SearchLatest(client, port)
  PROVE  Tells
<1>1. /\ UNCHANGED <<info, freed, connection, list>> /\ bind.info = NoInfo
      /\ bind'.info = NoInfo
  BY DEF Searching, SearchLatest, Idle, outside
<1>2. \A q \in DOMAIN info : q # NoInfo
  BY DirectoryAssumption DEF Inv, Entries
<1>3. \A q \in DOMAIN info : /\ Shared(q) => Shared(q)'
                             /\ Young(q)' => Young(q)
  BY <1>1, <1>2 DEF Shared, Young, Uses
<1>4. QED BY <1>1, <1>3, QuietTells

LEMMA SearchExactTells ==
  ASSUME Inv, NEW client, NEW port, Searching(client, port), SearchExact(client, port)
  PROVE  Tells
<1>0. PICK p : p = peer_list[Min(Exact(client, port))]
  OBVIOUS
<1>1. /\ Exact(client, port) # {}
      /\ info' = [info EXCEPT ![p].status = "CONNECTING_SERVER"]
      /\ bind'.info = p /\ bind.info = NoInfo
      /\ UNCHANGED <<freed, connection, list>>
  BY <1>0 DEF SearchExact, Searching, Idle, outside
<1>2. p \in ToSet(peer_list)
  <2>1. Min(Exact(client, port)) \in DOMAIN peer_list
    <3>1. Min(Exact(client, port)) \in Exact(client, port)
      BY <1>1, ExactFound DEF Inv
    <3>2. QED BY <3>1 DEF Exact, Sessions
  <2>2. QED BY <1>0, <2>1 DEF ToSet
<1>3. p \in DOMAIN info /\ p \in Infos /\ NoInfo \notin Infos /\ DOMAIN info \subseteq Infos
  BY <1>2, DirectoryAssumption DEF Inv, Listed, Entries
<1>4. /\ DOMAIN info' = DOMAIN info
      /\ info'[p].status = "CONNECTING_SERVER"
      /\ \A q \in DOMAIN info : q # p => info'[q] = info[q]
  <2>1. "CONNECTING_SERVER" \in Statuses /\ Entries
    BY DEF Statuses, Inv
  <2>2. QED BY <1>1, <1>3, <2>1, StatusSet
<1>5. Shared(p)'
  <2>1. \E c \in DOMAIN connection : Uses(c, p)
    BY <1>1, <1>3 DEF Inv, Owned
  <2>2. QED BY <1>1, <2>1 DEF Shared, Uses
<1>6. \A q \in DOMAIN info : /\ Shared(q) => Shared(q)'
                             /\ q # p => (Young(q)' => Young(q))
  BY <1>1, <1>3 DEF Shared, Young, Uses
<1>7. Forwarded = <<[id |-> "CONNECTING_SERVER", param |-> p]>>
  <2>1. Assigned = <<[id |-> "CONNECTING_SERVER", param |-> p]>>
    BY <1>1, <1>3 DEF Assigned
  <2>2. Processed = <<>> /\ Deleted = <<>>
    BY <1>1, NoneDeleted DEF Processed
  <2> DEFINE m == [id |-> "CONNECTING_SERVER", param |-> p]
  <2> HIDE DEF m
  <2>3. Forwarded = <<m>> \o <<>> \o <<>>
    BY <2>1, <2>2 DEF Forwarded, m
  <2>4. Forwarded = <<m>>
    BY <2>3
  <2>5. QED BY <2>4 DEF m
<1>8. "CONNECTING_SERVER" \in Statuses
  BY DEF Statuses
<1>9. DOMAIN info' = DOMAIN info \cup {p}
  BY <1>3, <1>4
<1>10. /\ \A q \in DOMAIN info : q # p => info'[q].status = info[q].status
       /\ \A q \in DOMAIN info : ~Shared(q)' /\ Young(q)' => Young(q)
  BY <1>4, <1>5, <1>6
<1>11. QED
  BY <1>1, <1>3, <1>4, <1>5, <1>6, <1>7, <1>8, <1>9, <1>10, OneTells

(* A session that is made is news.                                         *)
LEMMA NewTells ==
  ASSUME Inv, bind.pc \in {"recreate", "select"},
         NEW new, new = Fresh, NEW server,
         info' = With(new, NewInfo(bind.client, bind.port, server)),
         bind'.info = new,
         UNCHANGED <<freed, outside, list>>
  PROVE  Tells
<1>1. bind.info = NoInfo /\ Len(connection) < MaxConnections
  BY DEF Inv, Binding
<1>2. new \in Infos \ DOMAIN info
  BY <1>1, FreshFound DEF Inv
<1>3. new # NoInfo /\ NoInfo \notin Infos /\ DOMAIN info \subseteq Infos
  BY <1>2, DirectoryAssumption DEF Inv, Entries
<1>4. /\ DOMAIN info' = DOMAIN info \cup {new}
      /\ \A q \in DOMAIN info : info'[q] = info[q]
      /\ info'[new].status = "CONNECTING_SERVER"
  BY <1>2 DEF With, NewInfo
<1>5. connection' = connection
  BY DEF outside
<1>6. \A q \in DOMAIN info : /\ Shared(q) => Shared(q)'
                             /\ Young(q)' => Young(q)
  BY <1>1, <1>2, <1>3, <1>5 DEF Shared, Young, Uses
<1>7. Forwarded = <<[id |-> "CONNECTING_SERVER", param |-> new]>>
  <2>1. Assigned = <<[id |-> "CONNECTING_SERVER", param |-> new]>>
    BY <1>1, <1>3 DEF Assigned
  <2>2. Processed = <<>> /\ Deleted = <<>>
    BY NoneDeleted DEF Processed
  <2> DEFINE m == [id |-> "CONNECTING_SERVER", param |-> new]
  <2> HIDE DEF m
  <2>3. Forwarded = <<m>> \o <<>> \o <<>>
    BY <2>1, <2>2 DEF Forwarded, m
  <2>4. Forwarded = <<m>>
    BY <2>3
  <2>5. QED BY <2>4 DEF m
<1>8. "CONNECTING_SERVER" \in Statuses
  BY DEF Statuses
<1>9. \A q \in DOMAIN info : q # new => info'[q].status = info[q].status
  BY <1>4
<1>10. QED BY <1>2, <1>4, <1>6, <1>7, <1>8, <1>9, OneTells

LEMMA GetServerTells ==
  ASSUME Inv, GetServer \/ SetServer
  PROVE  Tells
<1>1. CASE Search
  <2>1. bind.pc = "idle" /\ bind.info = NoInfo
    BY <1>1 DEF Search, Inv, Binding
  <2>2. Len(connection) \in Nat /\ Len(connection) < MaxConnections
    <3>1. Len(connection) \in Nat
      BY DEF Inv, Carried
    <3>2. QED BY <1>1, <3>1, DirectoryAssumption DEF Search
  <2>3. PICK client \in Clients : \E port \in {Len(connection) + 1} \cup PortsOf(client) :
          SearchExact(client, port) \/ SearchLatest(client, port)
    BY <1>1 DEF Search
  <2>4. PICK port \in {Len(connection) + 1} \cup PortsOf(client) :
          SearchExact(client, port) \/ SearchLatest(client, port)
    BY <2>3
  <2>5. port \in Nat
    <3>1. \A p \in DOMAIN info : info[p].port \in Nat
      BY DEF Inv, Entries, InfoType
    <3>2. QED BY <2>2, <3>1 DEF PortsOf
  <2>6. Searching(client, port)
    BY <1>1, <2>1, <2>2, <2>5 DEF Searching, Search
  <2>7. QED BY <2>4, <2>6, SearchExactTells, SearchLatestTells
<1>2. CASE Recreate
  <2>0. PICK new : new = Fresh
    OBVIOUS
  <2>1. PICK server : server = info[peer_list[bind.index]].server
    OBVIOUS
  <2>2. /\ bind.pc = "recreate"
        /\ info' = With(new, NewInfo(bind.client, bind.port, server))
        /\ bind' = [bind EXCEPT !.pc = "connect", !.info = new]
        /\ UNCHANGED <<freed, outside, list>>
    BY <1>2, <2>0, <2>1 DEF Recreate
  <2>3. bind'.info = new
    BY <2>2 DEF Inv, Binding, BindRecords
  <2>4. QED BY <2>0, <2>2, <2>3, NewTells
<1>3. CASE RecreateFails \/ Add
  <2>1. /\ UNCHANGED <<info, freed, connection, list>>
        /\ bind' = [bind EXCEPT !.pc = bind'.pc]
    BY <1>3 DEF RecreateFails, Add, directory, outside
  <2>2. bind'.info = bind.info
    BY <2>1 DEF Inv, Binding, BindRecords
  <2>3. \A q \in DOMAIN info : /\ Shared(q) => Shared(q)'
                               /\ Young(q)' => Young(q)
    BY <2>1, <2>2 DEF Shared, Young, Uses
  <2>4. QED BY <2>1, <2>2, <2>3, QuietTells
<1>4. CASE Assign
  <2> DEFINE best == Select(servers_list, filter_list, last_server_assigned, bind.client)
  <2>1. PICK server : server = best.next.server
    OBVIOUS
  <2>2. PICK new : new = Fresh
    OBVIOUS
  <2>3. /\ bind.pc = "select"
        /\ UNCHANGED <<freed, outside, list>>
        /\ \/ /\ info' = With(new, NewInfo(bind.client, bind.port, server))
              /\ bind' = [bind EXCEPT !.pc = "add", !.info = new]
           \/ bind' = Idle /\ UNCHANGED info
    BY <1>4, <2>1, <2>2 DEF Assign
  <2> HIDE DEF best
  <2>4. CASE /\ info' = With(new, NewInfo(bind.client, bind.port, server))
             /\ bind' = [bind EXCEPT !.pc = "add", !.info = new]
    <3>1. bind'.info = new
      BY <2>4 DEF Inv, Binding, BindRecords
    <3>2. QED BY <2>2, <2>3, <2>4, <3>1, NewTells
  <2>5. CASE bind' = Idle /\ UNCHANGED info
    <3>1. bind.info = NoInfo /\ bind'.info = NoInfo /\ connection' = connection
      BY <2>3, <2>5 DEF Inv, Binding, Idle, outside
    <3>2. \A q \in DOMAIN info : /\ Shared(q) => Shared(q)'
                                 /\ Young(q)' => Young(q)
      BY <3>1 DEF Shared, Young, Uses
    <3>3. QED BY <2>3, <2>5, <3>1, <3>2, QuietTells
  <2>6. QED BY <2>3, <2>4, <2>5
<1>5. CASE SetServer
  <2>0. PICK n : n = Len(connection)
    OBVIOUS
  <2> DEFINE record == [info |-> bind.info, phase |-> "connecting"]
  <2>1. /\ bind.pc = "connect" /\ bind' = Idle
        /\ connection' = Append(connection, record)
        /\ UNCHANGED <<info, freed, list>>
    BY <1>5 DEF SetServer, directory
  <2>2. record.info = bind.info
    OBVIOUS
  <2>3. n \in Nat /\ DOMAIN connection = 1 .. n
    BY <2>0 DEF Inv, Carried
  <2> HIDE DEF record
  <2>4. /\ DOMAIN connection' = 1 .. n + 1
        /\ \A c \in 1 .. n : connection'[c] = connection[c]
        /\ connection'[n + 1] = record
    BY <2>0, <2>1, <2>3 DEF Inv, Carried
  <2>5. bind'.info = NoInfo
    BY <2>1 DEF Idle
  <2>6. ASSUME NEW q \in DOMAIN info
        PROVE  /\ Shared(q) => Shared(q)'
               /\ Young(q)' => Young(q)
    <3>1. q # NoInfo
      BY DirectoryAssumption DEF Inv, Entries
    <3>2. \A c \in DOMAIN connection : c \in DOMAIN connection' /\ c # n + 1
                                       /\ connection'[c] = connection[c]
      BY <2>3, <2>4
    <3>3. \A c \in DOMAIN connection' : c \in DOMAIN connection \/ c = n + 1
      BY <2>3, <2>4
    <3>4. Uses(n + 1, q)' <=> bind.info = q
      BY <2>2, <2>4 DEF Uses
    <3>5. \A c \in DOMAIN connection : Uses(c, q)' <=> Uses(c, q)
      BY <3>2 DEF Uses
    <3>6. n + 1 \in DOMAIN connection'
      BY <2>3, <2>4
    <3>7. Shared(q) => Shared(q)'
      <4>1. CASE \E c, d \in DOMAIN connection : c # d /\ Uses(c, q) /\ Uses(d, q)
        BY <3>2, <3>5, <4>1 DEF Shared
      <4>2. CASE bind.info = q /\ \E c \in DOMAIN connection : Uses(c, q)
        <5>1. PICK c \in DOMAIN connection : Uses(c, q)
          BY <4>2
        <5>2. c \in DOMAIN connection' /\ c # n + 1 /\ Uses(c, q)' /\ Uses(n + 1, q)'
          BY <3>2, <3>4, <3>5, <4>2, <5>1
        <5>3. QED BY <3>6, <5>2 DEF Shared
      <4>3. QED BY <4>1, <4>2 DEF Shared
    <3>8. Young(q)' => Young(q)
      BY <2>5, <3>1, <3>2, <3>3, <3>4, <3>5 DEF Young
    <3>9. QED BY <3>7, <3>8
  <2>7. QED BY <2>1, <2>5, <2>6, QuietTells
<1>6. CASE CountConnecting
  <2>1. UNCHANGED <<info, freed, connection, bind, list>>
    BY <1>6 DEF CountConnecting, directory, outside
  <2>2. \A q \in DOMAIN info : /\ Shared(q) => Shared(q)'
                               /\ Young(q)' => Young(q)
    BY <2>1 DEF Shared, Young, Uses
  <2>3. QED BY <2>1, <2>2, QuietTells
<1>7. QED BY <1>1, <1>2, <1>3, <1>4, <1>5, <1>6 DEF GetServer

LEMMA StatusTells ==
  ASSUME Inv, ProcessMessage
  PROVE  Tells
<1>0. PICK msg : msg = Head(jq)
  OBVIOUS
<1>1. PICK p : p = msg.param
  OBVIOUS
<1>2. /\ list.pc = "idle" /\ jq # <<>>
      /\ \/ /\ p \in ToSet(peer_list)
            /\ TakeStatus(msg) \/ TakeKick(msg)
            /\ list' = [pc |-> "counting", msg |-> msg]
         \/ UNCHANGED <<info, list>>
      /\ UNCHANGED <<peer_list, freed, connection, bind>>
  BY <1>0, <1>1 DEF ProcessMessage, Take
<1>3. \A q \in DOMAIN info : /\ Shared(q) <=> Shared(q)'
                             /\ Young(q)' => Young(q)
  BY <1>2 DEF Shared, Young, Uses
<1>4. CASE UNCHANGED <<info, list>>
  BY <1>2, <1>3, <1>4, QuietTells
<1>5. CASE p \in ToSet(peer_list) /\ TakeKick(msg)
           /\ list' = [pc |-> "counting", msg |-> msg]
  <2>1. UNCHANGED info /\ list'.msg.id = "PEER_CONNECTION_KICKED"
    BY <1>5 DEF TakeKick
  <2>2. QED BY <1>2, <1>3, <2>1, QuietTells
<1>6. CASE p \in ToSet(peer_list) /\ TakeStatus(msg)
           /\ list' = [pc |-> "counting", msg |-> msg]
  <2>0. PICK id : id = msg.id
    OBVIOUS
  <2>1. /\ id # "PEER_CONNECTION_KICKED"
        /\ info' = [info EXCEPT ![p].status = id]
    BY <1>1, <1>6, <2>0 DEF TakeStatus
  <2>2. /\ jq \in Seq(MessageType) /\ msg = jq[1] /\ 1 \in DOMAIN jq /\ msg \in MessageType
    BY <1>0, <1>2, FirstTaken DEF Inv, Carried
  <2>3. /\ p \in Infos /\ id \in PeerNotConnected \cup {Made} \cup Bans
        /\ msg = [id |-> id, param |-> p]
    BY <1>1, <2>0, <2>1, <2>2 DEF MessageType, Asked
  <2>4. id \in Statuses /\ id # "CONNECTING_SERVER"
    BY <2>3 DEF Statuses, Made, PeerNotConnected, PeerDisconnected, Bans
  <2>5. p \in DOMAIN info
    BY <1>6 DEF Inv, Listed
  <2>6. /\ DOMAIN info' = DOMAIN info /\ info'[p].status = id
        /\ \A q \in DOMAIN info : q # p => info'[q] = info[q]
    BY <2>1, <2>4, <2>5, StatusSet DEF Inv
  <2>7. Forwarded = <<[id |-> id, param |-> p]>>
    <3>1. Assigned = <<>> /\ Deleted = <<>>
      BY <1>2, NoneDeleted DEF Assigned
    <3>2. Processed = <<msg>>
      BY <1>2, <1>6, <2>0, <2>1 DEF Processed
    <3>3. Forwarded = <<>> \o <<msg>> \o <<>>
      BY <3>1, <3>2 DEF Forwarded
    <3>4. Forwarded = <<msg>>
      BY <3>3
    <3>5. QED BY <2>3, <3>4
  <2>8. ~Shared(p)' /\ Young(p) => id = Made \/ BanTaken(p)
    <3> SUFFICES ASSUME ~Shared(p)', Young(p) PROVE id = Made \/ BanTaken(p)
      OBVIOUS
    <3>1. Living(p)
      BY <1>3, <1>6, <2>5, YoungLives
    <3>2. id \notin PeerNotConnected
      BY <1>1, <2>0, <2>2, <3>1 DEF Living
    <3>3. id \in Bans => BanTaken(p)
      BY <1>1, <1>6, <2>0 DEF BanTaken
    <3>4. QED BY <2>3, <3>2, <3>3
  <2>9. DOMAIN info' = DOMAIN info \cup {p}
    BY <2>5, <2>6
  <2>10. /\ \A q \in DOMAIN info : q # p => info'[q].status = info[q].status
         /\ \A q \in DOMAIN info : ~Shared(q)' /\ Young(q)' => Young(q)
         /\ \A q \in DOMAIN info : Shared(q) => Shared(q)'
    BY <1>3, <2>6
  <2>11. QED
    BY <1>2, <2>3, <2>4, <2>5, <2>6, <2>7, <2>8, <2>9, <2>10, OneTells
<1>7. QED BY <1>2, <1>4, <1>5, <1>6

(* Deletions are told of what has ended.                                   *)
LEMMA CleanTells ==
  ASSUME Inv, CleanConnections
  PROVE  Tells
<1>1. /\ freed' = freed \cup Cleaned
      /\ list.pc = "idle"
      /\ UNCHANGED <<info, connection, bind, list>>
  BY DEF CleanConnections, outside
<1>2. /\ Deleted \in Seq(MirrorMessages)
      /\ \A j \in DOMAIN Deleted : Deleted[j].param \in Cleaned
  <2> DEFINE gone == Projection(peer_list, freed' \ freed)
             n == Len(gone)
  <2>1. gone \in Seq(Infos) /\ ToSet(gone) = ToSet(peer_list) \cap (freed' \ freed)
    BY ProjectedMembers DEF Inv, Listed
  <2>2. ToSet(gone) \subseteq Cleaned
    BY <1>1, <2>1
  <2>3. Deleted = [i \in DOMAIN gone |->
                     [id |-> "PEER_CONNECTION_BAN_THIS", param |-> gone[i]]]
    BY DEF Deleted
  <2> HIDE DEF gone
  <2>4. n \in Nat /\ gone \in [1 .. n -> Infos] /\ DOMAIN gone = 1 .. n
    BY <2>1
  <2>5. "PEER_CONNECTION_BAN_THIS" \in Statuses
    BY DEF Statuses, Bans
  <2>6. Deleted \in [1 .. n -> MirrorMessages]
    BY <2>3, <2>4, <2>5 DEF MirrorMessages
  <2>7. Deleted \in Seq(MirrorMessages)
    <3> HIDE DEF n
    <3>1. QED BY <2>4, <2>6, SeqDef
  <2>8. \A j \in DOMAIN Deleted : Deleted[j].param \in ToSet(gone)
    BY <2>3 DEF ToSet
  <2>9. QED BY <2>2, <2>7, <2>8
<1>3. /\ Forwarded \in Seq(MirrorMessages)
      /\ \A j \in DOMAIN Forwarded : Forwarded[j].param \in Cleaned
  <2>1. Assigned = <<>> /\ Processed = <<>>
    BY <1>1 DEF Assigned, Processed
  <2>2. Forwarded = <<>> \o <<>> \o Deleted
    BY <2>1 DEF Forwarded
  <2>3. Forwarded = Deleted
    BY <1>2, <2>2
  <2>4. QED BY <1>2, <2>3
<1>4. Cleaned \subseteq ToSet(peer_list) /\ Cleaned \subseteq DOMAIN info
      /\ \A q \in Cleaned : info[q].status \in PeerNotConnected
  BY DEF Cleaned, Inv, Listed
<1>5. \A q \in DOMAIN info : /\ Shared(q) <=> Shared(q)'
                             /\ Young(q)' => Young(q)
  BY <1>1 DEF Shared, Young, Uses
<1>6. ASSUME NEW q \in DOMAIN info', ~Shared(q)', q \notin freed' \/ Young(q)'
      PROVE  Unmentioned(q)
  <2>1. q \in DOMAIN info /\ ~Shared(q)
    BY <1>1, <1>5, <1>6
  <2>2. q \notin Cleaned
    BY <1>1, <1>4, <1>5, <1>6, <2>1, YoungLives
  <2>3. QED BY <1>1, <1>3, <2>1, <2>2 DEF Unmentioned
<1>7. ASSUME NEW q \in DOMAIN info, ~Shared(q)', Young(q)'
      PROVE  Young(q) /\ ~Mentioned(q)
  <2>1. Young(q) /\ Unmentioned(q)
    BY <1>1, <1>5, <1>6, <1>7
  <2>2. ~Mentioned(q)
    <3> SUFFICES ASSUME Mentioned(q) PROVE FALSE
      OBVIOUS
    <3> DEFINE m == [id |-> info'[q].status, param |-> q]
    <3>1. Forwarded = <<m>> /\ m.param = q
      BY DEF Mentioned
    <3> HIDE DEF m
    <3>2. 1 \in DOMAIN Forwarded /\ Forwarded[1].param = q
      BY <3>1
    <3>3. QED BY <2>1, <3>2 DEF Unmentioned
  <2>3. QED BY <2>1, <2>2
<1>8. QED BY <1>1, <1>3, <1>4, <1>5, <1>6, <1>7 DEF Tells

(* A connection goes on, or ends, with its peer_info.                      *)
LEMMA PhaseTells ==
  ASSUME Inv, NEW c \in DOMAIN connection, NEW next,
         next \in Alive => connection[c].phase \in Alive,
         connection' = [connection EXCEPT ![c].phase = next],
         UNCHANGED <<info, freed, bind, list>>
  PROVE  Tells
<1> DEFINE old == connection[c]
           new == [old EXCEPT !.phase = next]
<1>1. old \in ConnectionType
  BY ElementOfSeq DEF Inv, Carried
<1>2. connection' = [connection EXCEPT ![c] = new]
  OBVIOUS
<1> HIDE DEF old
<1>3. new.info = old.info /\ new.phase = next
  BY <1>1 DEF ConnectionType
<1> HIDE DEF new
<1>4. /\ DOMAIN connection' = DOMAIN connection
      /\ \A d \in DOMAIN connection : connection'[d].info = connection[d].info
      /\ \A d \in DOMAIN connection :
           connection'[d].phase \in Alive => connection[d].phase \in Alive
  BY <1>2, <1>3 DEF old
<1>5. \A q \in DOMAIN info : /\ Shared(q) => Shared(q)'
                             /\ Young(q)' => Young(q)
  BY <1>4 DEF Shared, Young, Uses
<1>6. QED BY <1>5, QuietTells

LEMMA OthersTell ==
  ASSUME Inv,
         CountMessage \/ PurgeConnections \/ Serve \/ ClosePInfo \/ RetryElapses
  PROVE  Tells
<1>1. CASE CountMessage \/ RetryElapses
  <2>1. UNCHANGED <<info, freed, connection, bind>> /\ ~(list.pc = "idle" /\ list'.pc = "counting")
    BY <1>1 DEF CountMessage, RetryElapses, directory, outside
  <2>2. \A q \in DOMAIN info : /\ Shared(q) => Shared(q)'
                               /\ Young(q)' => Young(q)
    BY <2>1 DEF Shared, Young, Uses
  <2>3. QED BY <2>1, <2>2, QuietTells
<1>2. CASE PurgeConnections
  <2>1. /\ info' = [p \in DOMAIN info |-> [info[p] EXCEPT !.old = TRUE]]
        /\ UNCHANGED <<freed, connection, bind, list>>
    BY <1>2 DEF PurgeConnections
  <2>2. ASSUME NEW p \in DOMAIN info
        PROVE  info'[p].status = info[p].status
    <3> DEFINE old == info[p]
               new == [old EXCEPT !.old = TRUE]
    <3>1. old \in InfoType /\ info'[p] = new
      BY <2>1 DEF Inv, Entries
    <3> HIDE DEF old
    <3>2. new.status = old.status
      BY <3>1 DEF InfoType
    <3>3. QED BY <3>1, <3>2 DEF old
  <2>3. \A q \in DOMAIN info : /\ Shared(q) => Shared(q)'
                               /\ Young(q)' => Young(q)
    BY <2>1 DEF Shared, Young, Uses
  <2>4. DOMAIN info' = DOMAIN info
    BY <2>1
  <2>5. QED BY <2>1, <2>2, <2>3, <2>4, QuietTells
<1>3. CASE Serve
  <2>1. PICK c \in DOMAIN connection : \E o \in Served(connection[c].phase) :
          /\ o.phase # connection[c].phase
          /\ connection' = [connection EXCEPT ![c].phase = o.phase]
          /\ UNCHANGED <<directory, bind, list>>
    BY <1>3 DEF Serve
  <2>2. PICK o \in Served(connection[c].phase) :
          /\ o.phase # connection[c].phase
          /\ connection' = [connection EXCEPT ![c].phase = o.phase]
          /\ UNCHANGED <<directory, bind, list>>
    BY <2>1
  <2>3. connection[c].phase \in Phases
    <3>1. connection[c] \in ConnectionType
      BY ElementOfSeq DEF Inv, Carried
    <3>2. QED BY <3>1 DEF ConnectionType
  <2>4. Fits(connection[c].phase, o)
    BY <2>2, <2>3, ServedFits
  <2>5. QED BY <2>2, <2>4, PhaseTells DEF Fits, directory
<1>4. CASE ClosePInfo
  <2>1. /\ UNCHANGED <<info, freed, bind, list>>
        /\ \/ UNCHANGED connection
           \/ \E c \in DOMAIN connection :
                connection' = [connection EXCEPT ![c].phase = Kicked.phase]
    BY <1>4 DEF ClosePInfo, directory
  <2>2. CASE UNCHANGED connection
    <3>1. \A q \in DOMAIN info : /\ Shared(q) => Shared(q)'
                                 /\ Young(q)' => Young(q)
      BY <2>1, <2>2 DEF Shared, Young, Uses
    <3>2. QED BY <2>1, <3>1, QuietTells
  <2>3. CASE \E c \in DOMAIN connection :
               connection' = [connection EXCEPT ![c].phase = Kicked.phase]
    <3>1. Kicked.phase \notin Alive
      BY DEF Kicked, Outcome, Alive
    <3>2. QED BY <2>1, <2>3, <3>1, PhaseTells
  <2>4. QED BY <2>1, <2>2, <2>3
<1>5. QED BY <1>1, <1>2, <1>3, <1>4

LEMMA NextTells == ASSUME Inv, Next PROVE Tells
  BY GetServerTells, StatusTells, CleanTells, OthersTell DEF Next, Execute, Managers

-----------------------------------------------------------------------------
(* What is told comes behind what the admin has not read yet.              *)
Behind(n) ==
  /\ DOMAIN admin_jq = 1 .. n
  /\ \A j \in DOMAIN admin_jq : j \in DOMAIN admin_jq' /\ admin_jq'[j] = admin_jq[j]
  /\ \A i \in DOMAIN Forwarded : /\ i \in Nat \ {0} /\ n + i \in DOMAIN admin_jq'
                                 /\ admin_jq'[n + i] = Forwarded[i]
  /\ \A j \in DOMAIN admin_jq' :
       j \in DOMAIN admin_jq \/ \E i \in DOMAIN Forwarded : j = n + i

LEMMA ToldPlaces ==
  ASSUME AdminTypes, Tells, admin_jq' = admin_jq \o Forwarded
  PROVE  /\ admin_jq' \in Seq(MirrorMessages)
         /\ \E n \in Nat : Behind(n)
<1>1. PICK n : n = Len(admin_jq)
  OBVIOUS
<1>2. PICK told : told = Forwarded
  OBVIOUS
<1>3. PICK k : k = Len(told)
  OBVIOUS
<1>4. /\ admin_jq \in Seq(MirrorMessages) /\ told \in Seq(MirrorMessages)
      /\ n \in Nat /\ k \in Nat /\ DOMAIN admin_jq = 1 .. n /\ DOMAIN told = 1 .. k
  BY <1>1, <1>2, <1>3 DEF Tells, AdminTypes
<1>5. /\ admin_jq' \in Seq(MirrorMessages)
      /\ DOMAIN admin_jq' = 1 .. n + k
      /\ \A i \in 1 .. n : admin_jq'[i] = admin_jq[i]
      /\ \A i \in 1 .. k : admin_jq'[n + i] = told[i]
  BY <1>1, <1>2, <1>3, <1>4
<1>6. ASSUME NEW j \in DOMAIN admin_jq'
      PROVE  j \in DOMAIN admin_jq \/ \E i \in DOMAIN told : j = n + i
  <2>1. CASE j <= n
    BY <1>4, <1>5, <2>1
  <2>2. CASE j > n
    <3>1. PICK i : i = j - n
      OBVIOUS
    <3>2. i \in 1 .. k /\ j = n + i
      BY <1>4, <1>5, <2>2, <3>1
    <3>3. QED BY <1>4, <3>2
  <2>3. QED BY <1>4, <1>5, <2>1, <2>2
<1>7. \A j \in DOMAIN admin_jq : j \in DOMAIN admin_jq' /\ admin_jq'[j] = admin_jq[j]
  BY <1>4, <1>5
<1>8. \A i \in DOMAIN told : i \in Nat \ {0} /\ n + i \in DOMAIN admin_jq'
                             /\ admin_jq'[n + i] = told[i]
  BY <1>4, <1>5
<1>9. Behind(n)
  BY <1>2, <1>4, <1>6, <1>7, <1>8 DEF Behind
<1>10. QED BY <1>4, <1>5, <1>9

LEMMA ToldKeeps ==
  ASSUME AdminInv, Inv', Tells, admin_jq' = admin_jq \o Forwarded,
         banned \subseteq banned', \A q : BanTaken(q) => q \in banned',
         UNCHANGED mirror
  PROVE  AdminInv'
<1>0. /\ AdminTypes /\ Followers /\ Inv
      /\ UNCHANGED <<admin_peers, admin_status>>
  BY DEF AdminInv, mirror
<1>1. PICK n \in Nat :
        /\ DOMAIN admin_jq = 1 .. n
        /\ \A j \in DOMAIN admin_jq : j \in DOMAIN admin_jq' /\ admin_jq'[j] = admin_jq[j]
        /\ \A i \in DOMAIN Forwarded : /\ i \in Nat \ {0} /\ n + i \in DOMAIN admin_jq'
                                       /\ admin_jq'[n + i] = Forwarded[i]
        /\ \A j \in DOMAIN admin_jq' :
             j \in DOMAIN admin_jq \/ \E i \in DOMAIN Forwarded : j = n + i
  BY <1>0, ToldPlaces DEF Behind
<1>2. admin_jq' \in Seq(MirrorMessages)
  BY <1>0, ToldPlaces
<1>8. DOMAIN info \subseteq DOMAIN info' /\ freed \subseteq freed'
  BY DEF Tells
<1>9. AdminTypes'
  <2>1. \A j \in DOMAIN admin_jq' : admin_jq'[j].param \in DOMAIN info'
    BY <1>0, <1>1, <1>8 DEF AdminTypes, Tells
  <2>2. QED BY <1>0, <1>2, <1>8, <2>1 DEF AdminTypes
(* Of a session that is not mentioned, nothing changes.                    *)
<1>10. ASSUME NEW q \in DOMAIN info, Unmentioned(q)
       PROVE  /\ \A j \in DOMAIN admin_jq' : admin_jq'[j].param = q =>
                   j \in DOMAIN admin_jq /\ admin_jq'[j] = admin_jq[j]
              /\ info'[q].status = info[q].status
  BY <1>1, <1>10 DEF Unmentioned
<1>11. ASSUME NEW q \in DOMAIN info', Mentioned(q)
       PROVE  /\ n + 1 \in DOMAIN admin_jq' /\ admin_jq'[n + 1].param = q
              /\ admin_jq'[n + 1].id = info'[q].status
              /\ \A j \in DOMAIN admin_jq' :
                   j = n + 1 \/ (j \in DOMAIN admin_jq /\ admin_jq'[j] = admin_jq[j])
  <2> DEFINE m == [id |-> info'[q].status, param |-> q]
  <2>1. Forwarded = <<m>> /\ m.param = q /\ m.id = info'[q].status
    BY <1>11 DEF Mentioned
  <2> HIDE DEF m
  <2>2. 1 \in DOMAIN Forwarded /\ Forwarded[1] = m /\ \A i \in DOMAIN Forwarded : i = 1
    BY <2>1
  <2>3. n + 1 \in DOMAIN admin_jq' /\ admin_jq'[n + 1] = m
    BY <1>1, <2>2
  <2>4. \A j \in DOMAIN admin_jq' : j = n + 1
                                    \/ (j \in DOMAIN admin_jq /\ admin_jq'[j] = admin_jq[j])
    BY <1>1, <2>2
  <2>5. QED BY <2>1, <2>3, <2>4
<1>12. ASSUME NEW q \in DOMAIN info', q \notin DOMAIN info, Mentioned(q)
       PROVE  /\ \A j \in DOMAIN admin_jq' : admin_jq'[j].param = q => j = n + 1
              /\ q \notin DOMAIN admin_status /\ q \notin ToSet(admin_peers)
              /\ info'[q].status = "CONNECTING_SERVER"
  <2>1. \A j \in DOMAIN admin_jq : admin_jq[j].param # q
    BY <1>0, <1>12 DEF AdminTypes
  <2>2. \A j \in DOMAIN admin_jq' : admin_jq'[j].param = q => j = n + 1
    BY <1>11, <1>12, <2>1
  <2>3. QED BY <1>0, <1>12, <2>2 DEF AdminTypes, Mentioned
<1>13. ASSUME NEW q \in DOMAIN info', q \notin freed', ~Shared(q)'
       PROVE  Mirrored(q)'
  <2>1. Unmentioned(q) \/ Mentioned(q)
    BY <1>13 DEF Tells
  <2>2. q \in DOMAIN info => ~Shared(q) /\ Mirrored(q)
    BY <1>0, <1>8, <1>13 DEF Tells, Followers
  <2>3. CASE Unmentioned(q)
    <3>1. q \in DOMAIN info /\ Mirrored(q)
      BY <2>2, <2>3 DEF Unmentioned
    <3>2. \A j \in DOMAIN admin_jq' : LastOf(q, j)' => j \in DOMAIN admin_jq /\ LastOf(q, j)
      BY <1>1, <1>10, <2>3, <3>1 DEF LastOf
    <3>3. \A j \in DOMAIN admin_jq' : NewsOf(q, j)' => j \in DOMAIN admin_jq /\ NewsOf(q, j)
      BY <1>10, <2>3, <3>1 DEF NewsOf
    <3>4. InFlight(q) => InFlight(q)'
      BY <1>1 DEF InFlight
    <3>5. \A j \in DOMAIN admin_jq' : LastOf(q, j)' => admin_jq'[j].id = info'[q].status
      BY <1>10, <2>3, <3>1, <3>2 DEF Mirrored, LastOf
    <3>6. ~InFlight(q)' /\ q \in ToSet(admin_peers') => admin_status'[q] = info'[q].status
      BY <1>0, <1>10, <2>3, <3>1, <3>4 DEF Mirrored
    <3>7. QED BY <1>0, <3>1, <3>3, <3>5, <3>6 DEF Mirrored
  <2>4. CASE Mentioned(q)
    <3>1. \A j \in DOMAIN admin_jq' : LastOf(q, j)' => j = n + 1
      <4>1. \A j \in DOMAIN admin_jq : n + 1 > j
        BY <1>1
      <4>2. QED BY <1>11, <2>4, <4>1 DEF LastOf
    <3>2. InFlight(q)'
      BY <1>11, <2>4 DEF InFlight
    <3>3. CASE q \notin DOMAIN info
      <4>1. \A j \in DOMAIN admin_jq' : NewsOf(q, j)' => j = n + 1 /\ q \notin DOMAIN admin_status'
        BY <1>0, <1>12, <2>4, <3>3 DEF NewsOf
      <4>2. QED BY <1>11, <2>4, <3>1, <3>2, <4>1 DEF Mirrored
    <3>4. CASE q \in DOMAIN info
      <4>1. info'[q].status # "CONNECTING_SERVER"
        BY <2>4, <3>4 DEF Mentioned
      <4>2. \A j \in DOMAIN admin_jq' : NewsOf(q, j)' => j \in DOMAIN admin_jq /\ NewsOf(q, j)
        BY <1>11, <2>4, <4>1 DEF NewsOf
      <4>3. Mirrored(q)
        BY <2>2, <3>4
      <4>4. QED BY <1>0, <1>11, <2>4, <3>1, <3>2, <4>2, <4>3 DEF Mirrored
    <3>5. QED BY <3>3, <3>4
  <2>5. QED BY <2>1, <2>3, <2>4
<1>14. ASSUME NEW q \in DOMAIN info', Young(q)', ~Shared(q)', q \notin banned'
       PROVE  Visible(q)'
  <2>1. Unmentioned(q) \/ Mentioned(q)
    BY <1>14 DEF Tells
  <2>2. q \in DOMAIN info => ~Shared(q) /\ Visible(q)
                             /\ (Mentioned(q) => info'[q].status = Made)
    BY <1>0, <1>14 DEF Tells, Followers
  <2>3. CASE Unmentioned(q)
    <3>1. q \in DOMAIN info /\ Visible(q)
      BY <2>2, <2>3 DEF Unmentioned
    <3>2. \A j \in DOMAIN admin_jq : NewsOf(q, j) => j \in DOMAIN admin_jq' /\ NewsOf(q, j)'
      BY <1>1 DEF NewsOf
    <3>3. QED BY <1>0, <1>10, <2>3, <3>1, <3>2 DEF Visible
  <2>4. CASE Mentioned(q) /\ q \notin DOMAIN info
    <3>1. NewsOf(q, n + 1)' /\ n + 1 \in DOMAIN admin_jq'
      BY <1>11, <1>12, <2>4 DEF NewsOf
    <3>2. QED BY <1>0, <1>11, <1>12, <2>4, <3>1 DEF Visible
  <2>5. CASE Mentioned(q) /\ q \in DOMAIN info
    <3>1. Visible(q) /\ info'[q].status = Made
      BY <2>2, <2>5
    <3>2. \A j \in DOMAIN admin_jq : NewsOf(q, j) => j \in DOMAIN admin_jq' /\ NewsOf(q, j)'
      BY <1>1 DEF NewsOf
    <3>3. \A j \in DOMAIN admin_jq' :
            admin_jq'[j].param = q => admin_jq'[j].id \in {"CONNECTING_SERVER", Made}
      BY <1>11, <2>5, <3>1 DEF Visible
    <3>4. QED BY <1>0, <3>1, <3>2, <3>3 DEF Visible
  <2>6. QED BY <2>1, <2>3, <2>4, <2>5
<1>15. Followers'
  BY <1>13, <1>14 DEF Followers
<1>16. QED BY <1>9, <1>15 DEF AdminInv

LEMMA RelbKeeps ==
  ASSUME AdminInv, Relb
  PROVE  AdminInv'
<1>1. Next /\ Inv /\ admin_jq' = admin_jq \o Forwarded /\ UNCHANGED mirror
  BY DEF Relb, AdminInv
<1>2. Inv' /\ Tells
  BY <1>1, StepKeeps, NextTells
<1>3. banned' = IF list'.pc = "counting" /\ list'.msg.id \in Bans
                THEN banned \cup {list'.msg.param} ELSE banned
  BY DEF Relb
<1>4. banned \subseteq banned' /\ \A q : BanTaken(q) => q \in banned'
  BY <1>3 DEF BanTaken
<1>5. QED BY <1>1, <1>2, <1>4, ToldKeeps

-----------------------------------------------------------------------------
(* What the admin reads.                                                   *)
LEMMA EntryFound ==
  ASSUME admin_peers \in Seq(Infos), NEW p, p \in ToSet(admin_peers)
  PROVE  EntryOf(p) \in 1 .. Len(admin_peers) /\ admin_peers[EntryOf(p)] = p
<1> DEFINE T == {j \in DOMAIN admin_peers : admin_peers[j] = p}
<1>1. DOMAIN admin_peers = 1 .. Len(admin_peers) /\ Len(admin_peers) \in Nat
  OBVIOUS
<1>2. T # {} /\ T \subseteq Nat
  BY <1>1 DEF ToSet
<1> HIDE DEF T
<1>3. \E x \in T : \A y \in T : x <= y
  BY <1>2, Least
<1>4. Min(T) \in T
  BY <1>3 DEF Min
<1>5. EntryOf(p) = Min(T)
  BY DEF EntryOf, T
<1>6. EntryOf(p) \in T
  BY <1>4, <1>5
<1>7. QED BY <1>1, <1>6 DEF T

LEMMA UnshownMembers ==
  ASSUME admin_peers \in Seq(Infos), NEW p, p \in ToSet(admin_peers)
  PROVE  /\ Unshown(p) \in Seq(Infos)
         /\ ToSet(Unshown(p)) \subseteq ToSet(admin_peers)
         /\ ToSet(admin_peers) \ {p} \subseteq ToSet(Unshown(p))
<1>1. PICK i : i = EntryOf(p)
  OBVIOUS
<1>2. PICK n : n = Len(admin_peers)
  OBVIOUS
<1>3. i \in 1 .. n /\ admin_peers[i] = p /\ n \in Nat
  BY <1>1, <1>2, EntryFound
<1>4. PICK rest : rest = Unshown(p)
  OBVIOUS
<1>5. /\ rest \in Seq(Infos) /\ Len(rest) = n - 1
      /\ \A j \in 1 .. n - 1 : rest[j] = IF j < i THEN admin_peers[j] ELSE admin_peers[j + 1]
  BY <1>1, <1>2, <1>3, <1>4, RemovedPlaces DEF Unshown
<1>6. DOMAIN admin_peers = 1 .. n /\ DOMAIN rest = 1 .. n - 1
  BY <1>2, <1>3, <1>5
<1>7. ToSet(rest) \subseteq ToSet(admin_peers)
  <2> SUFFICES ASSUME NEW j \in 1 .. n - 1 PROVE rest[j] \in ToSet(admin_peers)
    BY <1>6 DEF ToSet
  <2>1. j \in 1 .. n /\ j + 1 \in 1 .. n
    BY <1>3
  <2>2. rest[j] = admin_peers[j] \/ rest[j] = admin_peers[j + 1]
    BY <1>5
  <2>3. QED BY <1>6, <2>1, <2>2 DEF ToSet
<1>8. ASSUME NEW q \in ToSet(admin_peers), q # p
      PROVE  q \in ToSet(rest)
  <2>1. PICK j \in 1 .. n : admin_peers[j] = q
    BY <1>6 DEF ToSet
  <2>2. j # i
    BY <1>3, <1>8, <2>1
  <2>3. CASE j < i
    <3>1. j \in 1 .. n - 1 /\ rest[j] = q
      BY <1>3, <1>5, <2>1, <2>3
    <3>2. QED BY <1>6, <3>1 DEF ToSet
  <2>4. CASE j > i
    <3>1. PICK l : l = j - 1
      OBVIOUS
    <3>2. l \in 1 .. n - 1 /\ ~(l < i) /\ l + 1 = j
      BY <1>3, <2>4, <3>1
    <3>3. rest[l] = q
      BY <1>5, <2>1, <3>2
    <3>4. QED BY <1>6, <3>2, <3>3 DEF ToSet
  <2>5. QED BY <1>3, <2>2, <2>3, <2>4
<1>9. QED BY <1>4, <1>5, <1>7, <1>8

(* News: what has ended of the client goes, the session is shown.          *)
LEMMA NewsShown ==
  ASSUME AdminTypes, NEW p \in DOMAIN info, DOMAIN info \subseteq Infos, ShowConnecting(p)
  PROVE  /\ admin_peers' \in Seq(Infos)
         /\ ToSet(admin_peers') = (ToSet(admin_peers) \ Gone(p)) \cup {p}
         /\ admin_status' \in [DOMAIN admin_status' -> Statuses]
         /\ DOMAIN admin_status' = DOMAIN admin_status \cup {p}
         /\ \A q \in DOMAIN admin_status : admin_status'[q] = admin_status[q]
         /\ p \notin DOMAIN admin_status => admin_status'[p] = "CONNECTING_SERVER"
<1>1. PICK rest : rest = Projection(admin_peers, Infos \ Gone(p))
  OBVIOUS
<1>2. admin_peers \in Seq(Infos) /\ admin_status \in [DOMAIN admin_status -> Statuses]
  BY DEF AdminTypes
<1>3. rest \in Seq(Infos) /\ ToSet(rest) = ToSet(admin_peers) \cap (Infos \ Gone(p))
  BY <1>1, <1>2, ProjectedMembers
<1>4. ToSet(admin_peers) \subseteq Infos
  BY <1>2, ListMembers
<1>5. admin_peers' = Append(rest, p)
  BY <1>1 DEF ShowConnecting
<1>6. admin_peers' \in Seq(Infos) /\ ToSet(admin_peers') = ToSet(rest) \cup {p}
  BY <1>3, <1>5, AppendedMembers
<1>7. admin_status' = IF p \in DOMAIN admin_status THEN admin_status
                      ELSE [q \in DOMAIN admin_status \cup {p} |->
                              IF q = p THEN "CONNECTING_SERVER" ELSE admin_status[q]]
  BY DEF ShowConnecting
<1>8. "CONNECTING_SERVER" \in Statuses
  BY DEF Statuses
<1>9. QED BY <1>2, <1>3, <1>4, <1>6, <1>7, <1>8

(* A status: of what is shown, and it may go with it.                      *)
LEMMA StatusShown ==
  ASSUME AdminTypes, NEW p, p \in ToSet(admin_peers), NEW id \in Statuses, ShowStatus(p, id)
  PROVE  /\ admin_peers' \in Seq(Infos)
         /\ ToSet(admin_peers') \subseteq ToSet(admin_peers)
         /\ ToSet(admin_peers) \ {p} \subseteq ToSet(admin_peers')
         /\ id = Made => admin_peers' = admin_peers
         /\ admin_status' \in [DOMAIN admin_status' -> Statuses]
         /\ DOMAIN admin_status' = DOMAIN admin_status
         /\ \A q \in DOMAIN admin_status : q # p => admin_status'[q] = admin_status[q]
         /\ admin_status'[p] = id
<1>1. /\ admin_status' = [admin_status EXCEPT ![p] = id]
      /\ admin_peers' = IF Superfluous(p, id) THEN Unshown(p) ELSE admin_peers
  BY DEF ShowStatus
<1>2. /\ admin_peers \in Seq(Infos) /\ p \in DOMAIN admin_status
      /\ admin_status \in [DOMAIN admin_status -> Statuses]
  BY DEF AdminTypes
<1>3. /\ Unshown(p) \in Seq(Infos)
      /\ ToSet(Unshown(p)) \subseteq ToSet(admin_peers)
      /\ ToSet(admin_peers) \ {p} \subseteq ToSet(Unshown(p))
  BY <1>2, UnshownMembers
<1>4. id = Made => ~Superfluous(p, id)
  BY DEF Superfluous, Made, PeerNotConnected, PeerDisconnected, Bans
<1>5. /\ admin_peers' \in Seq(Infos)
      /\ ToSet(admin_peers') \subseteq ToSet(admin_peers)
      /\ ToSet(admin_peers) \ {p} \subseteq ToSet(admin_peers')
  <2>1. CASE Superfluous(p, id)
    BY <1>1, <1>3, <2>1
  <2>2. CASE ~Superfluous(p, id)
    BY <1>1, <1>2, <2>2
  <2>3. QED BY <2>1, <2>2
<1>6. QED BY <1>1, <1>2, <1>4, <1>5

(* The admin reads a message: the others move up, the mirror is changed.   *)
Reads(p, id) ==
  /\ 1 \in DOMAIN admin_jq /\ admin_jq[1].param = p /\ admin_jq[1].id = id
  /\ \A j \in DOMAIN admin_jq' :
       j \in Nat \ {0} /\ j + 1 \in DOMAIN admin_jq /\ admin_jq'[j] = admin_jq[j + 1]
  /\ \A j \in DOMAIN admin_jq : j \in Nat \ {0}
  /\ \A j \in DOMAIN admin_jq :
       j # 1 => j - 1 \in DOMAIN admin_jq' /\ admin_jq'[j - 1] = admin_jq[j]
  /\ id = "CONNECTING_SERVER" => ShowConnecting(p)
  /\ id # "CONNECTING_SERVER" => ShowStatus(p, id)

LEMMA ReadPlaces ==
  ASSUME AdminTypes, Show
  PROVE  /\ \E p \in DOMAIN info, id \in Statuses : Reads(p, id)
         /\ admin_jq' \in Seq(MirrorMessages)
<1>1. PICK m : m = Head(admin_jq)
  OBVIOUS
<1>2. PICK p : p = m.param
  OBVIOUS
<1>3. PICK id : id = m.id
  OBVIOUS
<1>4. /\ admin_jq # <<>> /\ admin_jq' = Tail(admin_jq)
      /\ id = "CONNECTING_SERVER" => ShowConnecting(p)
      /\ id # "CONNECTING_SERVER" => ShowStatus(p, id)
  BY <1>1, <1>2, <1>3 DEF Show
<1>5. /\ m \in MirrorMessages /\ m = admin_jq[1]
      /\ admin_jq' \in Seq(MirrorMessages) /\ 1 \in DOMAIN admin_jq
      /\ \A j \in DOMAIN admin_jq' :
           j \in Nat \ {0} /\ j + 1 \in DOMAIN admin_jq /\ admin_jq'[j] = admin_jq[j + 1]
      /\ \A j \in DOMAIN admin_jq : j \in Nat \ {0}
      /\ \A j \in DOMAIN admin_jq :
           j # 1 => j - 1 \in DOMAIN admin_jq' /\ admin_jq'[j - 1] = admin_jq[j]
  <2>1. admin_jq \in Seq(MirrorMessages)
    BY DEF AdminTypes
  <2>2. QED BY <1>1, <1>4, <2>1, FirstTaken
<1>6. /\ p \in DOMAIN info /\ id \in Statuses
      /\ admin_jq[1].param = p /\ admin_jq[1].id = id
  BY <1>2, <1>3, <1>5 DEF MirrorMessages, AdminTypes
<1>7. Reads(p, id)
  BY <1>4, <1>5, <1>6 DEF Reads
<1>8. QED BY <1>5, <1>6, <1>7

(* What the admin knows of a session afterwards.                           *)
LEMMA ReadMirror ==
  ASSUME AdminTypes, DOMAIN info \subseteq Infos,
         NEW p \in DOMAIN info, NEW id \in Statuses, Reads(p, id)
  PROVE  /\ admin_peers' \in Seq(Infos)
         /\ admin_status' \in [DOMAIN admin_status' -> Statuses]
         /\ DOMAIN admin_status \subseteq DOMAIN admin_status'
         /\ DOMAIN admin_status' \subseteq DOMAIN admin_status \cup {p}
         /\ ToSet(admin_peers') \subseteq DOMAIN admin_status'
         /\ ToSet(admin_peers') \subseteq ToSet(admin_peers) \cup {p}
         /\ \A q \in DOMAIN admin_status : q # p => admin_status'[q] = admin_status[q]
         /\ \A q \in ToSet(admin_peers) :
              q # p /\ admin_status[q] \notin PeerNotConnected => q \in ToSet(admin_peers')
         /\ id = "CONNECTING_SERVER" =>
              /\ p \in ToSet(admin_peers')
              /\ p \in DOMAIN admin_status => admin_status'[p] = admin_status[p]
              /\ p \notin DOMAIN admin_status => admin_status'[p] = id
         /\ id # "CONNECTING_SERVER" =>
              /\ DOMAIN admin_status' = DOMAIN admin_status
              /\ p \in ToSet(admin_peers') =>
                   p \in ToSet(admin_peers) /\ admin_status'[p] = id
         /\ id = Made => /\ p \in ToSet(admin_peers) => p \in ToSet(admin_peers')
                         /\ p \in DOMAIN admin_status =>
                              admin_status'[p] \in {Made, admin_status[p]}
<1>1. CASE id = "CONNECTING_SERVER"
  <2>1. ShowConnecting(p)
    BY <1>1 DEF Reads
  <2>2. \A q \in Gone(p) : admin_status[q] \in PeerNotConnected
    BY DEF Gone
  <2>3. id # Made
    BY <1>1 DEF Made
  <2>4. /\ admin_peers' \in Seq(Infos)
        /\ ToSet(admin_peers') = (ToSet(admin_peers) \ Gone(p)) \cup {p}
        /\ admin_status' \in [DOMAIN admin_status' -> Statuses]
        /\ DOMAIN admin_status' = DOMAIN admin_status \cup {p}
        /\ \A q \in DOMAIN admin_status : admin_status'[q] = admin_status[q]
        /\ p \notin DOMAIN admin_status => admin_status'[p] = id
    BY <1>1, <2>1, NewsShown
  <2>5. ToSet(admin_peers) \subseteq DOMAIN admin_status
    BY DEF AdminTypes
  <2>6. QED BY <1>1, <2>2, <2>3, <2>4, <2>5
<1>2. CASE id # "CONNECTING_SERVER" /\ p \in ToSet(admin_peers)
  <2>1. ShowStatus(p, id)
    BY <1>2 DEF Reads
  <2>2. QED BY <1>2, <2>1, StatusShown DEF AdminTypes
<1>3. CASE id # "CONNECTING_SERVER" /\ p \notin ToSet(admin_peers)
  <2>1. UNCHANGED <<admin_peers, admin_status>>
    BY <1>3 DEF Reads, ShowStatus, mirror
  <2>2. QED BY <1>3, <2>1 DEF AdminTypes
<1>4. QED BY <1>1, <1>2, <1>3

(* It is shown, or will be, by what is before the n-th message.            *)
VisibleBefore(q, n) ==
  /\ \A j \in DOMAIN admin_jq :
       j < n /\ admin_jq[j].param = q => admin_jq[j].id \in {News, Made}
  /\ q \in ToSet(admin_peers) \/ \E j \in DOMAIN admin_jq : j < n /\ NewsOf(q, j)
  /\ q \in DOMAIN admin_status => admin_status[q] \notin PeerNotConnected

LEMMA ReadBefore ==
  ASSUME AdminTypes, DOMAIN info \subseteq Infos,
         NEW p \in DOMAIN info, NEW id \in Statuses, Reads(p, id),
         NEW q, NEW n \in Nat, n > 1, VisibleBefore(q, n)
  PROVE  VisibleBefore(q, n - 1)'
<1>1. \A j \in DOMAIN admin_jq' : j < n - 1 /\ admin_jq'[j].param = q =>
        admin_jq'[j].id \in {News, Made}
  BY DEF Reads, VisibleBefore
<1>2. q = p => id \in {News, Made}
  BY DEF Reads, VisibleBefore
<1>3. Made \notin PeerNotConnected /\ News \notin PeerNotConnected
  BY DEF Made, News, PeerNotConnected, PeerDisconnected
<1>4. /\ DOMAIN admin_status' \subseteq DOMAIN admin_status \cup {p}
      /\ \A r \in DOMAIN admin_status : r # p => admin_status'[r] = admin_status[r]
      /\ \A r \in ToSet(admin_peers) :
           r # p /\ admin_status[r] \notin PeerNotConnected => r \in ToSet(admin_peers')
      /\ id = News =>
           /\ p \in ToSet(admin_peers')
           /\ p \in DOMAIN admin_status => admin_status'[p] = admin_status[p]
           /\ p \notin DOMAIN admin_status => admin_status'[p] = id
      /\ id # News => DOMAIN admin_status' = DOMAIN admin_status
      /\ id = Made => /\ p \in ToSet(admin_peers) => p \in ToSet(admin_peers')
                      /\ p \in DOMAIN admin_status =>
                           admin_status'[p] \in {Made, admin_status[p]}
  BY ReadMirror DEF News
<1>5. q \in DOMAIN admin_status' => admin_status'[q] \notin PeerNotConnected
  <2>1. q \in DOMAIN admin_status => admin_status[q] \notin PeerNotConnected
    BY DEF VisibleBefore
  <2>2. QED BY <1>2, <1>3, <1>4, <2>1
<1>6. q \in ToSet(admin_peers') \/ \E j \in DOMAIN admin_jq' : j < n - 1 /\ NewsOf(q, j)'
  <2>1. CASE q \in ToSet(admin_peers)
    <3>1. admin_status[q] \notin PeerNotConnected
      BY <2>1 DEF AdminTypes, VisibleBefore
    <3>2. QED BY <1>2, <1>4, <2>1, <3>1
  <2>2. CASE \E j \in DOMAIN admin_jq : j < n /\ NewsOf(q, j)
    <3>1. PICK j \in DOMAIN admin_jq : j < n /\ NewsOf(q, j)
      BY <2>2
    <3>2. CASE j = 1
      <4>1. q = p /\ id = News
        BY <3>1, <3>2 DEF Reads, NewsOf, News
      <4>2. QED BY <1>4, <4>1
    <3>3. CASE j # 1
      <4>1. PICK l : l = j - 1
        OBVIOUS
      <4>2. l \in DOMAIN admin_jq' /\ admin_jq'[l] = admin_jq[j] /\ j \in Nat
        BY <3>3, <4>1 DEF Reads
      <4>3. l < n - 1 /\ NewsOf(q, l)'
        BY <3>1, <4>1, <4>2 DEF NewsOf
      <4>4. QED BY <4>2, <4>3
    <3>4. QED BY <3>2, <3>3
  <2>3. QED BY <2>1, <2>2 DEF VisibleBefore
<1>7. QED BY <1>1, <1>5, <1>6 DEF VisibleBefore

LEMMA ReadVisible ==
  ASSUME AdminTypes, DOMAIN info \subseteq Infos,
         NEW p \in DOMAIN info, NEW id \in Statuses, Reads(p, id), NEW q, Visible(q)
  PROVE  Visible(q)'
<1>1. PICK n : n = Len(admin_jq) + 1
  OBVIOUS
<1>2. n \in Nat /\ n > 1 /\ \A j \in DOMAIN admin_jq : j < n
  <2>1. admin_jq \in Seq(MirrorMessages) /\ 1 \in DOMAIN admin_jq
    BY DEF AdminTypes, Reads
  <2>2. Len(admin_jq) \in Nat /\ DOMAIN admin_jq = 1 .. Len(admin_jq)
    BY <2>1
  <2>3. QED BY <1>1, <2>1, <2>2
<1>3. VisibleBefore(q, n)
  BY <1>2 DEF Visible, VisibleBefore, News
<1>4. VisibleBefore(q, n - 1)'
  BY <1>2, <1>3, ReadBefore
<1>5. \A j \in DOMAIN admin_jq' : j < n - 1
  BY <1>2 DEF Reads
<1>6. QED BY <1>4, <1>5 DEF Visible, VisibleBefore, News

LEMMA ShowKeeps ==
  ASSUME AdminInv, Show
  PROVE  AdminInv'
<1>0. AdminTypes /\ Followers /\ Inv
  BY DEF AdminInv
<1>1. PICK p \in DOMAIN info, id \in Statuses : Reads(p, id)
  BY <1>0, ReadPlaces
<1>2. UNCHANGED <<vars, banned>>
  BY DEF Show
<1>3. UNCHANGED <<info, freed, connection, bind>>
  BY <1>2 DEF vars, directory, outside
<1>4. /\ admin_jq' \in Seq(MirrorMessages) /\ 1 \in DOMAIN admin_jq
      /\ \A j \in DOMAIN admin_jq' :
           j \in Nat \ {0} /\ j + 1 \in DOMAIN admin_jq /\ admin_jq'[j] = admin_jq[j + 1]
      /\ \A j \in DOMAIN admin_jq : j \in Nat \ {0}
      /\ \A j \in DOMAIN admin_jq :
           j # 1 => j - 1 \in DOMAIN admin_jq' /\ admin_jq'[j - 1] = admin_jq[j]
  BY <1>0, <1>1, ReadPlaces DEF Reads
<1>5. admin_jq[1].param = p /\ admin_jq[1].id = id
  BY <1>1 DEF Reads
<1>6. DOMAIN info \subseteq Infos
  BY <1>0 DEF Inv, Entries
<1>7. Inv' /\ (\A q : Shared(q)' <=> Shared(q)) /\ (\A q : Young(q)' <=> Young(q))
  <2>1. Inv'
    BY <1>0, <1>2, StutterKeeps
  <2>2. QED BY <1>3, <2>1 DEF Shared, Young, Uses
(* What the admin knows of a session afterwards.                           *)
<1>8. /\ admin_peers' \in Seq(Infos)
      /\ admin_status' \in [DOMAIN admin_status' -> Statuses]
      /\ DOMAIN admin_status \subseteq DOMAIN admin_status'
      /\ DOMAIN admin_status' \subseteq DOMAIN admin_status \cup {p}
      /\ ToSet(admin_peers') \subseteq DOMAIN admin_status'
      /\ ToSet(admin_peers') \subseteq ToSet(admin_peers) \cup {p}
      /\ \A q \in DOMAIN admin_status : q # p => admin_status'[q] = admin_status[q]
      /\ \A q \in ToSet(admin_peers) :
           q # p /\ admin_status[q] \notin PeerNotConnected => q \in ToSet(admin_peers')
      /\ id = "CONNECTING_SERVER" =>
           /\ p \in ToSet(admin_peers')
           /\ p \in DOMAIN admin_status => admin_status'[p] = admin_status[p]
           /\ p \notin DOMAIN admin_status => admin_status'[p] = id
      /\ id # "CONNECTING_SERVER" =>
           /\ DOMAIN admin_status' = DOMAIN admin_status
           /\ p \in ToSet(admin_peers') =>
                p \in ToSet(admin_peers) /\ admin_status'[p] = id
      /\ id = Made => /\ p \in ToSet(admin_peers) => p \in ToSet(admin_peers')
                      /\ p \in DOMAIN admin_status =>
                           admin_status'[p] \in {Made, admin_status[p]}
  BY <1>0, <1>1, <1>6, ReadMirror
<1>9. AdminTypes'
  <2>1. \A j \in DOMAIN admin_jq' : admin_jq'[j].param \in DOMAIN info'
    BY <1>0, <1>3, <1>4 DEF AdminTypes
  <2>2. DOMAIN admin_status' \subseteq DOMAIN info'
    BY <1>0, <1>3, <1>5, <1>8 DEF AdminTypes
  <2>3. QED BY <1>4, <1>8, <2>1, <2>2 DEF AdminTypes
(* The places of the messages that are left.                               *)
<1>10. \A q : \A j \in DOMAIN admin_jq' : NewsOf(q, j)' => NewsOf(q, j + 1)
  BY <1>4 DEF NewsOf
<1>11. \A q : \A j \in DOMAIN admin_jq' : LastOf(q, j)' => LastOf(q, j + 1)
  <2> SUFFICES ASSUME NEW q, NEW j \in DOMAIN admin_jq', LastOf(q, j)',
                      NEW k \in DOMAIN admin_jq, k > j + 1
               PROVE  admin_jq[j + 1].param = q /\ admin_jq[k].param # q
    BY <1>4 DEF LastOf
  <2>1. j \in Nat \ {0} /\ k \in Nat \ {0} /\ k # 1
    BY <1>4
  <2>2. k - 1 \in DOMAIN admin_jq' /\ admin_jq'[k - 1] = admin_jq[k] /\ k - 1 > j
    BY <1>4, <2>1
  <2>3. QED BY <1>4, <2>2 DEF LastOf
<1>12. \A q : InFlight(q) /\ ~InFlight(q)' => LastOf(q, 1) /\ q = p
  <2> SUFFICES ASSUME NEW q, InFlight(q), ~InFlight(q)'
               PROVE  LastOf(q, 1) /\ q = p
    OBVIOUS
  <2>1. \A k \in DOMAIN admin_jq : k # 1 => admin_jq[k].param # q
    BY <1>4 DEF InFlight
  <2>2. admin_jq[1].param = q
    BY <2>1 DEF InFlight
  <2>3. \A k \in DOMAIN admin_jq : k > 1 => k # 1
    OBVIOUS
  <2>4. QED BY <1>5, <2>1, <2>2, <2>3 DEF LastOf
<1>13. ASSUME NEW q \in DOMAIN info', q \notin freed', ~Shared(q)'
       PROVE  Mirrored(q)'
  <2>1. Mirrored(q)
    BY <1>0, <1>3, <1>7, <1>13 DEF Followers
  <2>2. \A j \in DOMAIN admin_jq' : LastOf(q, j)' => admin_jq'[j].id = info'[q].status
    BY <1>3, <1>4, <1>11, <2>1 DEF Mirrored
  <2>3. \A j, k \in DOMAIN admin_jq' : NewsOf(q, j)' /\ NewsOf(q, k)' => j = k
    <3> SUFFICES ASSUME NEW j \in DOMAIN admin_jq', NEW k \in DOMAIN admin_jq',
                        NewsOf(q, j)', NewsOf(q, k)'
                 PROVE  j = k
      OBVIOUS
    <3>1. j + 1 = k + 1
      BY <1>4, <1>10, <2>1 DEF Mirrored
    <3>2. QED BY <1>4, <3>1
  <2>4. \A j \in DOMAIN admin_jq' : NewsOf(q, j)' => q \notin DOMAIN admin_status'
    <3> SUFFICES ASSUME NEW j \in DOMAIN admin_jq', NewsOf(q, j)'
                 PROVE  q \notin DOMAIN admin_status'
      OBVIOUS
    <3>1. NewsOf(q, j + 1) /\ j + 1 \in DOMAIN admin_jq /\ j + 1 # 1
      BY <1>4, <1>10
    <3>2. q \notin DOMAIN admin_status
      BY <2>1, <3>1 DEF Mirrored
    <3>3. ~(q = p /\ id = "CONNECTING_SERVER")
      <4> SUFFICES ASSUME q = p, id = "CONNECTING_SERVER" PROVE FALSE
        OBVIOUS
      <4>1. NewsOf(q, 1)
        BY <1>5 DEF NewsOf
      <4>2. QED BY <1>4, <2>1, <3>1, <4>1 DEF Mirrored
    <3>4. QED BY <1>8, <3>2, <3>3
  <2>5. ~InFlight(q)' /\ q \in ToSet(admin_peers') => admin_status'[q] = info'[q].status
    <3> SUFFICES ASSUME ~InFlight(q)', q \in ToSet(admin_peers')
                 PROVE  admin_status'[q] = info'[q].status
      OBVIOUS
    <3>1. CASE q # p
      <4>1. ~InFlight(q) /\ q \in ToSet(admin_peers)
        BY <1>8, <1>12, <3>1
      <4>2. q \in DOMAIN admin_status
        BY <1>0, <4>1 DEF AdminTypes
      <4>3. QED BY <1>3, <1>8, <2>1, <3>1, <4>1, <4>2 DEF Mirrored
    <3>2. CASE q = p
      <4>1. InFlight(q)
        BY <1>4, <1>5, <3>2 DEF InFlight
      <4>2. LastOf(q, 1)
        BY <1>12, <4>1
      <4>3. id = info'[q].status
        BY <1>3, <1>4, <1>5, <2>1, <4>2 DEF Mirrored
      <4>4. id = "CONNECTING_SERVER" => q \notin DOMAIN admin_status
        BY <1>4, <1>5, <2>1, <3>2 DEF Mirrored, NewsOf
      <4>5. QED BY <1>8, <3>2, <4>3, <4>4
    <3>3. QED BY <3>1, <3>2
  <2>6. QED BY <2>2, <2>3, <2>4, <2>5 DEF Mirrored
<1>14. ASSUME NEW q \in DOMAIN info', Young(q)', ~Shared(q)', q \notin banned'
       PROVE  Visible(q)'
  <2>1. Visible(q)
    BY <1>0, <1>2, <1>3, <1>7, <1>14 DEF Followers
  <2>2. QED BY <1>0, <1>1, <1>6, <2>1, ReadVisible
<1>15. Followers'
  BY <1>13, <1>14 DEF Followers
<1>16. QED BY <1>7, <1>9, <1>15 DEF AdminInv

(* A request changes nothing but ServerList's queue.                       *)
LEMMA AskKeeps ==
  ASSUME AdminInv, Request
  PROVE  AdminInv'
<1>1. PICK request \in Requests, p \in ToSet(admin_peers) :
        jq' = Append(jq, [id |-> request, param |-> p])
  BY DEF Request
<1>2. PICK m : m = [id |-> request, param |-> p]
  OBVIOUS
<1>3. UNCHANGED <<directory, counters, connection, to_be_closed, bind, list,
                  admin_jq, mirror, banned>>
  BY DEF Request
<1>4. AdminTypes /\ Followers /\ Inv
  BY DEF AdminInv
<1>5. ToSet(admin_peers) \subseteq Infos
  BY <1>4, ListMembers DEF AdminTypes
<1>6. request \in Asked
  BY AdminAssumption DEF Asked, Bans
<1>7. m \in MessageType /\ m.id \in Asked
  BY <1>1, <1>2, <1>5, <1>6 DEF MessageType
<1>8. Inv'
  BY <1>1, <1>2, <1>3, <1>4, <1>7, RequestKeeps
<1>9. UNCHANGED <<info, freed, connection, bind, admin_jq, admin_peers, admin_status, banned>>
  BY <1>3 DEF directory, mirror
<1>10. AdminTypes' /\ Followers'
  BY <1>4, <1>9 DEF AdminTypes, Followers, Mirrored, Visible, Shared, Young, Uses,
                    InFlight, NewsOf, LastOf
<1>11. QED BY <1>8, <1>10 DEF AdminInv

LEMMA AdminBegins == AdminInit => AdminInv
<1> SUFFICES ASSUME AdminInit PROVE AdminInv
  OBVIOUS
<1>1. /\ Init /\ admin_jq = <<>> /\ admin_peers = <<>> /\ admin_status = <<>>
  BY DEF AdminInit
<1>2. Inv /\ info = <<>>
  BY <1>1, Begins DEF Init
<1>3. DOMAIN info = {} /\ DOMAIN admin_jq = {} /\ ToSet(admin_peers) = {}
      /\ DOMAIN admin_status = {}
  BY <1>1, <1>2 DEF ToSet
<1>4. admin_status = [q \in {} |-> 0]
  BY <1>1
<1>5. AdminTypes
  BY <1>1, <1>3, <1>4 DEF AdminTypes
<1>6. Followers
  BY <1>3 DEF Followers
<1>7. QED BY <1>2, <1>5, <1>6 DEF AdminInv

LEMMA AdminStepKeeps == AdminInv /\ [AdminNext]_<<vars, adminVars>> => AdminInv'
<1> SUFFICES ASSUME AdminInv, [AdminNext]_<<vars, adminVars>> PROVE AdminInv'
  OBVIOUS
<1>1. CASE Relb BY <1>1, RelbKeeps
<1>2. CASE Show BY <1>2, ShowKeeps
<1>3. CASE Request BY <1>3, AskKeeps
<1>4. CASE UNCHANGED <<vars, adminVars>>
  <2>1. AdminTypes /\ Followers /\ Inv
    BY DEF AdminInv
  <2>2. UNCHANGED <<info, freed, connection, bind, admin_jq, admin_peers, admin_status, banned>>
    BY <1>4 DEF vars, adminVars, directory, outside, mirror
  <2>3. Inv'
    BY <1>4, <2>1, StutterKeeps
  <2>4. AdminTypes' /\ Followers'
    BY <2>1, <2>2 DEF AdminTypes, Followers, Mirrored, Visible, Shared, Young, Uses,
                      InFlight, NewsOf, LastOf
  <2>5. QED BY <2>3, <2>4 DEF AdminInv
<1>5. QED BY <1>1, <1>2, <1>3, <1>4 DEF AdminNext

LEMMA AdminInvariant == AdminSpec => []AdminInv
<1>1. QED BY AdminBegins, AdminStepKeeps, PTL DEF AdminSpec

-----------------------------------------------------------------------------
(* What the invariant says of a state, and of a step.                      *)
LEMMA InvIsSound == Inv => EntriesAreSound
<1> SUFFICES ASSUME Inv PROVE EntriesAreSound
  OBVIOUS
<1>1. IsInjective(peer_list) /\ ToSet(peer_list) \subseteq Allocated
  BY DEF Inv, Listed, Allocated
<1>2. ASSUME bind.info # NoInfo, ~Reused(bind.info)
      PROVE  bind.info \in Allocated
  <2>1. bind.pc \in {"add", "connect"} /\ bind.info \in DOMAIN info
    BY <1>2 DEF Inv, Binding, BindRecords
  <2>2. ~Shared(bind.info)
    BY <1>2, ReusedIsShared DEF Inv
  <2>3. bind.info \notin freed
    <3>1. CASE bind.pc = "add"
      BY <3>1 DEF Inv, Binding
    <3>2. CASE bind.pc = "connect"
      <4>1. Living(bind.info)
        BY <2>1, <2>2, <3>2 DEF Inv, Followed, Lives
      <4>2. QED BY <4>1 DEF Living, Inv, Listed
    <3>3. QED BY <2>1, <3>1, <3>2
  <2>4. QED BY <2>1, <2>3 DEF Allocated
<1>3. list.pc = "counting" => list.msg.param \in ToSet(peer_list)
  BY DEF Inv, Counting
<1>4. QED BY <1>1, <1>2, <1>3 DEF EntriesAreSound

LEMMA InvIsAllowed == Inv => EntriesAreAllowed
<1> SUFFICES ASSUME Inv PROVE EntriesAreAllowed
  OBVIOUS
<1>1. ASSUME NEW s \in DOMAIN servers_list
      PROVE  {servers_list[s].connecting, servers_list[s].connected,
              servers_list[s].finished, servers_list[s].disconnected} \subseteq Nat
  <2>1. servers_list[s] \in ServerType(Ips)
    BY ElementOfSeq DEF Inv, ServersKept
  <2>2. QED BY <2>1 DEF ServerType
<1>2. \A p \in DOMAIN info : info[p].status \in Statuses
  BY DEF Inv, Entries, InfoType
<1>3. TypeOK
  <2>1. last_server_assigned \in DOMAIN servers_list
    BY DEF Inv, ServersKept
  <2>2. peer_list \in Seq(Infos) /\ modified \in Seq(Infos)
        /\ DOMAIN info \subseteq Infos /\ freed \subseteq DOMAIN info
    BY DEF Inv, Listed, Dated, Entries
  <2>3. connection \in Seq(ConnectionType) /\ to_be_closed \subseteq Infos
    BY DEF Inv, Carried
  <2>4. bind.pc \in {"idle", "recreate", "select", "add", "connect"}
        /\ list.pc \in {"idle", "counting"}
    BY DEF Inv, Binding, BindRecords, Counting
  <2>5. {bind_read.connecting, list_read} \subseteq Nat
    BY DEF Inv, ServersKept
  <2>6. QED BY <1>1, <1>2, <2>1, <2>2, <2>3, <2>4, <2>5 DEF TypeOK
<1>4. ASSUME NEW i \in DOMAIN peer_list
      PROVE  IsServerAllowed(filter_list, servers_list[info[peer_list[i]].server].ip,
                             info[peer_list[i]].client)
  <2>1. PICK p : p = peer_list[i]
    OBVIOUS
  <2>2. p \in ToSet(peer_list)
    BY <2>1 DEF ToSet
  <2>3. p \in DOMAIN info
    BY <2>2 DEF Inv, Listed
  <2>4. info[p].server \in DOMAIN Servers
        /\ IsServerAllowed(filter_list, Servers[info[p].server].ip, info[p].client)
    BY <2>3 DEF Inv, Entries, InfoType
  <2>5. servers_list[info[p].server].ip = Servers[info[p].server].ip
    BY <2>4 DEF Inv, ServersKept
  <2>6. QED BY <2>1, <2>4, <2>5
<1>5. QED BY <1>3, <1>4 DEF EntriesAreAllowed

LEMMA InvIsListed == Inv => LiveIsListed
<1> SUFFICES ASSUME Inv, NEW c \in DOMAIN connection,
                    connection[c].phase \in {"connecting", "open"},
                    ~Reused(connection[c].info)
             PROVE  connection[c].info \in ToSet(peer_list)
  BY DEF LiveIsListed
<1>1. PICK p : p = connection[c].info
  OBVIOUS
<1>2. p \in DOMAIN info /\ Lives(p) /\ ~Shared(p)
  BY <1>1, ReusedIsShared DEF Inv, Owned, Lives, Uses, Alive
<1>3. QED BY <1>1, <1>2 DEF Inv, Followed, Living

LEMMA InvIsMarked == Inv => EndedIsMarked
<1> SUFFICES ASSUME Inv, NEW c \in DOMAIN connection, connection[c].phase = "over",
                    ~Announced(connection[c].info), ~Reused(connection[c].info),
                    connection[c].info \in ToSet(peer_list)
             PROVE  info[connection[c].info].status \in PeerNotConnected \cup Bans
  BY DEF EndedIsMarked
<1>1. PICK p : p = connection[c].info
  OBVIOUS
<1>2. p \in DOMAIN info /\ Ends(p) /\ ~Shared(p)
  BY <1>1, ReusedIsShared DEF Inv, Owned, Ends, Uses, Alive
<1>3. Passed(p)
  BY <1>2 DEF Inv, Followed
<1>4. QED BY <1>1, <1>3 DEF Passed, Announced

EndedOnly ==
  \A p \in ToSet(peer_list) \ ToSet(peer_list') :
    info[p].status \in PeerNotConnected \/ Reused(p)

LEMMA StepReplacesEnded == Inv /\ [Next]_vars => EndedOnly
<1> SUFFICES ASSUME Inv, [Next]_vars,
                    NEW p \in ToSet(peer_list), p \notin ToSet(peer_list')
             PROVE  info[p].status \in PeerNotConnected \/ Reused(p)
  BY DEF EndedOnly
<1>0. peer_list \in Seq(Infos) /\ p \in Infos /\ p \in DOMAIN info
  BY ListMembers DEF Inv, Listed, Entries
<1>1. CASE Recreate
  <2>1. PICK new : new = Fresh
    OBVIOUS
  <2>2. peer_list' = Append(Kept, new) /\ bind.pc = "recreate"
    BY <1>1, <2>1 DEF Recreate
  <2>3. bind.info = NoInfo /\ Len(connection) < MaxConnections
    BY <2>2 DEF Inv, Binding
  <2>4. new \in Infos
    BY <2>1, <2>3, FreshFound DEF Inv
  <2> DEFINE gone == {peer_list[i] : i \in Replaced}
             kept == Projection(peer_list, ToSet(peer_list) \ gone)
  <2>5. kept \in Seq(Infos) /\ ToSet(kept) = ToSet(peer_list) \cap (ToSet(peer_list) \ gone)
    BY <1>0, ProjectedMembers
  <2>6. Kept = kept
    BY DEF Kept
  <2> HIDE DEF kept
  <2>7. ToSet(peer_list') = ToSet(kept) \cup {new}
    BY <2>2, <2>4, <2>5, <2>6, AppendedMembers
  <2>8. p \in gone
    BY <2>5, <2>7
  <2>9. QED BY <2>8 DEF Replaced
<1>2. CASE Add
  <2>1. PICK new : new = bind.info
    OBVIOUS
  <2>2. peer_list' = Append(peer_list, new) /\ new \in DOMAIN info
    BY <1>2, <2>1 DEF Add, Inv, Binding
  <2>3. new \in Infos
    BY <2>2 DEF Inv, Entries
  <2>4. ToSet(peer_list') = ToSet(peer_list) \cup {new}
    BY <1>0, <2>2, <2>3, AppendedMembers
  <2>5. QED BY <2>4
<1>3. CASE CountMessage
  <2>1. PICK q : q = list.msg.param
    OBVIOUS
  <2>2. /\ list.pc = "counting"
        /\ peer_list' = peer_list \/ (/\ peer_list' = Projection(peer_list, Infos \ {q})
                                      /\ list.msg.id \in PeerNotConnected)
    BY <1>3, <2>1 DEF CountMessage
  <2>3. peer_list' = Projection(peer_list, Infos \ {q}) /\ list.msg.id \in PeerNotConnected
    BY <2>2
  <2>4. ToSet(peer_list') = ToSet(peer_list) \cap (Infos \ {q})
    BY <1>0, <2>3, ProjectedMembers
  <2>5. p = q
    BY <1>0, <2>4
  <2>6. list.msg.id # "PEER_CONNECTION_KICKED"
    BY <2>3 DEF PeerNotConnected, PeerDisconnected
  <2>7. Shared(p) \/ info[p].status = list.msg.id
    BY <2>1, <2>2, <2>5, <2>6 DEF Inv, Counting
  <2>8. QED BY <2>3, <2>7, ReusedIsShared DEF Inv
<1>4. CASE CleanConnections
  <2>1. peer_list' = Projection(peer_list, Infos \ Cleaned)
    BY <1>4 DEF CleanConnections
  <2>2. ToSet(peer_list') = ToSet(peer_list) \cap (Infos \ Cleaned)
    BY <1>0, <2>1, ProjectedMembers
  <2>3. p \in Cleaned
    BY <1>0, <2>2
  <2>4. QED BY <2>3 DEF Cleaned
<1>5. ASSUME peer_list' = peer_list PROVE FALSE
  BY <1>5
<1>6. CASE Search \/ RecreateFails \/ Assign \/ CountConnecting \/ SetServer
           \/ ProcessMessage \/ PurgeConnections \/ Serve \/ ClosePInfo \/ RetryElapses
           \/ UNCHANGED vars
  <2>1. peer_list' = peer_list
    BY <1>6 DEF Search, RecreateFails, Assign, CountConnecting, SetServer, ProcessMessage,
                PurgeConnections, Serve, ClosePInfo, RetryElapses, vars, directory
  <2>2. QED BY <1>5, <2>1
<1>7. QED BY <1>1, <1>2, <1>3, <1>4, <1>6 DEF Next, GetServer, Execute, Managers

RequestsMet ==
  /\ to_be_closed' \ to_be_closed \subseteq ToSet(peer_list)
  /\ list'.pc = "counting" => list'.msg.param \in ToSet(peer_list)

LEMMA StepMeetsListed == Inv /\ Next => RequestsMet
<1> SUFFICES ASSUME Inv, Next PROVE RequestsMet
  OBVIOUS
<1>0. list.pc = "counting" => list.msg.param \in ToSet(peer_list)
  BY DEF Inv, Counting
<1>1. CASE ProcessMessage
  <2>1. /\ list.pc = "idle"
        /\ \/ /\ Head(jq).param \in ToSet(peer_list)
              /\ to_be_closed' \subseteq to_be_closed \cup {Head(jq).param}
              /\ list' = [pc |-> "counting", msg |-> Head(jq)]
           \/ UNCHANGED <<to_be_closed, list>>
    BY <1>1 DEF ProcessMessage, Take, TakeStatus, TakeKick
  <2>2. QED BY <2>1 DEF RequestsMet
<1>2. CASE CountMessage \/ CleanConnections \/ PurgeConnections
  <2>1. /\ to_be_closed' \subseteq to_be_closed \cup ToSet(peer_list)
        /\ list'.pc = "counting" => list' = list
    BY <1>2 DEF CountMessage, CleanConnections, PurgeConnections, outside
  <2>2. QED BY <1>0, <2>1 DEF RequestsMet
<1>3. CASE GetServer \/ SetServer \/ Serve \/ ClosePInfo \/ RetryElapses
  <2>1. to_be_closed' \subseteq to_be_closed /\ list' = list
    BY <1>3 DEF GetServer, Search, Recreate, RecreateFails, Assign, Add, CountConnecting,
                SetServer, Serve, ClosePInfo, RetryElapses, outside
  <2>2. QED BY <1>0, <2>1 DEF RequestsMet
<1>4. QED BY <1>1, <1>2, <1>3 DEF Next, Execute, Managers

LEMMA AdminStepMeets ==
  AdminInv /\ [AdminNext]_<<vars, adminVars>> => [RequestsMet]_<<vars, adminVars>>
<1> SUFFICES ASSUME AdminInv, AdminNext PROVE RequestsMet
  BY DEF RequestsMet
<1>1. CASE Relb
  BY <1>1, StepMeetsListed DEF Relb, AdminInv
<1>2. CASE Show \/ Request
  <2>1. UNCHANGED <<to_be_closed, list>>
    BY <1>2 DEF Show, Request, vars, outside
  <2>2. QED BY <2>1 DEF RequestsMet, AdminInv, Inv, Counting
<1>3. QED BY <1>1, <1>2 DEF AdminNext

LEMMA AdminStepReplaces ==
  AdminInv /\ [AdminNext]_<<vars, adminVars>> => [EndedOnly]_vars
<1> SUFFICES ASSUME AdminInv, AdminNext PROVE EndedOnly \/ UNCHANGED vars
  BY DEF EndedOnly, adminVars
<1>1. CASE Relb
  BY <1>1, StepReplacesEnded DEF Relb, AdminInv
<1>2. CASE Show \/ Request
  <2>1. peer_list' = peer_list
    BY <1>2 DEF Show, Request, vars, directory
  <2>2. QED BY <2>1 DEF EndedOnly
<1>3. QED BY <1>1, <1>2 DEF AdminNext

LEMMA AdminShows == AdminInv => LiveIsShown /\ StatusIsMirrored
<1> SUFFICES ASSUME AdminInv PROVE LiveIsShown /\ StatusIsMirrored
  OBVIOUS
<1>0. Inv /\ AdminTypes /\ Followers
  BY DEF AdminInv
<1>1. ASSUME NEW c \in DOMAIN connection, NEW p, p = connection[c].info,
             connection[c].phase \in {"connecting", "open"}, ~InFlight(p), Plain(p)
      PROVE  p \in ToSet(admin_peers)
  <2>1. p \in DOMAIN info /\ Young(p) /\ ~Shared(p) /\ p \notin banned
    BY <1>0, <1>1, ReusedIsShared DEF Inv, Owned, Young, Uses, Alive, Plain
  <2>2. Visible(p)
    BY <1>0, <2>1 DEF Followers
  <2>3. QED BY <1>1, <2>2 DEF Visible, InFlight, NewsOf
<1>2. ASSUME NEW p \in ToSet(admin_peers) \ freed, ~InFlight(p), ~Reused(p)
      PROVE  admin_status[p] = info[p].status
  <2>1. p \in DOMAIN info \ freed /\ ~Shared(p)
    BY <1>0, <1>2, ReusedIsShared DEF AdminTypes, Inv
  <2>2. Mirrored(p)
    BY <1>0, <2>1 DEF Followers
  <2>3. QED BY <1>2, <2>2 DEF Mirrored
<1>3. QED BY <1>1, <1>2 DEF LiveIsShown, StatusIsMirrored

-----------------------------------------------------------------------------
(***************************************************************************)
(* What the admin shows of a session that ServerList drops (Leaving): the  *)
(* message that will take it off is on its way, and nothing behind that    *)
(* would show it again (Doomed).  A session of the same client (Supersedes)*)
(* takes it off as it does not look connected; its own end (Outshines), as *)
(* there is another that looks connected, by what the admin will have read *)
(* by then; or its deletion (Deletes).                                     *)
(***************************************************************************)
(* That a connection is made is not read after its end.                    *)
InOrder(p) ==
  \A j \in DOMAIN jq : jq[j].param = p /\ jq[j].id = Made =>
    /\ info[p].status \notin PeerNotConnected
    /\ \A i \in DOMAIN jq : i < j /\ jq[i].param = p => jq[i].id \notin PeerNotConnected

Orderly == \A p \in DOMAIN info : ~Shared(p) => InOrder(p)

Once(p) ==
  /\ \A j \in DOMAIN admin_jq : NewsOf(p, j) => p \notin DOMAIN admin_status
  /\ \A j, k \in DOMAIN admin_jq : NewsOf(p, j) /\ NewsOf(p, k) => j = k
  /\ AtMostOnce(admin_peers, p)

SameClient(p, q) == info[p].client = info[q].client

Alone(p) == \A q \in DOMAIN info : SameClient(p, q) => ~Shared(q)

Tame(p) == Alone(p) /\ \A q \in DOMAIN info : SameClient(p, q) => q \notin banned

BeingAdded(p) == bind.pc = "add" /\ bind.info = p

Leaving(p) ==
  \/ p \notin ToSet(peer_list) /\ ~BeingAdded(p)
  \/ /\ list.pc = "counting" /\ list.msg.param = p /\ list.msg.id \in PeerNotConnected
     /\ OtherConnected(p)

NoNewsBehind(p, j) == \A k \in DOMAIN admin_jq : k > j => ~NewsOf(p, k)

Supersedes(p, j) ==
  /\ admin_jq[j].id = News /\ admin_jq[j].param # p /\ SameClient(p, admin_jq[j].param)
  /\ p \notin freed /\ info[p].status \in PeerNotConnected
  /\ \A k \in DOMAIN admin_jq : k > j => admin_jq[k].param # p

Outshines(p, j) ==
  /\ admin_jq[j].param = p /\ admin_jq[j].id \in PeerNotConnected
  /\ \E q \in DOMAIN info : q # p /\ SameClient(p, q) /\ VisibleBefore(q, j)
  /\ NoNewsBehind(p, j)

Deletes(p, j) ==
  /\ admin_jq[j].param = p /\ admin_jq[j].id = "PEER_CONNECTION_BAN_THIS"
  /\ NoNewsBehind(p, j)

Doomed(p) ==
  \/ p \notin ToSet(admin_peers) /\ \A j \in DOMAIN admin_jq : ~NewsOf(p, j)
  \/ \E j \in DOMAIN admin_jq : Supersedes(p, j) \/ Outshines(p, j) \/ Deletes(p, j)

Leavers ==
  /\ Orderly
  /\ \A p \in DOMAIN info : ~Shared(p) => Once(p)
  /\ \A p \in DOMAIN info \ freed :
       ~Shared(p) /\ p \notin banned /\ info[p].status \notin PeerNotConnected => Visible(p)
  /\ \A p \in DOMAIN info : Leaving(p) /\ ~info[p].old /\ Tame(p) => Doomed(p)

-----------------------------------------------------------------------------
(* What a step of RELB says of what leaves.                                *)
NewsIsNew ==
  \A q \in DOMAIN info' : ~Shared(q)' =>
    IF q \in DOMAIN info
    THEN \A j \in DOMAIN Forwarded : Forwarded[j].param = q => Forwarded[j].id # News
    ELSE Forwarded = <<[id |-> News, param |-> q]>>

BrightTold ==
  \A q \in DOMAIN info \ freed' :
    ~Shared(q)' /\ ~BanTaken(q) /\ info'[q].status \notin PeerNotConnected =>
      /\ info[q].status \notin PeerNotConnected
      /\ \A j \in DOMAIN Forwarded : Forwarded[j].param = q => Forwarded[j].id = Made

Remains(p) ==
  /\ Leaving(p) /\ ~info[p].old
  /\ info'[p].status = info[p].status /\ (p \in freed' => p \in freed)
  /\ \A j \in DOMAIN Forwarded : Forwarded[j].param # p

Superseded(p) ==
  /\ p \notin freed' /\ info'[p].status \in PeerNotConnected
  /\ \E q \in DOMAIN info' : /\ q # p /\ info'[q].client = info[p].client
                             /\ Forwarded = <<[id |-> News, param |-> q]>>

Outshone(p) ==
  /\ \E id \in PeerNotConnected : Forwarded = <<[id |-> id, param |-> p]>>
  /\ \E q \in DOMAIN info \ freed : /\ q # p /\ SameClient(p, q)
                                    /\ info[q].status \notin PeerNotConnected

Removed(p) ==
  \E j \in DOMAIN Forwarded :
    Forwarded[j].param = p /\ Forwarded[j].id = "PEER_CONNECTION_BAN_THIS"

LeaversTold ==
  \A p \in DOMAIN info' : Leaving(p)' /\ ~info'[p].old /\ Alone(p)' =>
    p \in DOMAIN info /\ (Remains(p) \/ Superseded(p) \/ Outshone(p) \/ Removed(p))

Departs ==
  /\ \A q \in DOMAIN info : info'[q].client = info[q].client
  /\ NewsIsNew /\ BrightTold /\ LeaversTold

StatusesKept == \A q \in DOMAIN info : ~Shared(q)' => info'[q].status = info[q].status

LEMMA NothingForwarded ==
  ASSUME Inv, freed' = freed, bind'.info \in {bind.info, NoInfo},
         list.pc = "idle" /\ list'.pc = "counting" => list'.msg.id = "PEER_CONNECTION_KICKED"
  PROVE  Forwarded = <<>>
<1>1. Assigned = <<>> /\ Processed = <<>> /\ Deleted = <<>>
  BY NoneDeleted DEF Assigned, Processed
<1>2. QED BY <1>1 DEF Forwarded

LEMMA NewsForwarded ==
  ASSUME Inv, UNCHANGED <<freed, list>>, NEW p, bind'.info = p, p \notin {bind.info, NoInfo}
  PROVE  Forwarded = <<[id |-> News, param |-> p]>>
<1>1. Assigned = <<[id |-> News, param |-> p]>>
  BY DEF Assigned, News
<1>2. Processed = <<>> /\ Deleted = <<>>
  BY NoneDeleted DEF Processed
<1> DEFINE m == [id |-> News, param |-> p]
<1> HIDE DEF m
<1>3. Forwarded = <<m>> \o <<>> \o <<>>
  BY <1>1, <1>2 DEF Forwarded, m
<1>4. Forwarded = <<m>>
  BY <1>3
<1>5. QED BY <1>4 DEF m

LEMMA LeavingSame ==
  ASSUME Inv, peer_list' = peer_list, NEW p \in DOMAIN info,
         \A q \in DOMAIN info : info'[q].client = info[q].client,
         \A q \in DOMAIN info : SameClient(p, q) => info'[q].status = info[q].status,
         BeingAdded(p) => BeingAdded(p)',
         list'.pc = "counting" /\ list'.msg.id \in PeerNotConnected => list' = list,
         Leaving(p)'
  PROVE  Leaving(p)
<1>1. CASE p \notin ToSet(peer_list') /\ ~BeingAdded(p)'
  BY <1>1 DEF Leaving
<1>2. CASE /\ list'.pc = "counting" /\ list'.msg.param = p /\ list'.msg.id \in PeerNotConnected
           /\ OtherConnected(p)'
  <2>1. PICK i \in DOMAIN peer_list : /\ peer_list[i] # p
                                      /\ info'[peer_list[i]].status \notin PeerNotConnected
                                      /\ info'[peer_list[i]].client = info'[p].client
    BY <1>2 DEF OtherConnected
  <2>2. PICK q : q = peer_list[i]
    OBVIOUS
  <2>3. q \in DOMAIN info
    BY <2>2 DEF ToSet, Inv, Listed
  <2>4. info[q].client = info[p].client /\ info[q].status \notin PeerNotConnected
    BY <2>1, <2>2, <2>3 DEF SameClient
  <2>5. OtherConnected(p)
    BY <2>1, <2>2, <2>4 DEF OtherConnected
  <2>6. QED BY <1>2, <2>5 DEF Leaving
<1>3. QED BY <1>1, <1>2 DEF Leaving

(* Nothing is said, and what leaves has left before.                       *)
LEMMA SilentDeparts ==
  ASSUME Inv, Forwarded = <<>>, freed' = freed, DOMAIN info' = DOMAIN info,
         \A q \in DOMAIN info : /\ info'[q].status = info[q].status
                                /\ info'[q].client = info[q].client,
         \A p \in DOMAIN info : Leaving(p)' /\ ~info'[p].old => Leaving(p) /\ ~info[p].old
  PROVE  Departs /\ StatusesKept
<1>1. DOMAIN Forwarded = {}
  OBVIOUS
<1>2. NewsIsNew /\ BrightTold
  BY <1>1 DEF NewsIsNew, BrightTold
<1>3. LeaversTold
  BY <1>1 DEF LeaversTold, Remains
<1>4. QED BY <1>2, <1>3 DEF Departs, StatusesKept

LEMMA QuietDeparts ==
  ASSUME Inv, UNCHANGED <<peer_list, info, freed, list>>, bind'.info \in {bind.info, NoInfo},
         \A p \in DOMAIN info : BeingAdded(p) => BeingAdded(p)'
  PROVE  Departs /\ StatusesKept
<1>1. Forwarded = <<>>
  BY NothingForwarded
<1>2. \A p \in DOMAIN info : Leaving(p)' => Leaving(p)
  BY LeavingSame
<1>3. QED BY <1>1, <1>2, SilentDeparts

LEMMA SearchDeparts ==
  ASSUME Inv, Search
  PROVE  Departs /\ StatusesKept
<1>1. /\ bind.pc = "idle" /\ bind.info = NoInfo
      /\ UNCHANGED <<peer_list, freed, list, connection>>
  BY DEF Search, Inv, Binding, outside
<1>2. PICK client \in Clients : \E port \in {Len(connection) + 1} \cup PortsOf(client) :
        SearchExact(client, port) \/ SearchLatest(client, port)
  BY DEF Search
<1>3. PICK port \in {Len(connection) + 1} \cup PortsOf(client) :
        SearchExact(client, port) \/ SearchLatest(client, port)
  BY <1>2
<1>4. CASE SearchLatest(client, port)
  <2>1. UNCHANGED info /\ bind'.info = NoInfo
    BY <1>4 DEF SearchLatest, Idle
  <2>2. QED BY <1>1, <2>1, QuietDeparts DEF BeingAdded
<1>5. CASE SearchExact(client, port)
  <2>0. PICK p : p = peer_list[Min(Exact(client, port))]
    OBVIOUS
  <2>1. /\ Exact(client, port) # {}
        /\ info' = [info EXCEPT ![p].status = News]
        /\ bind'.info = p
    BY <1>5, <2>0 DEF SearchExact, Idle, News
  <2>2. p \in ToSet(peer_list)
    <3>1. Min(Exact(client, port)) \in Exact(client, port)
      BY <2>1, ExactFound DEF Inv
    <3>2. QED BY <2>0, <3>1 DEF Exact, Sessions, ToSet
  <2>3. p \in DOMAIN info /\ p \in Infos /\ p # NoInfo
    BY <2>2, DirectoryAssumption DEF Inv, Listed, Entries
  <2>4. /\ DOMAIN info' = DOMAIN info
        /\ \A q \in DOMAIN info : q # p => info'[q] = info[q]
        /\ info'[p].client = info[p].client
    <3>1. News \in Statuses /\ Entries
      BY DEF Statuses, Inv, News
    <3>2. /\ DOMAIN info' = DOMAIN info
          /\ \A q \in DOMAIN info : q # p => info'[q] = info[q]
      BY <2>1, <2>3, <3>1, StatusSet
    <3> DEFINE old == info[p]
    <3>3. old \in InfoType
      BY <2>3 DEF Inv, Entries
    <3>4. info'[p] = [old EXCEPT !.status = News]
      BY <2>1, <2>3
    <3> HIDE DEF old
    <3>5. info'[p].client = old.client
      BY <3>3, <3>4 DEF InfoType
    <3>6. QED BY <3>2, <3>5 DEF old
  <2>5. Shared(p)'
    <3>1. \E c \in DOMAIN connection : Uses(c, p)
      BY <1>1, <2>3 DEF Inv, Owned
    <3>2. QED BY <1>1, <2>1, <3>1 DEF Shared, Uses
  <2>6. Forwarded = <<[id |-> News, param |-> p]>>
    BY <1>1, <2>1, <2>3, NewsForwarded
  <2>7. DOMAIN Forwarded = {1} /\ Forwarded[1].param = p
    BY <2>6
  <2>8. \A q \in DOMAIN info : ~Shared(q)' =>
          /\ info'[q] = info[q]
          /\ \A j \in DOMAIN Forwarded : Forwarded[j].param # q
    BY <2>4, <2>5, <2>7
  <2>9. NewsIsNew /\ BrightTold /\ StatusesKept
    BY <2>4, <2>8 DEF NewsIsNew, BrightTold, StatusesKept
  <2>10. ASSUME NEW q \in DOMAIN info, Leaving(q)', ~info'[q].old, Alone(q)'
         PROVE  Remains(q)
    <3>1. ~Shared(q)' /\ \A r \in DOMAIN info : SameClient(q, r) => ~Shared(r)'
      BY <2>4, <2>10 DEF Alone, SameClient
    <3>2. \A r \in DOMAIN info : SameClient(q, r) => info'[r].status = info[r].status
      BY <2>8, <3>1
    <3>3. Leaving(q)
      BY <1>1, <2>4, <2>10, <3>2, LeavingSame DEF BeingAdded
    <3>4. QED BY <1>1, <2>8, <2>10, <3>1, <3>3 DEF Remains
  <2>11. LeaversTold
    BY <2>4, <2>10 DEF LeaversTold
  <2>12. QED BY <2>4, <2>9, <2>11 DEF Departs
<1>6. QED BY <1>3, <1>4, <1>5

(* A session that is made, with what it replaces.                          *)
LEMMA NewDeparts ==
  ASSUME Inv, bind.pc \in {"recreate", "select"},
         NEW new, new = Fresh, NEW port, NEW server,
         info' = With(new, NewInfo(bind.client, port, server)),
         bind'.info = new, bind'.pc = "add" \/ new \in ToSet(peer_list'),
         UNCHANGED <<freed, outside, list>>,
         \A p \in ToSet(peer_list) : p \in ToSet(peer_list') \/
           (info[p].client = bind.client /\ info[p].status \in PeerNotConnected),
         peer_list' = peer_list \/ list.pc = "idle"
  PROVE  Departs /\ StatusesKept
<1>1. bind.info = NoInfo /\ Len(connection) < MaxConnections
  BY DEF Inv, Binding
<1>2. new \in Infos \ DOMAIN info
  BY <1>1, FreshFound DEF Inv
<1>3. new # NoInfo /\ NoInfo \notin Infos /\ DOMAIN info \subseteq Infos
  BY <1>2, DirectoryAssumption DEF Inv, Entries
<1>4. /\ DOMAIN info' = DOMAIN info \cup {new}
      /\ \A q \in DOMAIN info : info'[q] = info[q]
      /\ info'[new].client = bind.client
  BY <1>2 DEF With, NewInfo
<1>5. Forwarded = <<[id |-> News, param |-> new]>>
  BY <1>1, <1>3, NewsForwarded
<1>6. DOMAIN Forwarded = {1} /\ Forwarded[1].param = new
  BY <1>5
<1>7. \A q \in DOMAIN info : \A j \in DOMAIN Forwarded : Forwarded[j].param # q
  BY <1>2, <1>6
<1>8. NewsIsNew /\ BrightTold /\ StatusesKept
  <2>1. \A q \in DOMAIN info' : q \notin DOMAIN info => q = new
    BY <1>4
  <2>2. QED BY <1>4, <1>5, <1>7, <2>1 DEF NewsIsNew, BrightTold, StatusesKept
<1>9. ToSet(peer_list) \subseteq DOMAIN info \ freed
  BY DEF Inv, Listed
<1>10. \A q : ~BeingAdded(q)
  BY DEF BeingAdded
<1>11. ASSUME NEW p \in DOMAIN info', Leaving(p)', ~info'[p].old
       PROVE  p \in DOMAIN info /\ (Remains(p) \/ Superseded(p))
  <2>1. p # new
    <3> SUFFICES ASSUME p = new PROVE FALSE
      OBVIOUS
    <3>1. list.pc = "counting" /\ list.msg.param = new
      BY <1>11 DEF Leaving, BeingAdded
    <3>2. QED BY <1>2, <1>9, <3>1 DEF Inv, Counting
  <2>2. p \in DOMAIN info /\ ~info[p].old
    BY <1>4, <1>11, <2>1
  <2>3. CASE peer_list' = peer_list
    <3>1. Leaving(p)
      BY <1>4, <1>10, <1>11, <2>2, <2>3, LeavingSame
    <3>2. QED BY <1>4, <1>7, <2>2, <3>1 DEF Remains
  <2>4. CASE peer_list' # peer_list
    <3>1. list'.pc = "idle"
      BY <2>4
    <3>2. p \notin ToSet(peer_list')
      BY <1>11, <3>1 DEF Leaving
    <3>3. CASE p \notin ToSet(peer_list)
      <4>1. Leaving(p)
        BY <1>10, <3>3 DEF Leaving
      <4>2. QED BY <1>4, <1>7, <2>2, <4>1 DEF Remains
    <3>4. CASE p \in ToSet(peer_list)
      <4>1. info[p].client = bind.client /\ info[p].status \in PeerNotConnected
        BY <3>2, <3>4
      <4>2. p \notin freed' /\ new \in DOMAIN info'
        BY <1>4, <1>9, <3>4
      <4>3. QED BY <1>4, <1>5, <2>1, <2>2, <4>1, <4>2 DEF Superseded
    <3>5. QED BY <3>3, <3>4
  <2>5. QED BY <2>3, <2>4
<1>12. LeaversTold
  BY <1>11 DEF LeaversTold
<1>13. QED BY <1>4, <1>8, <1>12 DEF Departs

LEMMA GetServerDeparts ==
  ASSUME Inv, Recreate \/ RecreateFails \/ Assign \/ Add \/ SetServer
  PROVE  Departs /\ StatusesKept
<1>0. peer_list \in Seq(Infos) /\ ToSet(peer_list) \subseteq Infos
  BY ListMembers DEF Inv, Listed
<1>1. CASE Recreate
  <2>0. PICK new : new = Fresh
    OBVIOUS
  <2>1. PICK server : server = info[peer_list[bind.index]].server
    OBVIOUS
  <2>2. /\ bind.pc = "recreate" /\ list.pc = "idle"
        /\ info' = With(new, NewInfo(bind.client, bind.port, server))
        /\ peer_list' = Append(Kept, new)
        /\ bind' = [bind EXCEPT !.pc = "connect", !.info = new]
        /\ UNCHANGED <<freed, outside, list>>
    BY <1>1, <2>0, <2>1 DEF Recreate, PeerLockFree
  <2>3. bind'.info = new
    BY <2>2 DEF Inv, Binding, BindRecords
  <2>4. new \in Infos
    <3>1. bind.info = NoInfo /\ Len(connection) < MaxConnections
      BY <2>2 DEF Inv, Binding
    <3>2. QED BY <2>0, <3>1, FreshFound DEF Inv
  <2> DEFINE gone == {peer_list[i] : i \in Replaced}
             kept == Projection(peer_list, ToSet(peer_list) \ gone)
  <2>5. kept \in Seq(Infos) /\ ToSet(kept) = ToSet(peer_list) \cap (ToSet(peer_list) \ gone)
    BY <1>0, ProjectedMembers
  <2>6. Kept = kept
    BY DEF Kept
  <2>7. \A p \in gone : info[p].client = bind.client /\ info[p].status \in PeerNotConnected
    BY DEF Replaced
  <2> HIDE DEF kept, gone
  <2>8. ToSet(peer_list') = ToSet(kept) \cup {new}
    BY <2>2, <2>4, <2>5, <2>6, AppendedMembers
  <2>9. \A p \in ToSet(peer_list) : p \in ToSet(peer_list') \/
          (info[p].client = bind.client /\ info[p].status \in PeerNotConnected)
    BY <2>5, <2>7, <2>8
  <2>10. QED BY <2>0, <2>2, <2>3, <2>8, <2>9, NewDeparts
<1>2. CASE RecreateFails \/ SetServer
  <2>1. UNCHANGED <<peer_list, info, freed, list>> /\ \A p : ~BeingAdded(p)
    BY <1>2 DEF RecreateFails, SetServer, directory, BeingAdded
  <2>2. bind'.info \in {bind.info, NoInfo}
    BY <1>2 DEF RecreateFails, SetServer, Idle, Inv, Binding, BindRecords
  <2>3. QED BY <2>1, <2>2, QuietDeparts
<1>3. CASE Assign
  <2> DEFINE best == Select(servers_list, filter_list, last_server_assigned, bind.client)
  <2>1. PICK server : server = best.next.server
    OBVIOUS
  <2>2. PICK new : new = Fresh
    OBVIOUS
  <2>3. /\ bind.pc = "select"
        /\ UNCHANGED <<peer_list, freed, outside, list>>
        /\ \/ /\ info' = With(new, NewInfo(bind.client, bind.port, server))
              /\ bind' = [bind EXCEPT !.pc = "add", !.info = new]
           \/ bind' = Idle /\ UNCHANGED info
    BY <1>3, <2>1, <2>2 DEF Assign
  <2> HIDE DEF best
  <2>4. CASE /\ info' = With(new, NewInfo(bind.client, bind.port, server))
             /\ bind' = [bind EXCEPT !.pc = "add", !.info = new]
    <3>1. bind'.info = new /\ bind'.pc = "add"
      BY <2>4 DEF Inv, Binding, BindRecords
    <3>2. \A p \in ToSet(peer_list) : p \in ToSet(peer_list')
      BY <2>3
    <3>3. QED BY <2>2, <2>3, <2>4, <3>1, <3>2, NewDeparts
  <2>5. CASE bind' = Idle /\ UNCHANGED info
    <3>1. bind'.info = NoInfo /\ \A p : ~BeingAdded(p)
      BY <2>3, <2>5 DEF Idle, BeingAdded
    <3>2. QED BY <2>3, <2>5, <3>1, QuietDeparts
  <2>6. QED BY <2>3, <2>4, <2>5
<1>4. CASE Add
  <2>1. PICK new : new = bind.info
    OBVIOUS
  <2>2. /\ bind.pc = "add" /\ peer_list' = Append(peer_list, new) /\ new \in DOMAIN info
        /\ list.pc = "idle" /\ UNCHANGED <<info, freed, list>>
        /\ bind' = [bind EXCEPT !.pc = "connect"]
    BY <1>4, <2>1 DEF Add, PeerLockFree, Inv, Binding
  <2>3. bind'.info = bind.info
    BY <2>2 DEF Inv, Binding, BindRecords
  <2>4. new \in Infos
    BY <2>2 DEF Inv, Entries
  <2>5. ToSet(peer_list') = ToSet(peer_list) \cup {new}
    BY <1>0, <2>2, <2>4, AppendedMembers
  <2>6. Forwarded = <<>>
    BY <2>2, <2>3, NothingForwarded
  <2>7. \A p : Leaving(p)' => Leaving(p)
    BY <2>1, <2>2, <2>5 DEF Leaving, BeingAdded
  <2>8. QED BY <2>2, <2>6, <2>7, SilentDeparts
<1>5. QED BY <1>1, <1>2, <1>3, <1>4

LEMMA CountDeparts ==
  ASSUME Inv, CountMessage
  PROVE  Departs /\ StatusesKept
<1>1. PICK p : p = list.msg.param
  OBVIOUS
<1>2. /\ list.pc = "counting" /\ list'.pc = "idle"
      /\ UNCHANGED <<info, freed, bind>>
      /\ peer_list' = IF list.msg.id \in PeerNotConnected /\ Forgotten(p)
                      THEN Projection(peer_list, Infos \ {p}) ELSE peer_list
  BY <1>1 DEF CountMessage
<1>3. Forwarded = <<>>
  BY <1>2, NothingForwarded
<1>4. peer_list \in Seq(Infos) /\ ToSet(peer_list) \subseteq Infos
  BY ListMembers DEF Inv, Listed
<1>5. ASSUME NEW q \in DOMAIN info, Leaving(q)', ~info[q].old
      PROVE  Leaving(q)
  <2>1. q \notin ToSet(peer_list') /\ ~BeingAdded(q)
    BY <1>2, <1>5 DEF Leaving, BeingAdded
  <2>2. CASE list.msg.id \in PeerNotConnected /\ Forgotten(p)
    <3>1. ToSet(peer_list') = ToSet(peer_list) \cap (Infos \ {p})
      BY <1>2, <1>4, <2>2, ProjectedMembers
    <3>2. q \notin ToSet(peer_list) \/ q = p
      BY <1>4, <2>1, <3>1
    <3>3. q = p => OtherConnected(q)
      BY <1>5, <2>2 DEF Forgotten
    <3>4. QED BY <1>1, <1>2, <2>1, <2>2, <3>2, <3>3 DEF Leaving
  <2>3. CASE ~(list.msg.id \in PeerNotConnected /\ Forgotten(p))
    BY <1>2, <2>1, <2>3 DEF Leaving
  <2>4. QED BY <2>2, <2>3
<1>6. QED BY <1>2, <1>3, <1>5, SilentDeparts

LEMMA OthersDepart ==
  ASSUME Inv,
         CountConnecting \/ PurgeConnections \/ Serve \/ ClosePInfo \/ RetryElapses
  PROVE  Departs /\ StatusesKept
<1>1. CASE PurgeConnections
  <2>1. /\ info' = [p \in DOMAIN info |-> [info[p] EXCEPT !.old = TRUE]]
        /\ UNCHANGED <<freed, bind, list>>
    BY <1>1 DEF PurgeConnections
  <2>2. ASSUME NEW p \in DOMAIN info
        PROVE  /\ info'[p].status = info[p].status
               /\ info'[p].client = info[p].client
               /\ info'[p].old
    <3> DEFINE old == info[p]
               new == [old EXCEPT !.old = TRUE]
    <3>1. old \in InfoType /\ info'[p] = new
      BY <2>1 DEF Inv, Entries
    <3> HIDE DEF old
    <3>2. new.status = old.status /\ new.client = old.client /\ new.old
      BY <3>1 DEF InfoType
    <3>3. QED BY <3>1, <3>2 DEF old
  <2>3. Forwarded = <<>>
    BY <2>1, NothingForwarded
  <2>4. DOMAIN info' = DOMAIN info
    BY <2>1
  <2>5. QED BY <2>1, <2>2, <2>3, <2>4, SilentDeparts
<1>2. CASE CountConnecting \/ Serve \/ ClosePInfo \/ RetryElapses
  <2>1. UNCHANGED <<peer_list, info, freed, list, bind>>
    BY <1>2 DEF CountConnecting, Serve, ClosePInfo, RetryElapses, directory
  <2>2. \A p : BeingAdded(p) => BeingAdded(p)'
    BY <2>1 DEF BeingAdded
  <2>3. QED BY <2>1, <2>2, QuietDeparts
<1>3. QED BY <1>1, <1>2

LEMMA StatusDeparts ==
  ASSUME Inv, Orderly, ProcessMessage
  PROVE  Departs
<1>0. PICK msg : msg = Head(jq)
  OBVIOUS
<1>1. PICK p : p = msg.param
  OBVIOUS
<1>2. /\ list.pc = "idle" /\ jq # <<>>
      /\ \/ /\ p \in ToSet(peer_list)
            /\ TakeStatus(msg) \/ TakeKick(msg)
            /\ list' = [pc |-> "counting", msg |-> msg]
         \/ UNCHANGED <<info, list>>
      /\ UNCHANGED <<peer_list, freed, connection, bind>>
  BY <1>0, <1>1 DEF ProcessMessage, Take
<1>3. \A q : (Shared(q) <=> Shared(q)') /\ (BeingAdded(q) <=> BeingAdded(q)')
  BY <1>2 DEF Shared, Uses, BeingAdded
<1>4. CASE UNCHANGED <<info, list>>
  BY <1>2, <1>3, <1>4, QuietDeparts
<1>5. CASE p \in ToSet(peer_list) /\ TakeKick(msg)
           /\ list' = [pc |-> "counting", msg |-> msg]
  <2>1. /\ UNCHANGED info /\ list'.msg.id = "PEER_CONNECTION_KICKED"
        /\ list'.msg.id \notin PeerNotConnected
    BY <1>5 DEF TakeKick, PeerNotConnected, PeerDisconnected
  <2>2. Forwarded = <<>>
    BY <1>2, <2>1, NothingForwarded
  <2>3. \A q \in DOMAIN info : Leaving(q)' => Leaving(q)
    BY <1>2, <1>3, <2>1, LeavingSame
  <2>4. QED BY <1>2, <2>1, <2>2, <2>3, SilentDeparts
<1>6. CASE p \in ToSet(peer_list) /\ TakeStatus(msg)
           /\ list' = [pc |-> "counting", msg |-> msg]
  <2>0. PICK id : id = msg.id
    OBVIOUS
  <2>1. /\ id # "PEER_CONNECTION_KICKED"
        /\ info' = [info EXCEPT ![p].status = id]
    BY <1>1, <1>6, <2>0 DEF TakeStatus
  <2>2. /\ jq \in Seq(MessageType) /\ msg = jq[1] /\ 1 \in DOMAIN jq /\ msg \in MessageType
    BY <1>0, <1>2, FirstTaken DEF Inv, Carried
  <2>3. /\ id \in PeerNotConnected \cup {Made} \cup Bans
        /\ msg = [id |-> id, param |-> p]
    BY <1>1, <2>0, <2>1, <2>2 DEF MessageType, Asked
  <2>4. id \in Statuses /\ id # News
    BY <2>3 DEF Statuses, Made, PeerNotConnected, PeerDisconnected, Bans, News
  <2>5. p \in DOMAIN info
    BY <1>6 DEF Inv, Listed
  <2>6. /\ DOMAIN info' = DOMAIN info /\ info'[p].status = id
        /\ \A q \in DOMAIN info : q # p => info'[q] = info[q]
    BY <2>1, <2>4, <2>5, StatusSet DEF Inv
  <2>7. info'[p].client = info[p].client
    <3> DEFINE old == info[p]
    <3>1. old \in InfoType
      BY <2>5 DEF Inv, Entries
    <3>2. info'[p] = [old EXCEPT !.status = id]
      BY <2>1, <2>5
    <3> HIDE DEF old
    <3>3. info'[p].client = old.client
      BY <3>1, <3>2 DEF InfoType
    <3>4. QED BY <3>3 DEF old
  <2>8. Forwarded = <<[id |-> id, param |-> p]>>
    <3>1. Assigned = <<>> /\ Deleted = <<>>
      BY <1>2, NoneDeleted DEF Assigned
    <3>2. Processed = <<msg>>
      BY <1>2, <1>6, <2>0, <2>1 DEF Processed
    <3>3. Forwarded = <<>> \o <<msg>> \o <<>>
      BY <3>1, <3>2 DEF Forwarded
    <3>4. Forwarded = <<msg>>
      BY <3>3
    <3>5. QED BY <2>3, <3>4
  <2>9. DOMAIN Forwarded = {1} /\ Forwarded[1].param = p /\ Forwarded[1].id = id
    BY <2>8
  <2>10. NewsIsNew
    BY <2>4, <2>6, <2>9 DEF NewsIsNew
  <2>11. BrightTold
    <3> SUFFICES ASSUME NEW q \in DOMAIN info, ~Shared(q)', ~BanTaken(q),
                        info'[q].status \notin PeerNotConnected
                 PROVE  /\ info[q].status \notin PeerNotConnected
                        /\ \A j \in DOMAIN Forwarded :
                             Forwarded[j].param = q => Forwarded[j].id = Made
      BY DEF BrightTold
    <3>1. CASE q # p
      BY <2>6, <2>9, <3>1
    <3>2. CASE q = p
      <4>1. id \notin Bans
        BY <1>1, <1>6, <2>0, <3>2 DEF BanTaken
      <4>2. id = Made
        BY <2>3, <2>6, <3>2, <4>1
      <4>3. InOrder(p)
        BY <1>3, <2>5, <3>2 DEF Orderly
      <4>4. info[p].status \notin PeerNotConnected
        BY <1>1, <2>0, <2>2, <4>2, <4>3 DEF InOrder
      <4>5. QED BY <2>9, <3>2, <4>2, <4>4
    <3>3. QED BY <3>1, <3>2
  <2>12. ASSUME NEW q \in DOMAIN info, Leaving(q)', ~info'[q].old
         PROVE  Remains(q) \/ Outshone(q)
    <3>1. CASE q \notin ToSet(peer_list) /\ ~BeingAdded(q)
      <4>1. q # p /\ Leaving(q)
        BY <1>6, <3>1 DEF Leaving
      <4>2. QED BY <1>2, <2>6, <2>9, <2>12, <4>1 DEF Remains
    <3>2. CASE ~(q \notin ToSet(peer_list) /\ ~BeingAdded(q))
      <4>1. list'.msg.param = q /\ list'.msg.id \in PeerNotConnected /\ OtherConnected(q)'
        BY <1>2, <1>3, <2>12, <3>2 DEF Leaving
      <4>2. q = p /\ id \in PeerNotConnected
        BY <1>1, <1>6, <2>0, <4>1
      <4>3. PICK i \in DOMAIN peer_list : /\ peer_list[i] # p
                                          /\ info'[peer_list[i]].status \notin PeerNotConnected
                                          /\ info'[peer_list[i]].client = info'[p].client
        BY <1>2, <4>1, <4>2 DEF OtherConnected
      <4>4. PICK r : r = peer_list[i]
        OBVIOUS
      <4>5. r \in DOMAIN info \ freed /\ r # p
        BY <4>3, <4>4 DEF ToSet, Inv, Listed
      <4>6. SameClient(p, r) /\ info[r].status \notin PeerNotConnected
        BY <2>6, <2>7, <4>3, <4>4, <4>5 DEF SameClient
      <4>7. QED BY <2>8, <4>2, <4>5, <4>6 DEF Outshone
    <3>3. QED BY <3>1, <3>2
  <2>13. LeaversTold
    BY <2>6, <2>12 DEF LeaversTold
  <2>14. QED BY <2>6, <2>7, <2>10, <2>11, <2>13 DEF Departs
<1>7. QED BY <1>2, <1>4, <1>5, <1>6

LEMMA CleanDeparts ==
  ASSUME Inv, CleanConnections
  PROVE  Departs /\ StatusesKept
<1>1. /\ freed' = freed \cup Cleaned
      /\ list.pc = "idle"
      /\ peer_list' = Projection(peer_list, Infos \ Cleaned)
      /\ UNCHANGED <<info, connection, bind, list>>
  BY DEF CleanConnections, outside
<1>2. /\ peer_list \in Seq(Infos) /\ ToSet(peer_list) \subseteq Infos
      /\ ToSet(peer_list) \cap freed = {}
  BY ListMembers DEF Inv, Listed
<1>3. Cleaned \subseteq ToSet(peer_list) /\ \A q \in Cleaned : info[q].status \in PeerNotConnected
  BY DEF Cleaned
<1>4. /\ Forwarded = Deleted
      /\ \A j \in DOMAIN Deleted : /\ Deleted[j].param \in Cleaned
                                   /\ Deleted[j].id = "PEER_CONNECTION_BAN_THIS"
      /\ \A q \in Cleaned : \E j \in DOMAIN Deleted : Deleted[j].param = q
  <2> DEFINE gone == Projection(peer_list, freed' \ freed)
             n == Len(gone)
             Told(q) == [id |-> "PEER_CONNECTION_BAN_THIS", param |-> q]
  <2>1. gone \in Seq(Infos) /\ ToSet(gone) = ToSet(peer_list) \cap (freed' \ freed)
    BY <1>2, ProjectedMembers
  <2>2. ToSet(gone) = Cleaned
    BY <1>1, <1>2, <1>3, <2>1
  <2>3. Deleted = [i \in DOMAIN gone |-> Told(gone[i])]
    BY DEF Deleted
  <2>4. \A q : Told(q).param = q /\ Told(q).id = "PEER_CONNECTION_BAN_THIS"
    OBVIOUS
  <2> HIDE DEF gone, Told
  <2>5. n \in Nat /\ DOMAIN gone = 1 .. n
    BY <2>1
  <2>6. Deleted = [i \in 1 .. n |-> Deleted[i]]
    BY <2>3, <2>5
  <2>7. Deleted \in Seq({Deleted[i] : i \in 1 .. n})
    <3> DEFINE T == {Deleted[i] : i \in 1 .. n}
    <3>1. Deleted \in [1 .. n -> T]
      BY <2>6
    <3> HIDE DEF T, n
    <3>2. Deleted \in Seq(T)
      BY <2>5, <3>1, SeqDef
    <3>3. QED BY <3>2 DEF T
  <2>8. Forwarded = Deleted
    <3>1. Assigned = <<>> /\ Processed = <<>>
      BY <1>1 DEF Assigned, Processed
    <3>2. Forwarded = <<>> \o <<>> \o Deleted
      BY <3>1 DEF Forwarded
    <3>3. PICK d : d = Deleted
      OBVIOUS
    <3>4. PICK T : d \in Seq(T)
      BY <2>7, <3>3
    <3>5. <<>> \o <<>> \o d = d
      BY <3>4
    <3>6. QED BY <3>2, <3>3, <3>5
  <2>9. \A j \in DOMAIN Deleted : j \in DOMAIN gone /\ Deleted[j] = Told(gone[j])
    BY <2>3
  <2>10. \A j \in DOMAIN gone : j \in DOMAIN Deleted
    BY <2>3
  <2>11. QED BY <2>2, <2>4, <2>8, <2>9, <2>10 DEF ToSet
<1>5. NewsIsNew
  BY <1>1, <1>4 DEF NewsIsNew, News
<1>6. BrightTold
  BY <1>1, <1>3, <1>4 DEF BrightTold
<1>7. ASSUME NEW q \in DOMAIN info, Leaving(q)', ~info[q].old
      PROVE  Remains(q) \/ Removed(q)
  <2>1. q \notin ToSet(peer_list') /\ ~BeingAdded(q)
    BY <1>1, <1>7 DEF Leaving, BeingAdded
  <2>2. ToSet(peer_list') = ToSet(peer_list) \cap (Infos \ Cleaned)
    BY <1>1, <1>2, ProjectedMembers
  <2>3. CASE q \in Cleaned
    BY <1>4, <2>3 DEF Removed
  <2>4. CASE q \notin Cleaned
    <3>1. Leaving(q)
      BY <1>2, <2>1, <2>2, <2>4 DEF Leaving
    <3>2. QED BY <1>1, <1>4, <1>7, <2>4, <3>1 DEF Remains
  <2>5. QED BY <2>3, <2>4
<1>8. LeaversTold
  BY <1>1, <1>7 DEF LeaversTold
<1>9. QED BY <1>1, <1>5, <1>6, <1>8 DEF Departs, StatusesKept

LEMMA NextDeparts == ASSUME Inv, Orderly, Next PROVE Departs
<1>1. QED
  BY SearchDeparts, GetServerDeparts, StatusDeparts, CountDeparts, CleanDeparts, OthersDepart
     DEF Next, GetServer, Execute, Managers

-----------------------------------------------------------------------------
(* The order of the messages to ServerList.                                *)
LEMMA OrderlySame ==
  ASSUME Inv, Orderly, StatusesKept, \A q \in DOMAIN info : Shared(q) => Shared(q)',
         jq' = jq \/ \E m : jq' = Append(jq, m) /\ m \in MessageType /\ m.id # Made
  PROVE  Orderly'
<1>0. jq \in Seq(MessageType)
  BY DEF Inv, Carried
<1>1. PICK n : n = Len(jq)
  OBVIOUS
<1>2. /\ n \in Nat /\ DOMAIN jq = 1 .. n
      /\ \A j \in DOMAIN jq : j \in DOMAIN jq' /\ jq'[j] = jq[j]
      /\ \A j \in DOMAIN jq' : j \in Nat /\ (jq'[j].id = Made => j \in DOMAIN jq)
  <2>1. n \in Nat /\ DOMAIN jq = 1 .. n
    BY <1>0, <1>1
  <2>2. CASE jq' = jq
    BY <2>1, <2>2
  <2>3. CASE \E m : jq' = Append(jq, m) /\ m \in MessageType /\ m.id # Made
    <3>1. PICK m : jq' = Append(jq, m) /\ m \in MessageType /\ m.id # Made
      BY <2>3
    <3>2. /\ DOMAIN jq' = 1 .. n + 1 /\ jq'[n + 1] = m
          /\ \A j \in 1 .. n : jq'[j] = jq[j]
      BY <1>0, <1>1, <3>1
    <3>3. \A j \in 1 .. n + 1 : j \in Nat /\ (j \in 1 .. n \/ j = n + 1)
      BY <2>1
    <3>4. QED BY <2>1, <3>1, <3>2, <3>3
  <2>4. QED BY <2>1, <2>2, <2>3
<1> SUFFICES ASSUME NEW p \in DOMAIN info', ~Shared(p)',
                    NEW j \in DOMAIN jq', jq'[j].param = p, jq'[j].id = Made
             PROVE  /\ info'[p].status \notin PeerNotConnected
                    /\ \A i \in DOMAIN jq' : i < j /\ jq'[i].param = p =>
                         jq'[i].id \notin PeerNotConnected
  BY DEF Orderly, InOrder
<1>3. j \in DOMAIN jq /\ jq[j].param = p /\ jq[j].id = Made
  BY <1>2
<1>4. p \in DOMAIN info
  <2>1. Made \notin Asked
    BY DEF Made, Asked, Bans
  <2>2. QED BY <1>3, <2>1 DEF Inv, Owned, Uses
<1>5. ~Shared(p) /\ InOrder(p) /\ info'[p].status = info[p].status
  BY <1>4 DEF Orderly, StatusesKept
<1>6. \A i \in DOMAIN jq' : i < j => i \in DOMAIN jq
  <2>1. \A i \in DOMAIN jq' : i < j => i \in 1 .. n
    <3>1. j \in 1 .. n
      BY <1>2, <1>3
    <3>2. DOMAIN jq' \subseteq Nat \ {0}
      <4>1. CASE jq' = jq
        BY <1>2, <4>1
      <4>2. CASE \E m : jq' = Append(jq, m) /\ m \in MessageType /\ m.id # Made
        <5>1. PICK m : jq' = Append(jq, m) /\ m \in MessageType
          BY <4>2
        <5>2. DOMAIN jq' = 1 .. n + 1
          BY <1>0, <1>1, <5>1
        <5>3. QED BY <1>2, <5>2
      <4>3. QED BY <4>1, <4>2
    <3>3. QED BY <1>2, <3>1, <3>2
  <2>2. QED BY <1>2, <2>1
<1>7. QED BY <1>2, <1>3, <1>5, <1>6 DEF InOrder

LEMMA PeerStepOrderly ==
  ASSUME Inv, Orderly, NEW c \in DOMAIN connection, NEW o, Fits(connection[c].phase, o),
         jq' = jq \o Messages(connection[c].info, o.posts),
         UNCHANGED <<info, bind>>, \A q : Shared(q)' <=> Shared(q)
  PROVE  Orderly'
<1>1. PICK p : p = connection[c].info
  OBVIOUS
<1>2. PICK m : m = Len(jq)
  OBVIOUS
<1>3. PICK k : k = Len(o.posts)
  OBVIOUS
<1>4. /\ jq \in Seq(MessageType) /\ m \in Nat /\ DOMAIN jq = 1 .. m
      /\ k \in Nat /\ DOMAIN o.posts = 1 .. k
      /\ \A i \in 1 .. k : Masked(o.posts[i]) \in PeerNotConnected \cup {Made}
      /\ p \in DOMAIN info /\ p \in Infos
  BY <1>1, <1>2, <1>3 DEF Inv, Carried, Fits, Owned, Entries
<1>5. PICK posted : posted = Messages(p, o.posts)
  OBVIOUS
<1>6. /\ posted \in Seq(MessageType) /\ Len(posted) = k
      /\ \A i \in 1 .. k : posted[i].param = p /\ posted[i].id = Masked(o.posts[i])
  <2>1. posted = [i \in 1 .. k |-> [id |-> Masked(o.posts[i]), param |-> p]]
    BY <1>4, <1>5 DEF Messages
  <2>2. posted \in [1 .. k -> MessageType]
    BY <1>4, <2>1 DEF MessageType
  <2>3. posted \in Seq(MessageType)
    <3>1. k \in Nat
      BY <1>4
    <3>2. QED BY <2>2, <3>1, SeqDef
  <2>4. Len(posted) = k
    BY <1>4, <2>2, <2>3, LenProperties
  <2>5. QED BY <2>1, <2>3, <2>4
<1>7. /\ DOMAIN jq' = 1 .. m + k
      /\ \A i \in 1 .. m : jq'[i] = jq[i]
      /\ \A i \in 1 .. k : jq'[m + i] = posted[i]
  BY <1>1, <1>2, <1>4, <1>5, <1>6
<1>8. ASSUME NEW i \in DOMAIN jq'
      PROVE  \/ i \in DOMAIN jq /\ jq'[i] = jq[i]
             \/ \E l \in DOMAIN o.posts : /\ i = m + l /\ jq'[i].param = p
                                          /\ jq'[i].id = Masked(o.posts[l])
  <2>1. CASE i <= m
    BY <1>4, <1>7, <2>1
  <2>2. CASE i > m
    <3>1. PICK l : l = i - m
      OBVIOUS
    <3>2. l \in 1 .. k /\ i = m + l
      BY <1>4, <1>7, <2>2, <3>1
    <3>3. jq'[i] = posted[l]
      BY <1>7, <3>2
    <3>4. l \in DOMAIN o.posts
      BY <1>4, <3>2
    <3>5. QED BY <1>6, <1>7, <3>2, <3>3, <3>4
  <2>3. i \in Nat
    BY <1>4, <1>7
  <2>4. QED BY <1>4, <2>1, <2>2, <2>3
<1>9. Made \notin PeerNotConnected
  BY DEF Made, PeerNotConnected, PeerDisconnected
<1>10. SUFFICES ASSUME NEW q \in DOMAIN info, ~Shared(q),
                       NEW j \in DOMAIN jq', jq'[j].param = q, jq'[j].id = Made
                PROVE  /\ info[q].status \notin PeerNotConnected
                       /\ \A i \in DOMAIN jq' : i < j /\ jq'[i].param = q =>
                            jq'[i].id \notin PeerNotConnected
  BY DEF Orderly, InOrder
<1>11. CASE j \in DOMAIN jq
  <2>1. InOrder(q) /\ jq'[j] = jq[j]
    BY <1>4, <1>7, <1>10, <1>11 DEF Orderly
  <2>2. \A i \in DOMAIN jq' : i < j => i \in DOMAIN jq /\ jq'[i] = jq[i]
    BY <1>4, <1>7, <1>11
  <2>3. QED BY <1>10, <1>11, <2>1, <2>2 DEF InOrder
<1>12. CASE j \notin DOMAIN jq
  <2>1. PICK l \in DOMAIN o.posts : q = p /\ Masked(o.posts[l]) = Made
    BY <1>8, <1>10, <1>12
  <2>2. o.phase \in Alive
    BY <1>9, <2>1 DEF Fits
  <2>3. connection[c].phase \in Alive /\ \A i \in DOMAIN o.posts : Masked(o.posts[i]) = Made
    BY <2>2 DEF Fits
  <2>4. Living(p)
    BY <1>1, <1>10, <2>1, <2>3 DEF Inv, Followed, Lives, Uses
  <2>5. \A i \in DOMAIN jq' : jq'[i].param = q => jq'[i].id \notin PeerNotConnected
    BY <1>8, <1>9, <2>1, <2>3, <2>4 DEF Living
  <2>6. QED BY <2>1, <2>4, <2>5 DEF Living
<1>13. QED BY <1>11, <1>12

LEMMA ManagersOrderly ==
  ASSUME Inv, Orderly, Serve \/ ClosePInfo
  PROVE  Orderly'
<1>1. UNCHANGED <<info, bind>>
  BY DEF Serve, ClosePInfo, directory
<1>2. ASSUME NEW c \in DOMAIN connection, NEW o, Fits(connection[c].phase, o),
             connection' = [connection EXCEPT ![c].phase = o.phase],
             jq' = jq \o Messages(connection[c].info, o.posts)
      PROVE  Orderly'
  <2>1. connection[c] \in ConnectionType
    BY ElementOfSeq DEF Inv, Carried
  <2>2. PICK old : old = connection[c]
    OBVIOUS
  <2>3. PICK new : new = [old EXCEPT !.phase = o.phase]
    OBVIOUS
  <2>4. new.info = old.info
    BY <2>1, <2>2, <2>3 DEF ConnectionType
  <2>5. connection' = [connection EXCEPT ![c] = new]
    BY <1>2, <2>2, <2>3
  <2>6. /\ DOMAIN connection' = DOMAIN connection
        /\ \A d \in DOMAIN connection : connection'[d].info = connection[d].info
    BY <2>2, <2>4, <2>5
  <2>7. \A q : Shared(q)' <=> Shared(q)
    BY <1>1, <2>6 DEF Shared, Uses
  <2>8. QED BY <1>1, <1>2, <2>7, PeerStepOrderly
<1>3. CASE Serve
  <2>1. PICK c \in DOMAIN connection : \E o \in Served(connection[c].phase) :
          /\ o.phase # connection[c].phase
          /\ connection' = [connection EXCEPT ![c].phase = o.phase]
          /\ jq' = jq \o Messages(connection[c].info, o.posts)
    BY <1>3 DEF Serve, Post
  <2>2. PICK o \in Served(connection[c].phase) :
          /\ o.phase # connection[c].phase
          /\ connection' = [connection EXCEPT ![c].phase = o.phase]
          /\ jq' = jq \o Messages(connection[c].info, o.posts)
    BY <2>1
  <2>3. connection[c].phase \in Phases
    <3>1. connection[c] \in ConnectionType
      BY ElementOfSeq DEF Inv, Carried
    <3>2. QED BY <3>1 DEF ConnectionType
  <2>4. QED BY <1>2, <2>2, <2>3, ServedFits
<1>4. CASE ClosePInfo
  <2>1. \/ UNCHANGED <<connection, jq>>
        \/ \E c \in DOMAIN connection :
             /\ connection' = [connection EXCEPT ![c].phase = Kicked.phase]
             /\ jq' = jq \o Messages(connection[c].info, Kicked.posts)
    BY <1>4 DEF ClosePInfo, Post
  <2>2. CASE UNCHANGED <<connection, jq>>
    BY <1>1, <2>2 DEF Orderly, InOrder, Shared, Uses
  <2>3. \A f : Fits(f, Kicked)
    <3>1. "over" \in Phases \ Alive /\ "SERVER_DISCONNECTED_OK" \in EndIds
      BY DEF Phases, Alive, EndIds, ServerEnds
    <3>2. QED BY <3>1, EndFits DEF Kicked
  <2>4. QED BY <1>2, <2>1, <2>2, <2>3
<1>5. QED BY <1>3, <1>4

LEMMA TakenOrderly ==
  ASSUME Inv, Orderly, ProcessMessage
  PROVE  Orderly'
<1>1. PICK msg : msg = Head(jq)
  OBVIOUS
<1>2. PICK p : p = msg.param
  OBVIOUS
<1>3. /\ jq # <<>> /\ jq' = Tail(jq)
      /\ \/ UNCHANGED info
         \/ /\ p \in ToSet(peer_list) /\ msg.id # "PEER_CONNECTION_KICKED"
            /\ info' = [info EXCEPT ![p].status = msg.id]
      /\ UNCHANGED <<connection, bind>>
  BY <1>1, <1>2 DEF ProcessMessage, TakeStatus, TakeKick
<1>4. /\ msg \in MessageType /\ msg = jq[1] /\ 1 \in DOMAIN jq
      /\ \A i \in DOMAIN jq' : i \in Nat \ {0} /\ i + 1 \in DOMAIN jq /\ jq'[i] = jq[i + 1]
  <2>1. jq \in Seq(MessageType)
    BY DEF Inv, Carried
  <2>2. QED BY <1>1, <1>3, <2>1, FirstTaken
<1>5. /\ DOMAIN info' = DOMAIN info
      /\ \A q \in DOMAIN info : \/ info'[q].status = info[q].status
                                \/ q = p /\ info'[q].status = msg.id
  <2>1. CASE UNCHANGED info
    BY <2>1
  <2>2. CASE /\ p \in ToSet(peer_list) /\ msg.id # "PEER_CONNECTION_KICKED"
             /\ info' = [info EXCEPT ![p].status = msg.id]
    <3>1. PICK id : id = msg.id
      OBVIOUS
    <3>2. id \in Statuses /\ p \in DOMAIN info
      BY <1>4, <2>2, <3>1 DEF MessageType, Asked, Statuses, Made, PeerNotConnected,
                              PeerDisconnected, Bans, Inv, Listed
    <3>3. QED BY <2>2, <3>1, <3>2, StatusSet DEF Inv
  <2>3. QED BY <1>3, <2>1, <2>2
<1> SUFFICES ASSUME NEW q \in DOMAIN info, ~Shared(q)',
                    NEW j \in DOMAIN jq', jq'[j].param = q, jq'[j].id = Made
             PROVE  /\ info'[q].status \notin PeerNotConnected
                    /\ \A i \in DOMAIN jq' : i < j /\ jq'[i].param = q =>
                         jq'[i].id \notin PeerNotConnected
  BY <1>5 DEF Orderly, InOrder
<1>6. InOrder(q)
  BY <1>3 DEF Orderly, Shared, Uses
<1>7. PICK l : l = j + 1
  OBVIOUS
<1>8. l \in DOMAIN jq /\ jq[l].param = q /\ jq[l].id = Made /\ 1 < l
  BY <1>4, <1>7
<1>9. /\ info[q].status \notin PeerNotConnected
      /\ \A i \in DOMAIN jq : i < l /\ jq[i].param = q => jq[i].id \notin PeerNotConnected
  BY <1>6, <1>8 DEF InOrder
<1>10. info'[q].status \notin PeerNotConnected
  <2>1. q = p => msg.id \notin PeerNotConnected
    BY <1>2, <1>4, <1>8, <1>9
  <2>2. QED BY <1>5, <1>9, <2>1
<1>11. ASSUME NEW i \in DOMAIN jq', i < j, jq'[i].param = q
       PROVE  jq'[i].id \notin PeerNotConnected
  <2>1. PICK k : k = i + 1
    OBVIOUS
  <2>2. k \in DOMAIN jq /\ jq'[i] = jq[k] /\ k < l
    BY <1>4, <1>7, <1>11, <2>1
  <2>3. QED BY <1>9, <1>11, <2>2
<1>12. QED BY <1>10, <1>11

LEMMA NextOrderly ==
  ASSUME Inv, Orderly, Next
  PROVE  Orderly'
<1>1. Tells
  BY NextTells
<1>2. CASE GetServer \/ SetServer \/ RetryElapses \/ CountMessage \/ CleanConnections
           \/ PurgeConnections
  <2>1. jq' = jq
    BY <1>2 DEF GetServer, Search, Recreate, RecreateFails, Assign, Add, CountConnecting,
                SetServer, RetryElapses, CountMessage, CleanConnections, PurgeConnections, outside
  <2>2. StatusesKept
    BY <1>2, SearchDeparts, GetServerDeparts, CountDeparts, CleanDeparts, OthersDepart
       DEF GetServer
  <2>3. QED BY <1>1, <2>1, <2>2, OrderlySame DEF Tells
<1>3. CASE ProcessMessage
  BY <1>3, TakenOrderly
<1>4. CASE Serve \/ ClosePInfo
  BY <1>4, ManagersOrderly
<1>5. QED BY <1>2, <1>3, <1>4 DEF Next, Execute, Managers

(* What is told, and who leaves.                                          *)
LEMMA ToldOnce ==
  ASSUME AdminTypes, Leavers, Tells, NewsIsNew, admin_jq' = admin_jq \o Forwarded,
         UNCHANGED mirror, NEW p \in DOMAIN info', ~Shared(p)'
  PROVE  Once(p)'
<1>1. PICK n \in Nat :
        /\ DOMAIN admin_jq = 1 .. n
        /\ \A j \in DOMAIN admin_jq : j \in DOMAIN admin_jq' /\ admin_jq'[j] = admin_jq[j]
        /\ \A i \in DOMAIN Forwarded : /\ i \in Nat \ {0} /\ n + i \in DOMAIN admin_jq'
                                       /\ admin_jq'[n + i] = Forwarded[i]
        /\ \A j \in DOMAIN admin_jq' :
             j \in DOMAIN admin_jq \/ \E i \in DOMAIN Forwarded : j = n + i
  BY ToldPlaces DEF Behind
<1>2. UNCHANGED <<admin_peers, admin_status>>
  BY DEF mirror
<1>3. CASE p \in DOMAIN info
  <2>1. Once(p)
    BY <1>3 DEF Tells, Leavers
  <2>2. \A j \in DOMAIN admin_jq' : NewsOf(p, j)' => j \in DOMAIN admin_jq /\ NewsOf(p, j)
    BY <1>1, <1>3 DEF NewsIsNew, NewsOf, News
  <2>3. QED BY <1>2, <2>1, <2>2 DEF Once
<1>4. CASE p \notin DOMAIN info
  <2>1. Forwarded = <<[id |-> News, param |-> p]>>
    BY <1>4 DEF NewsIsNew
  <2>2. \A i \in DOMAIN Forwarded : i = 1
    BY <2>1
  <2>3. \A j \in DOMAIN admin_jq' : NewsOf(p, j)' => j = n + 1
    BY <1>1, <1>4, <2>2 DEF NewsOf, AdminTypes
  <2>4. p \notin DOMAIN admin_status' /\ p \notin ToSet(admin_peers')
    BY <1>2, <1>4 DEF AdminTypes
  <2>5. AtMostOnce(admin_peers, p)'
    BY <2>4 DEF AtMostOnce, ToSet
  <2>6. QED BY <2>3, <2>4, <2>5 DEF Once
<1>5. QED BY <1>3, <1>4

LEMMA ToldVisible ==
  ASSUME AdminTypes, Leavers, Tells, Departs, admin_jq' = admin_jq \o Forwarded,
         banned \subseteq banned', \A q : BanTaken(q) => q \in banned', UNCHANGED mirror,
         NEW p \in DOMAIN info' \ freed', ~Shared(p)', p \notin banned',
         info'[p].status \notin PeerNotConnected
  PROVE  Visible(p)'
<1>1. PICK n \in Nat :
        /\ DOMAIN admin_jq = 1 .. n
        /\ \A j \in DOMAIN admin_jq : j \in DOMAIN admin_jq' /\ admin_jq'[j] = admin_jq[j]
        /\ \A i \in DOMAIN Forwarded : /\ i \in Nat \ {0} /\ n + i \in DOMAIN admin_jq'
                                       /\ admin_jq'[n + i] = Forwarded[i]
        /\ \A j \in DOMAIN admin_jq' :
             j \in DOMAIN admin_jq \/ \E i \in DOMAIN Forwarded : j = n + i
  BY ToldPlaces DEF Behind
<1>2. UNCHANGED <<admin_peers, admin_status>>
  BY DEF mirror
<1>3. CASE p \in DOMAIN info
  <2>1. /\ p \in DOMAIN info \ freed /\ ~Shared(p) /\ p \notin banned /\ ~BanTaken(p)
    BY <1>3 DEF Tells
  <2>2. /\ info[p].status \notin PeerNotConnected
        /\ \A j \in DOMAIN Forwarded : Forwarded[j].param = p => Forwarded[j].id = Made
    BY <1>3, <2>1 DEF Departs, BrightTold
  <2>3. Visible(p)
    BY <2>1, <2>2 DEF Leavers
  <2>4. \A j \in DOMAIN admin_jq' :
          admin_jq'[j].param = p => admin_jq'[j].id \in {"CONNECTING_SERVER", Made}
    BY <1>1, <2>2, <2>3 DEF Visible
  <2>5. \A j \in DOMAIN admin_jq : NewsOf(p, j) => j \in DOMAIN admin_jq' /\ NewsOf(p, j)'
    BY <1>1 DEF NewsOf
  <2>6. QED BY <1>2, <2>3, <2>4, <2>5 DEF Visible
<1>4. CASE p \notin DOMAIN info
  <2>1. Forwarded = <<[id |-> News, param |-> p]>>
    BY <1>4 DEF Departs, NewsIsNew
  <2> DEFINE m == [id |-> News, param |-> p]
  <2>2. Forwarded = <<m>> /\ m.id = News /\ m.param = p
    BY <2>1
  <2> HIDE DEF m
  <2>3. 1 \in DOMAIN Forwarded /\ Forwarded[1] = m /\ \A i \in DOMAIN Forwarded : i = 1
    BY <2>2
  <2>4. NewsOf(p, n + 1)' /\ n + 1 \in DOMAIN admin_jq'
    BY <1>1, <2>2, <2>3 DEF NewsOf, News
  <2>5. \A j \in DOMAIN admin_jq' : admin_jq'[j].param = p => admin_jq'[j].id = News
    BY <1>1, <1>4, <2>2, <2>3 DEF AdminTypes
  <2>6. p \notin DOMAIN admin_status'
    BY <1>2, <1>4 DEF AdminTypes
  <2>7. QED BY <2>4, <2>5, <2>6 DEF Visible, News
<1>5. QED BY <1>3, <1>4

(* What is doomed stays so, if nothing is told of it.                      *)
LEMMA ToldDoomed ==
  ASSUME AdminTypes, Tells, Departs, admin_jq' = admin_jq \o Forwarded, UNCHANGED mirror,
         NEW p \in DOMAIN info, Remains(p), Doomed(p)
  PROVE  Doomed(p)'
<1>1. PICK n \in Nat :
        /\ DOMAIN admin_jq = 1 .. n
        /\ \A j \in DOMAIN admin_jq : j \in DOMAIN admin_jq' /\ admin_jq'[j] = admin_jq[j]
        /\ \A i \in DOMAIN Forwarded : /\ i \in Nat \ {0} /\ n + i \in DOMAIN admin_jq'
                                       /\ admin_jq'[n + i] = Forwarded[i]
        /\ \A j \in DOMAIN admin_jq' :
             j \in DOMAIN admin_jq \/ \E i \in DOMAIN Forwarded : j = n + i
  BY ToldPlaces DEF Behind
<1>2. UNCHANGED <<admin_peers, admin_status>>
  BY DEF mirror
<1>3. \A j \in DOMAIN admin_jq' :
        admin_jq'[j].param = p => j \in DOMAIN admin_jq /\ admin_jq[j].param = p
  BY <1>1 DEF Remains
<1>4. \A j \in DOMAIN admin_jq' : NewsOf(p, j)' => j \in DOMAIN admin_jq /\ NewsOf(p, j)
  BY <1>1, <1>3 DEF NewsOf
<1>5. /\ DOMAIN info \subseteq DOMAIN info'
      /\ \A q \in DOMAIN info : SameClient(p, q) => SameClient(p, q)'
  BY DEF Tells, Departs, SameClient
<1>6. CASE p \notin ToSet(admin_peers) /\ \A j \in DOMAIN admin_jq : ~NewsOf(p, j)
  BY <1>2, <1>4, <1>6 DEF Doomed
<1>7. ASSUME NEW j \in DOMAIN admin_jq, Supersedes(p, j) \/ Outshines(p, j) \/ Deletes(p, j)
      PROVE  Supersedes(p, j)' \/ Outshines(p, j)' \/ Deletes(p, j)'
  <2>1. j \in DOMAIN admin_jq' /\ admin_jq'[j] = admin_jq[j] /\ admin_jq[j].param \in DOMAIN info
    BY <1>1 DEF AdminTypes
  <2>2. NoNewsBehind(p, j) => NoNewsBehind(p, j)'
    BY <1>4 DEF NoNewsBehind
  <2>3. CASE Supersedes(p, j)
    <3>1. p \notin freed' /\ info'[p].status = info[p].status
      BY <2>3 DEF Remains, Supersedes
    <3>2. \A k \in DOMAIN admin_jq' : k > j => admin_jq'[k].param # p
      BY <1>3, <2>3 DEF Supersedes
    <3>3. SameClient(p, admin_jq[j].param)'
      <4>1. PICK q : q = admin_jq[j].param
        OBVIOUS
      <4>2. q \in DOMAIN info /\ SameClient(p, q) /\ admin_jq'[j].param = q
        BY <2>1, <2>3, <4>1 DEF Supersedes
      <4>3. SameClient(p, q)'
        BY <1>5, <4>2
      <4>4. QED BY <4>2, <4>3 DEF SameClient
    <3>4. QED BY <2>1, <2>3, <3>1, <3>2, <3>3 DEF Supersedes
  <2>4. CASE Outshines(p, j)
    <3>1. PICK q \in DOMAIN info : q # p /\ SameClient(p, q) /\ VisibleBefore(q, j)
      BY <2>4 DEF Outshines
    <3>2. \A i \in DOMAIN admin_jq' : i < j => i \in DOMAIN admin_jq /\ admin_jq'[i] = admin_jq[i]
      BY <1>1
    <3>3. \A i \in DOMAIN admin_jq : NewsOf(q, i) => i \in DOMAIN admin_jq' /\ NewsOf(q, i)'
      BY <1>1 DEF NewsOf
    <3>4. VisibleBefore(q, j)'
      BY <1>2, <3>1, <3>2, <3>3 DEF VisibleBefore
    <3>5. QED BY <1>5, <2>1, <2>2, <2>4, <3>1, <3>4 DEF Outshines
  <2>5. CASE Deletes(p, j)
    BY <2>1, <2>2, <2>5 DEF Deletes
  <2>6. QED BY <1>7, <2>3, <2>4, <2>5
<1>8. CASE \E j \in DOMAIN admin_jq : Supersedes(p, j) \/ Outshines(p, j) \/ Deletes(p, j)
  <2>1. PICK j \in DOMAIN admin_jq : Supersedes(p, j) \/ Outshines(p, j) \/ Deletes(p, j)
    BY <1>8
  <2>2. j \in DOMAIN admin_jq'
    BY <1>1
  <2>3. QED BY <1>7, <2>1, <2>2 DEF Doomed
<1>9. QED BY <1>6, <1>8 DEF Doomed

(* What leaves by what is told is doomed by it.                            *)
LEMMA ToldDooms ==
  ASSUME AdminTypes, Leavers, Tells, Departs, admin_jq' = admin_jq \o Forwarded,
         banned \subseteq banned', UNCHANGED mirror, NEW p \in DOMAIN info, Tame(p)',
         Superseded(p) \/ Outshone(p) \/ Removed(p)
  PROVE  Doomed(p)'
<1>1. PICK n \in Nat :
        /\ DOMAIN admin_jq = 1 .. n
        /\ \A j \in DOMAIN admin_jq : j \in DOMAIN admin_jq' /\ admin_jq'[j] = admin_jq[j]
        /\ \A i \in DOMAIN Forwarded : /\ i \in Nat \ {0} /\ n + i \in DOMAIN admin_jq'
                                       /\ admin_jq'[n + i] = Forwarded[i]
        /\ \A j \in DOMAIN admin_jq' :
             j \in DOMAIN admin_jq \/ \E i \in DOMAIN Forwarded : j = n + i
  BY ToldPlaces DEF Behind
<1>2. /\ UNCHANGED <<admin_peers, admin_status>>
      /\ DOMAIN info \subseteq DOMAIN info'
      /\ \A q \in DOMAIN info : info'[q].client = info[q].client
  BY DEF mirror, Tells, Departs
<1>3. ASSUME NEW m, Forwarded = <<m>>
      PROVE  /\ n + 1 \in DOMAIN admin_jq' /\ admin_jq'[n + 1] = m
             /\ \A k \in DOMAIN admin_jq' : k > n + 1 => FALSE
             /\ \A k \in DOMAIN admin_jq' : k < n + 1 => k \in DOMAIN admin_jq
  <2>1. 1 \in DOMAIN Forwarded /\ Forwarded[1] = m /\ \A i \in DOMAIN Forwarded : i = 1
    BY <1>3
  <2>2. \A k \in DOMAIN admin_jq' : k \in 1 .. n \/ k = n + 1
    BY <1>1, <2>1
  <2>3. QED BY <1>1, <2>1, <2>2
<1>4. CASE Superseded(p)
  <2>1. PICK q \in DOMAIN info' : /\ q # p /\ info'[q].client = info[p].client
                                  /\ Forwarded = <<[id |-> News, param |-> q]>>
    BY <1>4 DEF Superseded
  <2>2. PICK m : m = [id |-> News, param |-> q]
    OBVIOUS
  <2>3. /\ n + 1 \in DOMAIN admin_jq' /\ admin_jq'[n + 1].id = News /\ admin_jq'[n + 1].param = q
        /\ \A k \in DOMAIN admin_jq' : k > n + 1 => FALSE
    BY <1>3, <2>1, <2>2
  <2>4. Supersedes(p, n + 1)'
    BY <1>2, <1>4, <2>1, <2>3 DEF Supersedes, Superseded, SameClient
  <2>5. QED BY <2>3, <2>4 DEF Doomed
<1>5. CASE Outshone(p)
  <2>1. PICK id \in PeerNotConnected : Forwarded = <<[id |-> id, param |-> p]>>
    BY <1>5 DEF Outshone
  <2>2. PICK q \in DOMAIN info \ freed : /\ q # p /\ SameClient(p, q)
                                         /\ info[q].status \notin PeerNotConnected
    BY <1>5 DEF Outshone
  <2>3. PICK m : m = [id |-> id, param |-> p]
    OBVIOUS
  <2>4. /\ n + 1 \in DOMAIN admin_jq' /\ admin_jq'[n + 1].id = id /\ admin_jq'[n + 1].param = p
        /\ \A k \in DOMAIN admin_jq' : k > n + 1 => FALSE
        /\ \A k \in DOMAIN admin_jq' : k < n + 1 => k \in DOMAIN admin_jq
    BY <1>3, <2>1, <2>3
  <2>5. SameClient(p, q)' /\ q \in DOMAIN info'
    BY <1>2, <2>2 DEF SameClient
  <2>6. ~Shared(q) /\ q \notin banned
    BY <1>2, <2>2, <2>5 DEF Tame, Alone, Tells
  <2>7. Visible(q)
    BY <2>2, <2>6 DEF Leavers
  <2>8. \A j \in DOMAIN admin_jq : j < n + 1
    BY <1>1
  <2>9. VisibleBefore(q, n + 1)'
    <3>1. \A j \in DOMAIN admin_jq : NewsOf(q, j) =>
            j \in DOMAIN admin_jq' /\ j < n + 1 /\ NewsOf(q, j)'
      BY <1>1, <2>8 DEF NewsOf
    <3>2. \A j \in DOMAIN admin_jq' : j < n + 1 /\ admin_jq'[j].param = q =>
            admin_jq'[j].id \in {News, Made}
      BY <1>1, <2>4, <2>7 DEF Visible, News
    <3>3. QED BY <1>2, <2>7, <3>1, <3>2 DEF Visible, VisibleBefore
  <2>10. NoNewsBehind(p, n + 1)'
    BY <2>4 DEF NoNewsBehind
  <2>11. Outshines(p, n + 1)'
    BY <2>2, <2>4, <2>5, <2>9, <2>10 DEF Outshines
  <2>12. QED BY <2>4, <2>11 DEF Doomed
<1>6. CASE Removed(p)
  <2>1. PICK j \in DOMAIN Forwarded :
          Forwarded[j].param = p /\ Forwarded[j].id = "PEER_CONNECTION_BAN_THIS"
    BY <1>6 DEF Removed
  <2>2. /\ n + j \in DOMAIN admin_jq' /\ j \in Nat \ {0} /\ admin_jq'[n + j].param = p
        /\ admin_jq'[n + j].id = "PEER_CONNECTION_BAN_THIS"
    BY <1>1, <2>1
  <2>3. ~Shared(p)'
    BY <1>2 DEF Tame, Alone, SameClient
  <2>4. \A k \in DOMAIN admin_jq' : k > n + j => ~NewsOf(p, k)'
    <3> SUFFICES ASSUME NEW k \in DOMAIN admin_jq', k > n + j PROVE ~NewsOf(p, k)'
      OBVIOUS
    <3>1. k \notin DOMAIN admin_jq
      BY <1>1, <2>2
    <3>2. PICK i \in DOMAIN Forwarded : k = n + i
      BY <1>1, <3>1
    <3>3. admin_jq'[k] = Forwarded[i]
      BY <1>1, <3>2
    <3>4. QED BY <1>2, <2>3, <3>3 DEF Departs, NewsIsNew, NewsOf, News
  <2>5. Deletes(p, n + j)'
    BY <2>2, <2>4 DEF Deletes, NoNewsBehind
  <2>6. QED BY <2>2, <2>5 DEF Doomed
<1>7. QED BY <1>4, <1>5, <1>6

LEMMA ToldLeaves ==
  ASSUME AdminTypes, Leavers, Orderly', Tells, Departs, admin_jq' = admin_jq \o Forwarded,
         banned \subseteq banned', \A q : BanTaken(q) => q \in banned', UNCHANGED mirror
  PROVE  Leavers'
<1>1. \A p \in DOMAIN info' : ~Shared(p)' => Once(p)'
  BY ToldOnce DEF Departs
<1>2. \A p \in DOMAIN info' \ freed' :
        ~Shared(p)' /\ p \notin banned' /\ info'[p].status \notin PeerNotConnected => Visible(p)'
  BY ToldVisible
<1>3. ASSUME NEW p \in DOMAIN info', Leaving(p)', ~info'[p].old, Tame(p)'
      PROVE  Doomed(p)'
  <2>1. p \in DOMAIN info /\ (Remains(p) \/ Superseded(p) \/ Outshone(p) \/ Removed(p))
    BY <1>3 DEF Tame, Departs, LeaversTold
  <2>2. CASE Remains(p)
    <3>1. \A q \in DOMAIN info : SameClient(p, q) => q \in DOMAIN info' /\ SameClient(p, q)'
      BY <2>1 DEF SameClient, Departs, Tells
    <3>2. Tame(p)
      BY <1>3, <3>1 DEF Tame, Alone, Tells
    <3>3. Doomed(p)
      BY <2>1, <2>2, <3>2 DEF Leavers, Remains
    <3>4. QED BY <2>1, <2>2, <3>3, ToldDoomed
  <2>3. QED BY <1>3, <2>1, <2>2, ToldDooms
<1>4. QED BY <1>1, <1>2, <1>3 DEF Leavers
LEMMA ReadOnce ==
  ASSUME AdminTypes, DOMAIN info \subseteq Infos,
         NEW p \in DOMAIN info, NEW id \in Statuses, Reads(p, id), NEW q, Once(q)
  PROVE  Once(q)'
<1>1. \A j \in DOMAIN admin_jq' :
        NewsOf(q, j)' => j + 1 \in DOMAIN admin_jq /\ j \in Nat \ {0} /\ NewsOf(q, j + 1)
  BY DEF Reads, NewsOf
<1>2. \A j, k \in DOMAIN admin_jq' : NewsOf(q, j)' /\ NewsOf(q, k)' => j = k
  <2> SUFFICES ASSUME NEW j \in DOMAIN admin_jq', NEW k \in DOMAIN admin_jq',
                      NewsOf(q, j)', NewsOf(q, k)'
               PROVE  j = k
    OBVIOUS
  <2>1. j + 1 = k + 1
    BY <1>1 DEF Once
  <2>2. QED BY <1>1, <2>1
<1>3. q = p /\ id = News => NewsOf(q, 1) /\ 1 \in DOMAIN admin_jq
  BY DEF Reads, NewsOf, News
<1>4. \A j \in DOMAIN admin_jq' : NewsOf(q, j)' => q \notin DOMAIN admin_status'
  <2> SUFFICES ASSUME NEW j \in DOMAIN admin_jq', NewsOf(q, j)'
               PROVE  q \notin DOMAIN admin_status'
    OBVIOUS
  <2>1. NewsOf(q, j + 1) /\ j + 1 \in DOMAIN admin_jq /\ j + 1 # 1
    BY <1>1
  <2>2. q \notin DOMAIN admin_status
    BY <2>1 DEF Once
  <2>3. ~(q = p /\ id = News)
    BY <1>3, <2>1 DEF Once
  <2>4. /\ DOMAIN admin_status' \subseteq DOMAIN admin_status \cup {p}
        /\ id # "CONNECTING_SERVER" => DOMAIN admin_status' = DOMAIN admin_status
    BY ReadMirror
  <2>5. QED BY <2>2, <2>3, <2>4 DEF News
<1>5. AtMostOnce(admin_peers, q)'
  <2>0. admin_peers \in Seq(Infos) /\ AtMostOnce(admin_peers, q) /\ p \in Infos
    BY DEF AdminTypes, Once
  <2>1. CASE id = News
    <3>1. PICK rest : rest = Projection(admin_peers, Infos \ Gone(p))
      OBVIOUS
    <3>2. admin_peers' = Append(rest, p)
      BY <2>1, <3>1 DEF Reads, ShowConnecting, News
    <3>3. rest \in Seq(Infos) /\ AtMostOnce(rest, q) /\ ToSet(rest) \subseteq ToSet(admin_peers)
      BY <2>0, <3>1, ProjectedMembers, ProjectedOnce
    <3>4. p # q \/ q \notin ToSet(rest)
      BY <1>3, <2>1, <3>3 DEF Once, AdminTypes
    <3>5. AtMostOnce(Append(rest, p), q)
      BY <2>0, <3>3, <3>4, AppendedOnce
    <3>6. QED BY <3>2, <3>5 DEF AtMostOnce
  <2>2. CASE id # News /\ p \in ToSet(admin_peers)
    <3>1. admin_peers' = admin_peers \/ admin_peers' = Unshown(p)
      BY <2>2 DEF Reads, ShowStatus, News
    <3>2. EntryOf(p) \in 1 .. Len(admin_peers)
      BY <2>0, <2>2, EntryFound
    <3>3. AtMostOnce(Unshown(p), q)
      BY <2>0, <3>2, RemovedOnce DEF Unshown
    <3>4. QED BY <2>0, <3>1, <3>3 DEF AtMostOnce
  <2>3. CASE id # News /\ p \notin ToSet(admin_peers)
    <3>1. admin_peers' = admin_peers
      BY <2>3 DEF Reads, ShowStatus, News, mirror
    <3>2. QED BY <2>0, <3>1 DEF AtMostOnce
  <2>4. QED BY <2>1, <2>2, <2>3
<1>6. QED BY <1>2, <1>4, <1>5 DEF Once

(* A message that makes its session superfluous takes it off.              *)
LEMMA SuperfluousGoes ==
  ASSUME AdminTypes, NEW p, NEW id, ShowStatus(p, id), AtMostOnce(admin_peers, p),
         p \in ToSet(admin_peers) => Superfluous(p, id)
  PROVE  p \notin ToSet(admin_peers')
<1>1. CASE p \notin ToSet(admin_peers)
  BY <1>1 DEF ShowStatus, mirror
<1>2. CASE p \in ToSet(admin_peers)
  <2>1. admin_peers' = Unshown(p)
    BY <1>2 DEF ShowStatus
  <2>2. admin_peers \in Seq(Infos)
    BY DEF AdminTypes
  <2>3. EntryOf(p) \in 1 .. Len(admin_peers) /\ admin_peers[EntryOf(p)] = p
    BY <1>2, <2>2, EntryFound
  <2>4. QED BY <2>1, <2>2, <2>3, RemovedOnce DEF Unshown
<1>3. QED BY <1>1, <1>2

(* What is doomed by another message than the first stays so.              *)
LEMMA LaterDoom ==
  ASSUME AdminTypes, DOMAIN info \subseteq Infos,
         NEW p \in DOMAIN info, NEW id \in Statuses, Reads(p, id), UNCHANGED <<info, freed>>,
         NEW q \in DOMAIN info, NEW j \in DOMAIN admin_jq, j # 1,
         Supersedes(q, j) \/ Outshines(q, j) \/ Deletes(q, j)
  PROVE  Doomed(q)'
<1>1. PICK l : l = j - 1
  OBVIOUS
<1>2. /\ j \in Nat /\ j > 1 /\ l \in DOMAIN admin_jq' /\ admin_jq'[l] = admin_jq[j]
      /\ \A k \in DOMAIN admin_jq' :
           k > l => k + 1 \in DOMAIN admin_jq /\ k + 1 > j /\ admin_jq'[k] = admin_jq[k + 1]
  <2>1. j \in Nat /\ j > 1 /\ l \in DOMAIN admin_jq' /\ admin_jq'[l] = admin_jq[j]
    BY <1>1 DEF Reads
  <2>2. ASSUME NEW k \in DOMAIN admin_jq', k > l
        PROVE  k + 1 \in DOMAIN admin_jq /\ k + 1 > j /\ admin_jq'[k] = admin_jq[k + 1]
    BY <1>1, <2>1, <2>2 DEF Reads
  <2>3. QED BY <2>1, <2>2
<1>3. NoNewsBehind(q, j) => NoNewsBehind(q, l)'
  BY <1>2 DEF NoNewsBehind, NewsOf
<1>4. \A r : SameClient(q, r)' <=> SameClient(q, r)
  BY DEF SameClient
<1>5. CASE Supersedes(q, j)
  <2>1. Supersedes(q, l)'
    BY <1>2, <1>5 DEF Supersedes, SameClient
  <2>2. QED BY <1>2, <2>1 DEF Doomed
<1>6. CASE Outshines(q, j)
  <2>1. PICK r \in DOMAIN info : r # q /\ SameClient(q, r) /\ VisibleBefore(r, j)
    BY <1>6 DEF Outshines
  <2>2. VisibleBefore(r, j - 1)'
    BY <1>2, <2>1, ReadBefore
  <2>3. VisibleBefore(r, l)'
    BY <1>1, <2>2
  <2>4. Outshines(q, l)'
    BY <1>2, <1>3, <1>4, <1>6, <2>1, <2>3 DEF Outshines
  <2>5. QED BY <1>2, <2>4 DEF Doomed
<1>7. CASE Deletes(q, j)
  <2>1. Deletes(q, l)'
    BY <1>2, <1>3, <1>7 DEF Deletes
  <2>2. QED BY <1>2, <2>1 DEF Doomed
<1>8. QED BY <1>5, <1>6, <1>7

(* By the first message it goes.                                           *)
LEMMA DoomFalls ==
  ASSUME AdminTypes, DOMAIN info \subseteq Infos,
         NEW p \in DOMAIN info, NEW id \in Statuses, Reads(p, id), UNCHANGED <<info, freed>>,
         NEW q \in DOMAIN info, Once(q), q \notin freed => Mirrored(q),
         Supersedes(q, 1) \/ Outshines(q, 1) \/ Deletes(q, 1)
  PROVE  Doomed(q)'
<1>1. \A j \in DOMAIN admin_jq' :
        /\ j \in Nat \ {0} /\ j + 1 \in DOMAIN admin_jq /\ j + 1 > 1
        /\ admin_jq'[j] = admin_jq[j + 1]
  BY DEF Reads
<1>2. NoNewsBehind(q, 1) => \A j \in DOMAIN admin_jq' : ~NewsOf(q, j)'
  BY <1>1 DEF NoNewsBehind, NewsOf
<1>3. CASE Supersedes(q, 1)
  <2>1. /\ id = News /\ p # q /\ SameClient(q, p) /\ q \notin freed
        /\ info[q].status \in PeerNotConnected
        /\ \A k \in DOMAIN admin_jq : k > 1 => admin_jq[k].param # q
    BY <1>3 DEF Reads, Supersedes
  <2>2. ~InFlight(q)
    <3>1. \A k \in DOMAIN admin_jq : k = 1 \/ k > 1
      BY DEF Reads
    <3>2. QED BY <2>1, <3>1 DEF InFlight, Reads
  <2>3. q \in ToSet(admin_peers) => q \in Gone(p)
    BY <2>1, <2>2 DEF Mirrored, Gone, SameClient
  <2>4. ToSet(admin_peers') = (ToSet(admin_peers) \ Gone(p)) \cup {p}
    BY <2>1, NewsShown DEF Reads, News
  <2>5. q \notin ToSet(admin_peers')
    BY <2>1, <2>3, <2>4
  <2>6. \A j \in DOMAIN admin_jq' : ~NewsOf(q, j)'
    BY <1>1, <2>1 DEF NewsOf
  <2>7. QED BY <2>5, <2>6 DEF Doomed
<1>4. CASE Outshines(q, 1)
  <2>1. PICK r \in DOMAIN info : r # q /\ SameClient(q, r) /\ VisibleBefore(r, 1)
    BY <1>4 DEF Outshines
  <2>2. q = p /\ id \in PeerNotConnected /\ NoNewsBehind(q, 1)
    BY <1>4 DEF Outshines, Reads
  <2>3. id # News
    BY <2>2 DEF News, PeerNotConnected, PeerDisconnected
  <2>4. r \in ToSet(admin_peers) /\ admin_status[r] \notin PeerNotConnected
    <3>1. \A j \in DOMAIN admin_jq : ~(j < 1)
      BY DEF Reads
    <3>2. QED BY <2>1, <3>1 DEF VisibleBefore, AdminTypes
  <2>5. ASSUME q \in ToSet(admin_peers)
        PROVE  Superfluous(p, id)
    <3>1. PICK k \in DOMAIN admin_peers : admin_peers[k] = r
      BY <2>4 DEF ToSet
    <3>2. admin_peers[EntryOf(p)] = p
      BY <2>2, <2>5, EntryFound DEF AdminTypes
    <3>3. k \in DOMAIN admin_peers \ {EntryOf(p)}
      BY <2>1, <2>2, <3>1, <3>2
    <3>4. OtherShown(p, id)
      BY <2>1, <2>2, <2>4, <3>1, <3>3 DEF OtherShown, SameClient
    <3>5. QED BY <2>2, <3>4 DEF Superfluous
  <2>6. q \notin ToSet(admin_peers')
    BY <2>2, <2>3, <2>5, SuperfluousGoes DEF Once, Reads, News
  <2>7. QED BY <1>2, <2>2, <2>6 DEF Doomed
<1>5. CASE Deletes(q, 1)
  <2>1. q = p /\ id = "PEER_CONNECTION_BAN_THIS" /\ id # News /\ NoNewsBehind(q, 1)
    BY <1>5 DEF Deletes, Reads, News
  <2>2. Superfluous(p, id)
    BY <2>1 DEF Superfluous
  <2>3. q \notin ToSet(admin_peers')
    BY <2>1, <2>2, SuperfluousGoes DEF Once, Reads, News
  <2>4. QED BY <1>2, <2>1, <2>3 DEF Doomed
<1>6. QED BY <1>3, <1>4, <1>5

LEMMA ShowLeaves ==
  ASSUME AdminInv, Leavers, Show
  PROVE  Leavers'
<1>0. AdminTypes /\ Followers /\ Inv
  BY DEF AdminInv
<1>1. PICK p \in DOMAIN info, id \in Statuses : Reads(p, id)
  BY <1>0, ReadPlaces
<1>2. /\ UNCHANGED <<info, freed, connection, bind, banned, peer_list, list, jq>>
      /\ DOMAIN info \subseteq Infos
  BY <1>0 DEF Show, vars, directory, outside, Inv, Entries
<1>3. /\ \A q : Shared(q)' <=> Shared(q)
      /\ \A q : Leaving(q)' <=> Leaving(q)
      /\ \A q : Tame(q)' <=> Tame(q)
  BY <1>2 DEF Shared, Uses, Leaving, Tame, Alone, SameClient, BeingAdded, OtherConnected
<1>4. Orderly'
  BY <1>2, <1>3 DEF Leavers, Orderly, InOrder
<1>5. \A q \in DOMAIN info' : ~Shared(q)' => Once(q)'
  BY <1>0, <1>1, <1>2, <1>3, ReadOnce DEF Leavers
<1>6. \A q \in DOMAIN info' \ freed' :
        ~Shared(q)' /\ q \notin banned' /\ info'[q].status \notin PeerNotConnected => Visible(q)'
  BY <1>0, <1>1, <1>2, <1>3, ReadVisible DEF Leavers
<1>7. ASSUME NEW q \in DOMAIN info', Leaving(q)', ~info'[q].old, Tame(q)'
      PROVE  Doomed(q)'
  <2>1. q \in DOMAIN info /\ Doomed(q)
    BY <1>2, <1>3, <1>7 DEF Leavers
  <2>2. ~Shared(q) /\ Once(q) /\ (q \notin freed => Mirrored(q))
    BY <1>0, <1>3, <1>7, <2>1 DEF Leavers, Followers, Tame, Alone, SameClient
  <2>3. CASE q \notin ToSet(admin_peers) /\ \A j \in DOMAIN admin_jq : ~NewsOf(q, j)
    <3>1. ~(q = p /\ id = News)
      BY <1>1, <2>3 DEF Reads, NewsOf, News
    <3>2. q \notin ToSet(admin_peers')
      BY <1>0, <1>1, <1>2, <2>3, <3>1, ReadMirror DEF News
    <3>3. \A j \in DOMAIN admin_jq' : ~NewsOf(q, j)'
      BY <1>1, <2>3 DEF Reads, NewsOf
    <3>4. QED BY <3>2, <3>3 DEF Doomed
  <2>4. CASE \E j \in DOMAIN admin_jq : Supersedes(q, j) \/ Outshines(q, j) \/ Deletes(q, j)
    <3>1. PICK j \in DOMAIN admin_jq : Supersedes(q, j) \/ Outshines(q, j) \/ Deletes(q, j)
      BY <2>4
    <3>2. CASE j = 1
      BY <1>0, <1>1, <1>2, <2>1, <2>2, <3>1, <3>2, DoomFalls
    <3>3. CASE j # 1
      BY <1>0, <1>1, <1>2, <2>1, <3>1, <3>3, LaterDoom
    <3>4. QED BY <3>2, <3>3
  <2>5. QED BY <2>1, <2>3, <2>4 DEF Doomed
<1>8. QED BY <1>4, <1>5, <1>6, <1>7 DEF Leavers

LEMMA LeaversKept ==
  ASSUME Leavers, Orderly',
         UNCHANGED <<directory, connection, bind, list, admin_jq, mirror, banned>>
  PROVE  Leavers'
<1>1. UNCHANGED <<peer_list, info, freed, admin_peers, admin_status>>
  BY DEF directory, mirror
<1>2. QED BY <1>1 DEF Leavers, Shared, Uses, Once, NewsOf, Visible, VisibleBefore, Leaving,
             BeingAdded, OtherConnected, Tame, Alone, SameClient, Doomed, Supersedes,
             Outshines, Deletes, NoNewsBehind, AtMostOnce

LEMMA LeaversStep == AdminInv /\ Leavers /\ [AdminNext]_<<vars, adminVars>> => Leavers'
<1> SUFFICES ASSUME AdminInv, Leavers, [AdminNext]_<<vars, adminVars>> PROVE Leavers'
  OBVIOUS
<1>0. Inv /\ AdminTypes /\ Orderly
  BY DEF AdminInv, Leavers
<1>1. CASE Relb
  <2>1. Next /\ admin_jq' = admin_jq \o Forwarded /\ UNCHANGED mirror
    BY <1>1 DEF Relb
  <2>2. Tells /\ Departs /\ Orderly'
    BY <1>0, <2>1, NextTells, NextDeparts, NextOrderly
  <2>3. banned' = IF list'.pc = "counting" /\ list'.msg.id \in Bans
                  THEN banned \cup {list'.msg.param} ELSE banned
    BY <1>1 DEF Relb
  <2>4. banned \subseteq banned' /\ \A q : BanTaken(q) => q \in banned'
    BY <2>3 DEF BanTaken
  <2>5. QED BY <1>0, <2>1, <2>2, <2>4, ToldLeaves
<1>2. CASE Show BY <1>2, ShowLeaves
<1>3. CASE Request
  <2>1. PICK request \in Requests, p \in ToSet(admin_peers) :
          jq' = Append(jq, [id |-> request, param |-> p])
    BY <1>3 DEF Request
  <2>2. PICK m : m = [id |-> request, param |-> p]
    OBVIOUS
  <2>3. UNCHANGED <<directory, connection, bind, list, admin_jq, mirror, banned>>
    BY <1>3 DEF Request
  <2>4. m \in MessageType /\ m.id # Made
    <3>1. ToSet(admin_peers) \subseteq Infos
      BY <1>0, ListMembers DEF AdminTypes
    <3>2. request \in Asked /\ Made \notin Asked
      BY AdminAssumption DEF Asked, Bans, Made
    <3>3. QED BY <2>1, <2>2, <3>1, <3>2 DEF MessageType
  <2>5. StatusesKept /\ \A q \in DOMAIN info : Shared(q) => Shared(q)'
    BY <2>3 DEF StatusesKept, Shared, Uses, directory
  <2>6. Orderly'
    BY <1>0, <2>1, <2>2, <2>4, <2>5, OrderlySame
  <2>7. QED BY <2>3, <2>6, LeaversKept
<1>4. CASE UNCHANGED <<vars, adminVars>>
  <2>1. UNCHANGED <<directory, connection, bind, list, jq, admin_jq, mirror, banned>>
    BY <1>4 DEF vars, adminVars, outside
  <2>2. Orderly'
    BY <1>0, <2>1 DEF Orderly, InOrder, Shared, Uses, directory
  <2>3. QED BY <2>1, <2>2, LeaversKept
<1>5. QED BY <1>1, <1>2, <1>3, <1>4 DEF AdminNext

LEMMA LeaversBegin == AdminInit => Leavers
<1> SUFFICES ASSUME AdminInit PROVE Leavers
  OBVIOUS
<1>1. info = <<>>
  BY DEF AdminInit, Init
<1>2. DOMAIN info = {}
  BY <1>1
<1>3. QED BY <1>2 DEF Leavers, Orderly

LEMMA LeaversInvariant == AdminSpec => [](AdminInv /\ Leavers)
<1>1. QED BY AdminBegins, AdminStepKeeps, LeaversBegin, LeaversStep, PTL DEF AdminSpec

LEMMA LeaversGo == AdminInv /\ Leavers => ShownIsListed
<1> SUFFICES ASSUME AdminInv, Leavers, admin_jq = <<>>, Quiescent,
                    NEW p \in ToSet(admin_peers), p \notin ToSet(peer_list), ~info[p].old,
                    \A q \in DOMAIN info : info[q].client = info[p].client => Plain(q)
             PROVE  FALSE
  BY DEF ShownIsListed
<1>1. p \in DOMAIN info /\ Inv
  BY DEF AdminInv, AdminTypes
<1>2. Leaving(p)
  BY DEF Quiescent, Leaving, BeingAdded
<1>3. Tame(p)
  <2>1. ASSUME NEW q \in DOMAIN info, SameClient(p, q)
        PROVE  ~Shared(q) /\ q \notin banned
    <3>1. Plain(q)
      BY <2>1 DEF SameClient
    <3>2. QED BY <1>1, <3>1, ReusedIsShared DEF Plain, Inv
  <2>2. QED BY <2>1 DEF Tame, Alone
<1>4. Doomed(p)
  BY <1>1, <1>2, <1>3 DEF Leavers
<1>5. DOMAIN admin_jq = {}
  OBVIOUS
<1>6. QED BY <1>4, <1>5 DEF Doomed

-----------------------------------------------------------------------------
(***************************************************************************)
(* What has ended is counted.  While a message is counted, its peer_info   *)
(* may be marked already and is not counted yet (Awaited); for the rest of *)
(* what a clean would take, finished and disconnected of all servers       *)
(* together are enough.                                                    *)
(***************************************************************************)
EndedOf(servers) == [s \in DOMAIN servers |-> servers[s].finished + servers[s].disconnected]

MarksIn(w) == UNION {{s} \X (1 .. w[s]) : s \in DOMAIN w}

Awaited == IF list.msg.id \in PeerNotConnected THEN {list.msg.param} ELSE {}

Covered == Cardinality(MarksIn(EndedOf(servers_list))) >= Cardinality(Cleaned \ Awaited)

-----------------------------------------------------------------------------
(* What the servers count.                                                 *)

LEMMA MarkOf ==
  ASSUME NEW w, NEW x
  PROVE  x \in MarksIn(w) <=> \E s \in DOMAIN w : x \in {s} \X (1 .. w[s])
  BY DEF MarksIn

LEMMA MarksCounted ==
  ASSUME NEW n \in Nat, NEW w \in [1 .. n -> Nat]
  PROVE  IsFiniteSet(MarksIn(w)) /\ Cardinality(MarksIn(w)) \in Nat
<1> DEFINE D == 1 .. n
           g == [s \in D |-> {s} \X (1 .. w[s])]
           R == {g[s] : s \in D}
<1>1. IsFiniteSet(D)
  BY FS_Interval
<1>2. \A s \in D : IsFiniteSet(g[s])
  <2> SUFFICES ASSUME NEW s \in D PROVE IsFiniteSet({s} \X (1 .. w[s]))
    OBVIOUS
  <2>1. PICK k \in Nat : k = w[s]
    OBVIOUS
  <2>2. k \in Int /\ 1 \in Int
    OBVIOUS
  <2>3. IsFiniteSet(1 .. k)
    BY <2>2, FS_Interval
  <2>4. IsFiniteSet({s})
    BY FS_Singleton
  <2>5. IsFiniteSet({s} \X (1 .. k))
    BY <2>3, <2>4, FS_Product
  <2>6. QED BY <2>1, <2>5
<1>3. MarksIn(w) = UNION R
  BY DEF MarksIn
<1> HIDE DEF D
<1>4. g \in Surjection(D, R)
  BY DEF Surjection
<1> HIDE DEF g
<1>5. IsFiniteSet(R)
  BY <1>1, <1>4, FS_Surjection
<1>6. \A T \in R : IsFiniteSet(T)
  BY <1>2
<1> HIDE DEF R
<1>7. IsFiniteSet(UNION R)
  BY <1>5, <1>6, FS_UNION
<1>8. QED BY <1>3, <1>7, FS_CardinalityType

(* One server counts fewer, the others the same.                           *)
LEMMA FewerMarks ==
  ASSUME NEW n \in Nat, NEW w \in [1 .. n -> Nat], NEW v \in [1 .. n -> Nat],
         NEW b \in 1 .. n, v[b] <= w[b], \A s \in 1 .. n : s # b => v[s] = w[s]
  PROVE  Cardinality(MarksIn(w)) = Cardinality(MarksIn(v)) + (w[b] - v[b])
<1>1. PICK l \in Nat : l = v[b]
  OBVIOUS
<1>2. PICK m \in Nat : m = w[b]
  OBVIOUS
<1>3. PICK extra : extra = {b} \X (l + 1 .. m)
  OBVIOUS
<1>4. l <= m
  BY <1>1, <1>2
<1>5. DOMAIN w = 1 .. n /\ DOMAIN v = 1 .. n
  OBVIOUS
<1>6. MarksIn(w) = MarksIn(v) \cup extra
  <2>1. ASSUME NEW x PROVE x \in MarksIn(w) <=> x \in MarksIn(v) \/ x \in extra
    <3> DEFINE P(s) == x \in {s} \X (1 .. w[s])
               Q(s) == x \in {s} \X (1 .. v[s])
    <3>1. x \in MarksIn(w) <=> \E s \in 1 .. n : P(s)
      BY <1>5, MarkOf
    <3>2. x \in MarksIn(v) <=> \E s \in 1 .. n : Q(s)
      BY <1>5, MarkOf
    <3>3. \A s \in 1 .. n : s # b => (P(s) <=> Q(s))
      OBVIOUS
    <3>4. P(b) <=> Q(b) \/ x \in extra
      <4>1. ASSUME NEW k PROVE k \in 1 .. m <=> k \in 1 .. l \/ k \in l + 1 .. m
        BY <1>4
      <4>2. 1 .. m = (1 .. l) \cup (l + 1 .. m)
        BY <4>1
      <4>3. {b} \X (1 .. m) = ({b} \X (1 .. l)) \cup extra
        BY <1>3, <4>2
      <4>4. QED BY <1>1, <1>2, <4>3
    <3> HIDE DEF P, Q
    <3>5. QED BY <3>1, <3>2, <3>3, <3>4
  <2>2. QED BY <2>1
<1>7. MarksIn(v) \cap extra = {}
  <2> SUFFICES ASSUME NEW x \in MarksIn(v), x \in extra PROVE FALSE
    OBVIOUS
  <2>1. PICK s \in 1 .. n : x \in {s} \X (1 .. v[s])
    BY <1>5, MarkOf
  <2>2. x[1] = s /\ x[2] \in 1 .. v[s]
    BY <2>1
  <2>3. x[1] = b /\ x[2] \in l + 1 .. m
    BY <1>3
  <2>4. x[2] \in 1 .. l
    BY <1>1, <2>2, <2>3
  <2>5. QED BY <2>3, <2>4
<1>8. IsFiniteSet(extra) /\ Cardinality(extra) = m - l
  <2>1. PICK T : T = l + 1 .. m
    OBVIOUS
  <2>2. l + 1 \in Int /\ m \in Int
    OBVIOUS
  <2>3. IsFiniteSet(T) /\ Cardinality(T) = IF l + 1 > m THEN 0 ELSE m - (l + 1) + 1
    BY <2>1, <2>2, FS_Interval
  <2>4. Cardinality(T) = m - l /\ m - l \in Nat
    BY <1>4, <2>3
  <2>5. IsFiniteSet({b}) /\ Cardinality({b}) = 1
    BY FS_Singleton
  <2>6. IsFiniteSet({b} \X T) /\ Cardinality({b} \X T) = Cardinality({b}) * Cardinality(T)
    BY <2>3, <2>5, FS_Product
  <2>7. Cardinality({b} \X T) = m - l
    BY <2>4, <2>5, <2>6
  <2>8. QED BY <1>3, <2>1, <2>6, <2>7
<1>9. IsFiniteSet(MarksIn(v)) /\ Cardinality(MarksIn(v)) \in Nat
  BY MarksCounted
<1>10. PICK V : V = MarksIn(v)
  OBVIOUS
<1>11. Cardinality(V \cup extra) = Cardinality(V) + Cardinality(extra) - Cardinality(V \cap extra)
  BY <1>8, <1>9, <1>10, FS_Union
<1>12. Cardinality(V \cap extra) = 0
  BY <1>7, <1>10, FS_EmptySet
<1>13. Cardinality(V) \in Nat
  BY <1>9, <1>10
<1>14. Cardinality(V \cup extra) = Cardinality(V) + (m - l)
  BY <1>8, <1>11, <1>12, <1>13
<1>15. QED BY <1>1, <1>2, <1>6, <1>10, <1>14

(* At most k are taken off one server, or one more is counted there.       *)
LEMMA MarksChanged ==
  ASSUME NEW n \in Nat, NEW w \in [1 .. n -> Nat], NEW v \in [1 .. n -> Nat],
         NEW b, \A s \in 1 .. n : s # b => v[s] = w[s]
  PROVE  /\ \A k \in Nat : (b \in 1 .. n => v[b] + k >= w[b]) =>
              Cardinality(MarksIn(v)) + k >= Cardinality(MarksIn(w))
         /\ b \in 1 .. n /\ v[b] = w[b] + 1 =>
              Cardinality(MarksIn(v)) = Cardinality(MarksIn(w)) + 1
<1>1. Cardinality(MarksIn(w)) \in Nat /\ Cardinality(MarksIn(v)) \in Nat
  BY MarksCounted
<1>2. CASE b \notin 1 .. n
  <2>1. \A s \in 1 .. n : v[s] = w[s]
    BY <1>2
  <2>2. v = w
    BY <2>1
  <2>3. QED BY <1>1, <1>2, <2>2
<1>3. CASE b \in 1 .. n
  <2>1. v[b] \in Nat /\ w[b] \in Nat
    BY <1>3
  <2>2. CASE v[b] <= w[b]
    <3>1. Cardinality(MarksIn(w)) = Cardinality(MarksIn(v)) + (w[b] - v[b])
      BY <1>3, <2>2, FewerMarks
    <3>2. QED BY <1>1, <1>3, <2>1, <2>2, <3>1
  <2>3. CASE w[b] <= v[b]
    <3>1. Cardinality(MarksIn(v)) = Cardinality(MarksIn(w)) + (v[b] - w[b])
      BY <1>3, <2>3, FewerMarks
    <3>2. PICK x, y \in Nat : x = w[b] /\ y = v[b]
      BY <2>1
    <3>3. Cardinality(MarksIn(v)) = Cardinality(MarksIn(w)) + (y - x) /\ x <= y
      BY <2>3, <3>1, <3>2
    <3>4. /\ Cardinality(MarksIn(v)) >= Cardinality(MarksIn(w))
          /\ y = x + 1 => Cardinality(MarksIn(v)) = Cardinality(MarksIn(w)) + 1
      <4>1. PICK p, q \in Nat : p = Cardinality(MarksIn(v)) /\ q = Cardinality(MarksIn(w))
        BY <1>1
      <4>2. p = q + (y - x) /\ x <= y
        BY <3>3, <4>1
      <4>3. p >= q /\ (y = x + 1 => p = q + 1)
        BY <4>2
      <4>4. QED BY <4>1, <4>3
    <3>5. ASSUME NEW k \in Nat PROVE Cardinality(MarksIn(v)) + k >= Cardinality(MarksIn(w))
      BY <1>1, <3>4
    <3>6. v[b] = w[b] + 1 => Cardinality(MarksIn(v)) = Cardinality(MarksIn(w)) + 1
      BY <3>2, <3>4
    <3>7. QED BY <3>5, <3>6
  <2>4. QED BY <2>1, <2>2, <2>3
<1>4. QED BY <1>2, <1>3

LEMMA EndedType ==
  ASSUME NEW f \in Seq(ServerType(Ips))
  PROVE  /\ Len(f) \in Nat
         /\ EndedOf(f) \in [1 .. Len(f) -> Nat]
         /\ IsFiniteSet(MarksIn(EndedOf(f))) /\ Cardinality(MarksIn(EndedOf(f))) \in Nat
<1>1. Len(f) \in Nat /\ DOMAIN f = 1 .. Len(f)
  OBVIOUS
<1>2. ASSUME NEW s \in DOMAIN f PROVE f[s].finished + f[s].disconnected \in Nat
  <2>1. f[s] \in ServerType(Ips)
    BY ElementOfSeq
  <2>2. f[s].finished \in Nat /\ f[s].disconnected \in Nat
    BY <2>1 DEF ServerType
  <2>3. QED BY <2>2
<1>3. EndedOf(f) \in [1 .. Len(f) -> Nat]
  BY <1>1, <1>2 DEF EndedOf
<1>4. QED BY <1>1, <1>3, MarksCounted

LEMMA CleanedCounted ==
  ASSUME Inv
  PROVE  IsFiniteSet(Cleaned) /\ Cardinality(Cleaned) \in Nat
<1>1. Cleaned \subseteq ToSet(peer_list) /\ ToSet(peer_list) \subseteq Infos
  BY ListMembers DEF Cleaned, Inv, Listed
<1>2. IsFiniteSet(Infos)
  BY DirectoryAssumption
<1>3. QED BY <1>1, <1>2, FS_Subset, FS_CardinalityType

-----------------------------------------------------------------------------
(* The steps.                                                              *)

LEMMA EndedSame ==
  ASSUME NEW f, NEW g, DOMAIN g = DOMAIN f,
         \A s \in DOMAIN f : /\ g[s].finished = f[s].finished
                             /\ g[s].disconnected = f[s].disconnected
  PROVE  EndedOf(g) = EndedOf(f)
  BY DEF EndedOf

(* Nothing is counted, and nothing else has ended.                         *)
LEMMA UncountedCovered ==
  ASSUME Inv, Covered, EndedOf(servers_list') = EndedOf(servers_list),
         Cleaned' \ Awaited' \subseteq Cleaned \ Awaited
  PROVE  Covered'
<1>1. PICK A : A = Cleaned \ Awaited
  OBVIOUS
<1>2. PICK B : B = Cleaned' \ Awaited'
  OBVIOUS
<1>3. IsFiniteSet(A) /\ Cardinality(A) \in Nat
  BY <1>1, CleanedCounted, FS_Difference, FS_CardinalityType
<1>4. B \in SUBSET A
  BY <1>1, <1>2
<1>5. IsFiniteSet(B) /\ Cardinality(B) <= Cardinality(A)
  BY <1>3, <1>4, FS_Subset
<1>6. Cardinality(B) \in Nat
  BY <1>5, FS_CardinalityType
<1>7. Cardinality(MarksIn(EndedOf(servers_list))) \in Nat
  BY EndedType DEF Inv, ServersKept
<1>8. Cardinality(MarksIn(EndedOf(servers_list))) >= Cardinality(A)
  BY <1>1 DEF Covered
<1>9. Cardinality(MarksIn(EndedOf(servers_list'))) >= Cardinality(B)
  BY <1>3, <1>5, <1>6, <1>7, <1>8
<1>10. QED BY <1>2, <1>9 DEF Covered

LEMMA SearchCovered ==
  ASSUME Inv, Covered, Search
  PROVE  Covered'
<1>1. PICK client, port :
        /\ SearchExact(client, port) \/ SearchLatest(client, port)
        /\ UNCHANGED <<peer_list, servers_list, list>>
  BY DEF Search
<1>2. Awaited' = Awaited
  BY <1>1 DEF Awaited
<1>3. Cleaned' \subseteq Cleaned
  <2>1. CASE SearchExact(client, port)
    <3>1. PICK q : info' = [info EXCEPT ![q].status = "CONNECTING_SERVER"]
      BY <2>1 DEF SearchExact
    <3>2. "CONNECTING_SERVER" \notin PeerNotConnected
      BY DEF PeerNotConnected, PeerDisconnected
    <3>3. ASSUME NEW p \in ToSet(peer_list), info'[p].status \in PeerNotConnected
          PROVE  info[p].status \in PeerNotConnected
      <4>1. p \in DOMAIN info
        BY DEF Inv, Listed
      <4>2. info[p] \in InfoType
        BY <4>1 DEF Inv, Entries
      <4>3. CASE p = q
        <5>1. info'[p] = [info[p] EXCEPT !.status = "CONNECTING_SERVER"]
          BY <3>1, <4>1, <4>3
        <5>2. info'[p].status = "CONNECTING_SERVER"
          BY <4>2, <5>1 DEF InfoType
        <5>3. QED BY <3>2, <3>3, <5>2
      <4>4. CASE p # q
        BY <3>1, <3>3, <4>1, <4>4
      <4>5. QED BY <4>3, <4>4
    <3>4. QED BY <1>1, <3>3 DEF Cleaned
  <2>2. CASE SearchLatest(client, port)
    BY <1>1, <2>2 DEF SearchLatest, Cleaned
  <2>3. QED BY <1>1, <2>1, <2>2
<1>4. QED BY <1>1, <1>2, <1>3, UncountedCovered

(* bind_read is written back.                                              *)
LEMMA CountConnectingCovered ==
  ASSUME Inv, Covered, CountConnecting
  PROVE  Covered'
<1> DEFINE b == bind_read.server
           n == bind_read.connecting + 1
           f == servers_list
           new == [f[b] EXCEPT !.connecting = n]
<1>1. /\ f' = [f EXCEPT ![b].connecting = n]
      /\ UNCHANGED <<peer_list, info, list>>
  BY DEF CountConnecting, directory
<1>2. f' = [f EXCEPT ![b] = new]
  BY <1>1
<1>3. new.finished = f[b].finished /\ new.disconnected = f[b].disconnected
  OBVIOUS
<1> HIDE DEF b, n, new
<1>4. DOMAIN f' = DOMAIN f
  BY <1>2
<1>5. \A s \in DOMAIN f : /\ f'[s].finished = f[s].finished
                          /\ f'[s].disconnected = f[s].disconnected
  BY <1>2, <1>3
<1>6. EndedOf(f') = EndedOf(f)
  BY <1>4, <1>5, EndedSame
<1>7. Cleaned' = Cleaned /\ Awaited' = Awaited
  BY <1>1 DEF Cleaned, Awaited
<1>8. QED BY <1>6, <1>7, UncountedCovered

LEMMA AssignCovered ==
  ASSUME Inv, Covered, Assign
  PROVE  Covered'
<1>1. bind.info = NoInfo /\ Len(connection) < MaxConnections
  BY DEF Inv, Binding, Assign
<1>2. PICK new : new = Fresh
  OBVIOUS
<1>3. new \in Infos \ DOMAIN info
  BY <1>1, <1>2, FreshFound DEF Inv
<1>4. /\ UNCHANGED <<peer_list, servers_list, list>>
      /\ UNCHANGED info \/ \E r : info' = With(new, r)
  BY <1>2 DEF Assign
<1>5. ASSUME NEW p \in ToSet(peer_list)
      PROVE  info'[p] = info[p]
  <2>1. p \in DOMAIN info /\ p # new
    BY <1>3 DEF Inv, Listed
  <2>2. QED BY <1>4, <2>1 DEF With
<1>6. Cleaned' = Cleaned /\ Awaited' = Awaited
  BY <1>4, <1>5 DEF Cleaned, Awaited
<1>7. QED BY <1>4, <1>6, UncountedCovered

LEMMA AddCovered ==
  ASSUME Inv, Covered, Add
  PROVE  Covered'
<1>1. /\ bind.pc = "add" /\ peer_list' = Append(peer_list, bind.info)
      /\ UNCHANGED <<info, servers_list, list>>
  BY DEF Add, counters
<1>2. bind.info \in Infos /\ info[bind.info].status \notin PeerNotConnected
  BY <1>1 DEF Inv, Binding, Entries
<1>3. ToSet(peer_list') = ToSet(peer_list) \cup {bind.info}
  BY <1>1, <1>2, AppendedMembers DEF Inv, Listed
<1>4. Cleaned' = Cleaned /\ Awaited' = Awaited
  BY <1>1, <1>2, <1>3 DEF Cleaned, Awaited
<1>5. QED BY <1>1, <1>4, UncountedCovered

(* The status is set before the message is counted.                        *)
LEMMA TakenCovered ==
  ASSUME Inv, Covered, ProcessMessage
  PROVE  Covered'
<1>1. PICK msg : msg = Head(jq)
  OBVIOUS
<1>2. PICK p : p = msg.param
  OBVIOUS
<1>3. PICK id : id = msg.id
  OBVIOUS
<1>4. /\ list.pc = "idle" /\ UNCHANGED <<peer_list, servers_list>>
      /\ \/ UNCHANGED <<info, list>>
         \/ /\ UNCHANGED info /\ id = "PEER_CONNECTION_KICKED"
            /\ list' = [pc |-> "counting", msg |-> msg]
         \/ /\ info' = [info EXCEPT ![p].status = id]
            /\ list' = [pc |-> "counting", msg |-> msg]
  BY <1>1, <1>2, <1>3 DEF ProcessMessage, TakeStatus, TakeKick, Take
<1>5. Awaited = {}
  BY <1>4 DEF Inv, Counting, Awaited, NoMessage, PeerNotConnected, PeerDisconnected
<1>6. CASE UNCHANGED <<info, list>>
  <2>1. Cleaned' = Cleaned /\ Awaited' = Awaited
    BY <1>4, <1>6 DEF Cleaned, Awaited
  <2>2. QED BY <1>4, <2>1, UncountedCovered
<1>7. CASE UNCHANGED info
  <2>1. Cleaned' = Cleaned
    BY <1>4, <1>7 DEF Cleaned
  <2>2. QED BY <1>4, <1>5, <2>1, UncountedCovered
<1>8. CASE /\ info' = [info EXCEPT ![p].status = id]
           /\ list' = [pc |-> "counting", msg |-> msg]
  <2>1. Awaited' = IF id \in PeerNotConnected THEN {p} ELSE {}
    <3>1. list'.msg.id = id /\ list'.msg.param = p
      BY <1>2, <1>3, <1>8
    <3>2. QED BY <3>1 DEF Awaited
  <2>2. ASSUME NEW q \in Cleaned', q \notin Awaited'
        PROVE  q \in Cleaned
    <3>1. q \in ToSet(peer_list) /\ info'[q].status \in PeerNotConnected
      BY <1>4 DEF Cleaned
    <3>2. q \in DOMAIN info
      BY <3>1 DEF Inv, Listed
    <3>3. info[q] \in InfoType
      BY <3>2 DEF Inv, Entries
    <3>4. CASE q = p
      <4>1. info'[q] = [info[q] EXCEPT !.status = id]
        BY <1>8, <3>2, <3>4
      <4>2. info'[q].status = id
        BY <3>3, <4>1 DEF InfoType
      <4>3. QED BY <2>1, <2>2, <3>1, <3>4, <4>2
    <3>5. CASE q # p
      <4>1. info'[q] = info[q]
        BY <1>8, <3>2, <3>5
      <4>2. QED BY <3>1, <4>1 DEF Cleaned
    <3>6. QED BY <3>4, <3>5
  <2>3. Cleaned' \ Awaited' \subseteq Cleaned \ Awaited
    BY <1>5, <2>2
  <2>4. QED BY <1>4, <2>3, UncountedCovered
<1>9. QED BY <1>4, <1>6, <1>7, <1>8

(* The sessions that are replaced are taken off one server, each once.     *)
LEMMA ReplacedEnded ==
  ASSUME Inv, Recreate
  PROVE  Cardinality(MarksIn(EndedOf(servers_list'))) + Cardinality(Replaced)
           >= Cardinality(MarksIn(EndedOf(servers_list)))
<1> DEFINE b == bind.server
           f == servers_list
           d(n) == CountedDown(n, PeerDisconnected)
           e(n) == CountedDown(n, Statuses \ PeerDisconnected)
           old == f[b]
           s1 == [old EXCEPT !.connecting = @ + 1]
           s2 == [s1 EXCEPT !.disconnected = d(@)]
           s3 == [s2 EXCEPT !.finished = e(@)]
           In(statuses) == {i \in Replaced : info[peer_list[i]].status \in statuses}
           lost == In(PeerDisconnected)
           over == In(Statuses \ PeerDisconnected)
<1>1. f' = [f EXCEPT ![b].connecting = @ + 1, ![b].disconnected = d(@), ![b].finished = e(@)]
  BY DEF Recreate
<1>2. f \in Seq(ServerType(Ips)) /\ f' \in Seq(ServerType(Ips)) /\ peer_list \in Seq(Infos)
  BY RecreateServers DEF Inv, ServersKept, Listed
<1>3. ASSUME NEW n \in Nat
      PROVE  d(n) = Reduced(n, Cardinality(lost)) /\ e(n) = Reduced(n, Cardinality(over))
  BY DEF CountedDown
<1>4. /\ IsFiniteSet(lost) /\ Cardinality(lost) \in Nat
      /\ IsFiniteSet(over) /\ Cardinality(over) \in Nat
      /\ IsFiniteSet(Replaced) /\ Cardinality(Replaced) \in Nat
  <2>1. Replaced \subseteq DOMAIN peer_list
    BY DEF Replaced
  <2>2. lost \subseteq DOMAIN peer_list /\ over \subseteq DOMAIN peer_list
    BY <2>1
  <2> HIDE DEF lost, over
  <2>3. QED BY <1>2, <2>1, <2>2, PlacesCounted
<1>5. Cardinality(lost) + Cardinality(over) <= Cardinality(Replaced)
  <2>1. lost \cap over = {} /\ lost \cup over \in SUBSET Replaced
    OBVIOUS
  <2> HIDE DEF lost, over
  <2>2. Cardinality(lost \cup over) = Cardinality(lost) + Cardinality(over)
                                        - Cardinality(lost \cap over)
    BY <1>4, FS_Union
  <2>3. Cardinality(lost \cap over) = 0
    BY <2>1, FS_EmptySet
  <2>4. Cardinality(lost \cup over) <= Cardinality(Replaced)
    BY <1>4, <2>1, FS_Subset
  <2>5. QED BY <1>4, <2>2, <2>3, <2>4
<1> HIDE DEF lost, over, In, d, e
<1>6. f' = [f EXCEPT ![b] = s3]
  <2>1. CASE b \in DOMAIN f
    BY <1>1, <2>1
  <2>2. CASE b \notin DOMAIN f
    BY <1>1, <2>2
  <2>3. QED BY <2>1, <2>2
<1>7. ASSUME b \in DOMAIN f
      PROVE  s3.finished + s3.disconnected + Cardinality(Replaced)
               >= f[b].finished + f[b].disconnected
  <2>1. old \in ServerType(Ips)
    BY <1>2, <1>7, ElementOfSeq
  <2>2. old.finished \in Nat /\ old.disconnected \in Nat
    BY <2>1 DEF ServerType
  <2> HIDE DEF old
  <2>3. /\ s1.finished = old.finished /\ s1.disconnected = old.disconnected
        /\ {"finished", "disconnected"} \subseteq DOMAIN s1
    BY <2>1 DEF ServerType
  <2> HIDE DEF s1
  <2>4. /\ s2.finished = old.finished /\ s2.disconnected = d(old.disconnected)
        /\ "finished" \in DOMAIN s2
    BY <2>3
  <2> HIDE DEF s2
  <2>5. s3.finished = e(old.finished) /\ s3.disconnected = d(old.disconnected)
    BY <2>4
  <2> HIDE DEF s3
  <2>6. PICK x, y \in Nat : x = old.finished /\ y = old.disconnected
    BY <2>2
  <2>7. PICK l, o, r \in Nat : l = Cardinality(lost) /\ o = Cardinality(over)
                               /\ r = Cardinality(Replaced)
    BY <1>4
  <2>8. s3.finished = Reduced(x, o) /\ s3.disconnected = Reduced(y, l)
    BY <1>3, <2>5, <2>6, <2>7
  <2>9. Reduced(x, o) + Reduced(y, l) + r >= x + y
    BY <1>5, <2>7 DEF Reduced
  <2>10. QED BY <2>6, <2>7, <2>8, <2>9 DEF old
<1> HIDE DEF s3
<1>8. PICK w : w = EndedOf(f)
  OBVIOUS
<1>9. PICK v : v = EndedOf(f')
  OBVIOUS
<1>10. PICK n : n = Len(f)
  OBVIOUS
<1>11. /\ DOMAIN f = 1 .. n /\ DOMAIN f' = DOMAIN f /\ Len(f') = n /\ n \in Nat
  BY <1>2, <1>6, <1>10
<1>12. w \in [1 .. n -> Nat] /\ v \in [1 .. n -> Nat]
  BY <1>2, <1>8, <1>9, <1>10, <1>11, EndedType
<1>13. \A s \in 1 .. n : s # b => v[s] = w[s]
  BY <1>6, <1>8, <1>9, <1>11 DEF EndedOf
<1>14. b \in 1 .. n => v[b] + Cardinality(Replaced) >= w[b]
  <2> SUFFICES ASSUME b \in 1 .. n PROVE v[b] + Cardinality(Replaced) >= w[b]
    OBVIOUS
  <2>1. f'[b] = s3 /\ b \in DOMAIN f
    BY <1>6, <1>11
  <2>2. v[b] = s3.finished + s3.disconnected /\ w[b] = f[b].finished + f[b].disconnected
    BY <1>8, <1>9, <1>11, <2>1 DEF EndedOf
  <2>3. QED BY <1>7, <2>1, <2>2
<1>15. PICK c : c = b
  OBVIOUS
<1>16. PICK k \in Nat : k = Cardinality(Replaced)
  BY <1>4
<1>17. Cardinality(MarksIn(v)) + k >= Cardinality(MarksIn(w))
  BY <1>11, <1>12, <1>13, <1>14, <1>15, <1>16, MarksChanged
<1>18. QED BY <1>8, <1>9, <1>16, <1>17

LEMMA RecreateCovered ==
  ASSUME Inv, Covered, Recreate
  PROVE  Covered'
<1> DEFINE Dropped == {peer_list[i] : i \in Replaced}
           g == [i \in Replaced |-> peer_list[i]]
<1>1. PICK new : new = Fresh
  OBVIOUS
<1>2. bind.info = NoInfo /\ Len(connection) < MaxConnections /\ list.pc = "idle"
  BY DEF Inv, Binding, Recreate, PeerLockFree
<1>3. new \in Infos \ DOMAIN info
  BY <1>1, <1>2, FreshFound DEF Inv
<1>4. /\ peer_list' = Append(Kept, new) /\ list' = list
      /\ \E s : info' = With(new, NewInfo(bind.client, bind.port, s))
  BY <1>1 DEF Recreate
<1>5. peer_list \in Seq(Infos) /\ IsInjective(peer_list)
      /\ ToSet(peer_list) \subseteq DOMAIN info
  BY DEF Inv, Listed
<1>6. Kept \in Seq(Infos) /\ ToSet(Kept) = ToSet(peer_list) \ Dropped
  <2> DEFINE keep == ToSet(peer_list) \ Dropped
  <2>1. Kept = Projection(peer_list, keep)
    BY DEF Kept
  <2>2. ToSet(peer_list) \cap keep = keep
    OBVIOUS
  <2> HIDE DEF keep
  <2>3. Kept \in Seq(Infos) /\ ToSet(Kept) = ToSet(peer_list) \cap keep
    BY <1>5, <2>1, ProjectedMembers
  <2>4. QED BY <2>2, <2>3 DEF keep
<1>7. Dropped \subseteq Cleaned
  BY <1>5 DEF Replaced, Cleaned, ToSet
<1>8. Cardinality(Replaced) <= Cardinality(Dropped)
      /\ IsFiniteSet(Dropped) /\ Cardinality(Dropped) \in Nat /\ Cardinality(Replaced) \in Nat
  <2>1. IsFiniteSet(Dropped)
    BY <1>7, CleanedCounted, FS_Subset
  <2>2. Replaced \subseteq DOMAIN peer_list
    BY DEF Replaced
  <2>3. \A i, j \in Replaced : peer_list[i] = peer_list[j] => i = j
    BY <1>5, <2>2 DEF IsInjective
  <2>4. g \in [Replaced -> Dropped]
    OBVIOUS
  <2>5. \A i, j \in Replaced : g[i] = g[j] => i = j
    BY <2>3
  <2> HIDE DEF g, Dropped
  <2>6. g \in Injection(Replaced, Dropped)
    BY <2>4, <2>5 DEF Injection, IsInjective
  <2>7. Cardinality(Replaced) \in Nat
    BY <1>5, <2>2, PlacesCounted
  <2>8. QED BY <2>1, <2>6, <2>7, FS_Injection, FS_CardinalityType
<1> HIDE DEF Dropped
<1>9. ToSet(peer_list') = ToSet(Kept) \cup {new}
  BY <1>3, <1>4, <1>6, AppendedMembers
<1>10. Awaited = {} /\ Awaited' = {}
  BY <1>2, <1>4 DEF Inv, Counting, Awaited, NoMessage, PeerNotConnected, PeerDisconnected
<1>11. /\ info'[new].status \notin PeerNotConnected
       /\ \A p \in DOMAIN info : info'[p] = info[p]
  BY <1>3, <1>4 DEF With, NewInfo, PeerNotConnected, PeerDisconnected
<1>12. Cleaned' = Cleaned \ Dropped
  BY <1>5, <1>6, <1>9, <1>11 DEF Cleaned
<1>13. PICK C : C = Cleaned
  OBVIOUS
<1>14. IsFiniteSet(C) /\ Cardinality(C) \in Nat /\ C \cap Dropped = Dropped
  BY <1>7, <1>13, CleanedCounted
<1>15. Cardinality(C \ Dropped) = Cardinality(C) - Cardinality(Dropped)
  BY <1>14, FS_Difference
<1>16. Cardinality(MarksIn(EndedOf(servers_list))) >= Cardinality(C)
  <2>1. Cleaned \ Awaited = C
    BY <1>10, <1>13
  <2>2. QED BY <2>1 DEF Covered
<1>17. /\ Cardinality(MarksIn(EndedOf(servers_list))) \in Nat
       /\ Cardinality(MarksIn(EndedOf(servers_list'))) \in Nat
  BY RecreateServers, EndedType DEF Inv, ServersKept
<1>18. Cardinality(MarksIn(EndedOf(servers_list'))) + Cardinality(Replaced)
         >= Cardinality(MarksIn(EndedOf(servers_list)))
  BY ReplacedEnded
<1>19. Cardinality(MarksIn(EndedOf(servers_list'))) >= Cardinality(C \ Dropped)
  BY <1>8, <1>14, <1>15, <1>16, <1>17, <1>18
<1>20. Cleaned' \ Awaited' = C \ Dropped
  BY <1>10, <1>12, <1>13
<1>21. QED BY <1>19, <1>20 DEF Covered

(* A message of an end is counted at finished or disconnected, unless the  *)
(* session is superfluous; no other message is.                            *)
LEMMA EndedOnce ==
  ASSUME NEW server \in ServerType(Ips), NEW id, NEW forgotten \in BOOLEAN,
         NEW new, new = Counted(server, id, forgotten)
  PROVE  new.finished + new.disconnected =
           IF id \in PeerNotConnected /\ ~forgotten
           THEN server.finished + server.disconnected + 1
           ELSE server.finished + server.disconnected
<1>1. server.finished \in Nat /\ server.disconnected \in Nat
  BY DEF ServerType
<1>2. CASE id \in PeerNotConnected
  <2> DEFINE s1 == [server EXCEPT !.failed = @ \/ id = "CONNECTION_FAILED"]
             s2 == [s1 EXCEPT !.connecting = IF id = "CONNECTION_FAILED"
                                             THEN Decreased(@) ELSE @]
             s3 == [s2 EXCEPT !.connected = IF id = "CONNECTION_FAILED"
                                            THEN @ ELSE Decreased(@)]
             s4 == [s3 EXCEPT !.disconnected = IF ~forgotten /\ id \in PeerDisconnected
                                               THEN @ + 1 ELSE @]
             s5 == [s4 EXCEPT !.finished = IF ~forgotten /\ id \notin PeerDisconnected
                                           THEN @ + 1 ELSE @]
  <2>1. new = s5
    <3>1. id # "CONNECTION_ESTABLISHED"
      BY <1>2 DEF PeerNotConnected, PeerDisconnected
    <3>2. new = Ended(server, id, forgotten)
      BY <1>2, <3>1 DEF Counted
    <3>3. QED BY <3>2 DEF Ended
  <2>2. /\ s1.finished = server.finished /\ s1.disconnected = server.disconnected
        /\ {"finished", "disconnected"} \subseteq DOMAIN s1
    BY DEF ServerType
  <2> HIDE DEF s1
  <2>3. /\ s2.finished = server.finished /\ s2.disconnected = server.disconnected
        /\ {"finished", "disconnected"} \subseteq DOMAIN s2
    BY <2>2
  <2> HIDE DEF s2
  <2>4. /\ s3.finished = server.finished /\ s3.disconnected = server.disconnected
        /\ {"finished", "disconnected"} \subseteq DOMAIN s3
    BY <2>3
  <2> HIDE DEF s3
  <2>5. /\ s4.finished = server.finished /\ "finished" \in DOMAIN s4
        /\ s4.disconnected = IF ~forgotten /\ id \in PeerDisconnected
                             THEN server.disconnected + 1 ELSE server.disconnected
    BY <2>4
  <2> HIDE DEF s4
  <2>6. /\ s5.disconnected = s4.disconnected
        /\ s5.finished = IF ~forgotten /\ id \notin PeerDisconnected
                         THEN server.finished + 1 ELSE server.finished
    BY <2>5
  <2> HIDE DEF s5
  <2>7. QED BY <1>1, <1>2, <2>1, <2>5, <2>6
<1>3. CASE id \notin PeerNotConnected
  <2>1. new = Established(server) \/ new = server
    BY <1>3 DEF Counted
  <2> DEFINE s1 == [server EXCEPT !.connected = @ + 1]
             s2 == [s1 EXCEPT !.connecting = Decreased(@)]
             s3 == [s2 EXCEPT !.failed = FALSE]
  <2>2. Established(server) = s3
    BY DEF Established
  <2>3. s1.finished = server.finished /\ s1.disconnected = server.disconnected
    OBVIOUS
  <2> HIDE DEF s1
  <2>4. s2.finished = server.finished /\ s2.disconnected = server.disconnected
    BY <2>3
  <2> HIDE DEF s2
  <2>5. s3.finished = server.finished /\ s3.disconnected = server.disconnected
    BY <2>4
  <2> HIDE DEF s3
  <2>6. QED BY <1>3, <2>1, <2>2, <2>5
<1>4. QED BY <1>2, <1>3

LEMMA CountCovered ==
  ASSUME Inv, Inv', Covered, CountMessage
  PROVE  Covered'
<1>1. PICK p : p = list.msg.param
  OBVIOUS
<1>2. PICK id : id = list.msg.id
  OBVIOUS
<1>3. PICK b : b = info[p].server
  OBVIOUS
<1>4. PICK m \in ReadConnecting(servers_list[b], id) :
        servers_list' = [servers_list EXCEPT ![b] =
                           Counted([@ EXCEPT !.connecting = m], id, Forgotten(p))]
  BY <1>1, <1>2, <1>3 DEF CountMessage
<1>5. /\ list.pc = "counting"
      /\ peer_list' = IF id \in PeerNotConnected /\ Forgotten(p)
                      THEN Projection(peer_list, Infos \ {p}) ELSE peer_list
      /\ list'.msg = NoMessage
      /\ UNCHANGED info
  BY <1>1, <1>2 DEF CountMessage
<1>6. PICK forgotten \in BOOLEAN : forgotten = Forgotten(p)
  <2>1. p \in DOMAIN info
    BY <1>1, <1>5 DEF Inv, Counting, Listed
  <2>2. info[p].old \in BOOLEAN
    BY <2>1 DEF Inv, Entries, InfoType
  <2>3. QED BY <2>2 DEF Forgotten, OtherConnected
<1>7. /\ servers_list \in Seq(ServerType(Ips)) /\ servers_list' \in Seq(ServerType(Ips))
      /\ list_read \in Nat /\ b \in DOMAIN servers_list
  <2>1. p \in DOMAIN info
    BY <1>1, <1>5 DEF Inv, Counting, Listed
  <2>2. QED BY <1>3, <2>1 DEF Inv, Entries, InfoType, ServersKept
<1> DEFINE old == servers_list[b]
           read == [old EXCEPT !.connecting = m]
           new == Counted(read, id, forgotten)
<1>8. servers_list' = [servers_list EXCEPT ![b] = new]
  BY <1>4, <1>6
<1>9. old \in ServerType(Ips)
  BY <1>7, ElementOfSeq
<1> HIDE DEF old
<1>10. m \in Nat
  <2>1. old.connecting \in Nat
    BY <1>9 DEF ServerType
  <2>2. QED BY <1>4, <1>7, <2>1 DEF ReadConnecting, old
<1>11. /\ read \in ServerType(Ips)
       /\ read.finished = old.finished /\ read.disconnected = old.disconnected
  BY <1>9, <1>10 DEF ServerType
<1> HIDE DEF read
<1>12. PICK x : x = new
  OBVIOUS
<1>13. x.finished + x.disconnected = IF id \in PeerNotConnected /\ ~forgotten
                                     THEN old.finished + old.disconnected + 1
                                     ELSE old.finished + old.disconnected
  BY <1>11, <1>12, EndedOnce
<1> HIDE DEF new
<1>14. PICK n : n = Len(servers_list)
  OBVIOUS
<1>15. PICK w : w = EndedOf(servers_list)
  OBVIOUS
<1>16. PICK v : v = EndedOf(servers_list')
  OBVIOUS
<1>17. /\ n \in Nat /\ DOMAIN servers_list = 1 .. n /\ DOMAIN servers_list' = 1 .. n
       /\ Len(servers_list') = n
  BY <1>7, <1>8, <1>14
<1>18. w \in [1 .. n -> Nat] /\ v \in [1 .. n -> Nat]
  BY <1>7, <1>14, <1>15, <1>16, <1>17, EndedType
<1>19. \A s \in 1 .. n : s # b => v[s] = w[s]
  BY <1>8, <1>15, <1>16, <1>17 DEF EndedOf
<1>20. /\ b \in 1 .. n
       /\ v[b] = IF id \in PeerNotConnected /\ ~forgotten THEN w[b] + 1 ELSE w[b]
  <2>1. servers_list'[b] = x
    BY <1>7, <1>8, <1>12
  <2>2. v[b] = x.finished + x.disconnected /\ w[b] = old.finished + old.disconnected
    BY <1>7, <1>15, <1>16, <1>17, <2>1 DEF EndedOf, old
  <2>3. QED BY <1>7, <1>13, <1>17, <2>2
<1>21. Awaited = (IF id \in PeerNotConnected THEN {p} ELSE {}) /\ Awaited' = {}
  BY <1>1, <1>2, <1>5 DEF Awaited, NoMessage, PeerNotConnected, PeerDisconnected
<1>22. ToSet(peer_list') = IF id \in PeerNotConnected /\ forgotten
                           THEN ToSet(peer_list) \ {p} ELSE ToSet(peer_list)
  <2>1. peer_list \in Seq(Infos) /\ ToSet(peer_list) \subseteq Infos
    BY ListMembers DEF Inv, Listed
  <2>2. ToSet(Projection(peer_list, Infos \ {p})) = ToSet(peer_list) \cap (Infos \ {p})
    BY <2>1, ProjectedMembers
  <2>3. ToSet(peer_list) \cap (Infos \ {p}) = ToSet(peer_list) \ {p}
    BY <2>1
  <2>4. QED BY <1>5, <1>6, <2>2, <2>3
<1>23. CASE id \in PeerNotConnected /\ ~forgotten
  <2>1. Cardinality(MarksIn(v)) = Cardinality(MarksIn(w)) + 1
    BY <1>17, <1>18, <1>19, <1>20, <1>23, MarksChanged
  <2>2. Cleaned' = Cleaned /\ Awaited = {p}
    BY <1>5, <1>21, <1>22, <1>23 DEF Cleaned
  <2>3. PICK C : C = Cleaned
    OBVIOUS
  <2>4. IsFiniteSet(C) /\ Cardinality(C) \in Nat
    BY <2>3, CleanedCounted
  <2>5. /\ Cardinality(C \ {p}) = IF p \in C THEN Cardinality(C) - 1 ELSE Cardinality(C)
    BY <2>4, FS_RemoveElement
  <2>6. Cardinality(MarksIn(w)) >= Cardinality(C \ {p})
    BY <1>15, <2>2, <2>3 DEF Covered
  <2>7. Cardinality(MarksIn(w)) \in Nat
    BY <1>17, <1>18, MarksCounted
  <2>8. Cardinality(MarksIn(v)) >= Cardinality(C)
    BY <2>1, <2>4, <2>5, <2>6, <2>7
  <2>9. Cleaned' \ Awaited' = C
    BY <1>21, <2>2, <2>3
  <2>10. QED BY <1>16, <2>8, <2>9 DEF Covered
<1>24. CASE ~(id \in PeerNotConnected /\ ~forgotten)
  <2>1. v = w
    <3>1. \A s \in 1 .. n : v[s] = w[s]
      BY <1>19, <1>20, <1>24
    <3>2. v = [s \in 1 .. n |-> v[s]] /\ w = [s \in 1 .. n |-> w[s]]
      BY <1>18, Zenon
    <3>3. QED BY <3>1, <3>2, Zenon
  <2>2. Cleaned' \ Awaited' \subseteq Cleaned \ Awaited
    BY <1>5, <1>21, <1>22, <1>24 DEF Cleaned
  <2>3. QED BY <1>15, <1>16, <2>1, <2>2, UncountedCovered
<1>25. QED BY <1>23, <1>24

(* Nothing is left that a clean would take.                                *)
LEMMA CleanCovered ==
  ASSUME Inv, Inv', CleanConnections
  PROVE  Covered'
<1>1. peer_list \in Seq(Infos) /\ peer_list' = Projection(peer_list, Infos \ Cleaned)
      /\ UNCHANGED info
  BY DEF Inv, Listed, CleanConnections
<1>2. ToSet(peer_list') = ToSet(peer_list) \cap (Infos \ Cleaned)
  BY <1>1, ProjectedMembers
<1>3. Cleaned' = {}
  BY <1>1, <1>2 DEF Cleaned
<1>4. Cleaned' \ Awaited' = {}
  BY <1>3
<1>5. Cardinality({}) = 0
  BY FS_EmptySet
<1>6. Cardinality(MarksIn(EndedOf(servers_list'))) \in Nat
  BY EndedType DEF Inv, ServersKept
<1>7. QED BY <1>4, <1>5, <1>6 DEF Covered

LEMMA OthersCovered ==
  ASSUME Inv, Covered,
         RecreateFails \/ SetServer \/ Managers \/ PurgeConnections \/ RetryElapses
           \/ UNCHANGED vars
  PROVE  Covered'
<1>1. CASE RecreateFails \/ SetServer \/ Managers \/ UNCHANGED vars
  <2>1. UNCHANGED <<peer_list, info, servers_list, list>>
    BY <1>1 DEF RecreateFails, SetServer, Managers, Serve, ClosePInfo, vars, directory, counters
  <2>2. Cleaned' = Cleaned /\ Awaited' = Awaited
    BY <2>1 DEF Cleaned, Awaited
  <2>3. QED BY <2>1, <2>2, UncountedCovered
<1>2. CASE PurgeConnections
  <2>1. /\ info' = [p \in DOMAIN info |-> [info[p] EXCEPT !.old = TRUE]]
        /\ UNCHANGED <<peer_list, servers_list, list>>
    BY <1>2 DEF PurgeConnections, counters
  <2>2. ASSUME NEW p \in ToSet(peer_list)
        PROVE  info'[p].status = info[p].status
    <3>1. p \in DOMAIN info
      BY DEF Inv, Listed
    <3>2. info'[p] = [info[p] EXCEPT !.old = TRUE]
      BY <2>1, <3>1
    <3>3. QED BY <3>2
  <2>3. Cleaned' = Cleaned /\ Awaited' = Awaited
    BY <2>1, <2>2 DEF Cleaned, Awaited
  <2>4. QED BY <2>1, <2>3, UncountedCovered
<1>3. CASE RetryElapses
  <2>1. PICK b \in DOMAIN servers_list :
          servers_list' = [servers_list EXCEPT ![b].failed = FALSE]
    BY <1>3 DEF RetryElapses
  <2> DEFINE new == [servers_list[b] EXCEPT !.failed = FALSE]
  <2>2. servers_list' = [servers_list EXCEPT ![b] = new]
    BY <2>1
  <2>3. new.finished = servers_list[b].finished
        /\ new.disconnected = servers_list[b].disconnected
    OBVIOUS
  <2> HIDE DEF new
  <2>4. EndedOf(servers_list') = EndedOf(servers_list)
    <3>1. /\ DOMAIN servers_list' = DOMAIN servers_list
          /\ \A s \in DOMAIN servers_list :
               /\ servers_list'[s].finished = servers_list[s].finished
               /\ servers_list'[s].disconnected = servers_list[s].disconnected
      BY <2>2, <2>3
    <3>2. QED BY <3>1, EndedSame
  <2>5. UNCHANGED <<peer_list, info, list>>
    BY <1>3 DEF RetryElapses, directory
  <2>6. Cleaned' = Cleaned /\ Awaited' = Awaited
    BY <2>5 DEF Cleaned, Awaited
  <2>7. QED BY <2>4, <2>6, UncountedCovered
<1>4. QED BY <1>1, <1>2, <1>3

LEMMA StepCovered == Inv /\ Covered /\ [Next]_vars => Covered'
<1> SUFFICES ASSUME Inv, Covered, [Next]_vars PROVE Covered'
  OBVIOUS
<1>1. Inv'
  BY StepKeeps
<1>2. CASE Search BY <1>2, SearchCovered
<1>3. CASE CountConnecting BY <1>3, CountConnectingCovered
<1>4. CASE Recreate BY <1>4, RecreateCovered
<1>5. CASE Assign BY <1>5, AssignCovered
<1>6. CASE Add BY <1>6, AddCovered
<1>7. CASE ProcessMessage BY <1>7, TakenCovered
<1>8. CASE CountMessage BY <1>1, <1>8, CountCovered
<1>9. CASE CleanConnections BY <1>1, <1>9, CleanCovered
<1>10. CASE RecreateFails \/ SetServer \/ Managers \/ PurgeConnections \/ RetryElapses
              \/ UNCHANGED vars
  BY <1>10, OthersCovered
<1>11. QED
  BY <1>2, <1>3, <1>4, <1>5, <1>6, <1>7, <1>8, <1>9, <1>10 DEF Next, GetServer, Execute

LEMMA AdminStepCovered == AdminInv /\ Covered /\ [AdminNext]_<<vars, adminVars>> => Covered'
<1> SUFFICES ASSUME AdminInv, Covered, [AdminNext]_<<vars, adminVars>> PROVE Covered'
  OBVIOUS
<1>1. Inv
  BY DEF AdminInv
<1>2. CASE [Next]_vars
  BY <1>1, <1>2, StepCovered
<1>3. CASE Request
  <2>1. UNCHANGED <<peer_list, info, servers_list, list>>
    BY <1>3 DEF Request, directory, counters
  <2>2. Cleaned' = Cleaned /\ Awaited' = Awaited
    BY <2>1 DEF Cleaned, Awaited
  <2>3. QED BY <1>1, <2>1, <2>2, UncountedCovered
<1>4. CASE Show
  BY <1>2, <1>4 DEF Show
<1>5. CASE UNCHANGED <<vars, adminVars>>
  BY <1>2, <1>5
<1>6. QED BY <1>2, <1>3, <1>4, <1>5 DEF AdminNext, Relb

LEMMA CoveredBegins == Init => Covered
<1> SUFFICES ASSUME Init PROVE Covered
  OBVIOUS
<1>1. servers_list \in Seq(ServerType(Ips))
  BY DirectoryAssumption DEF Init
<1>2. Cleaned = {}
  BY DEF Init, Cleaned, ToSet
<1>3. Cleaned \ Awaited = {}
  BY <1>2
<1>4. Cardinality(MarksIn(EndedOf(servers_list))) \in Nat
  BY <1>1, EndedType
<1>5. QED BY <1>3, <1>4, FS_EmptySet DEF Covered

LEMMA CoveredCovers == Inv /\ Covered => EndedAreCounted
<1> SUFFICES ASSUME Inv, Covered, list.pc = "idle"
             PROVE  Cardinality(CountedEnded) >= Cardinality(Cleaned)
  BY DEF EndedAreCounted
<1>1. CountedEnded = MarksIn(EndedOf(servers_list))
  <2>1. DOMAIN EndedOf(servers_list) = DOMAIN servers_list
    BY DEF EndedOf
  <2>2. \A s \in DOMAIN servers_list :
          EndedOf(servers_list)[s] = servers_list[s].finished + servers_list[s].disconnected
    BY DEF EndedOf
  <2>3. QED BY <2>1, <2>2 DEF CountedEnded, MarksIn
<1>2. Awaited = {}
  BY DEF Inv, Counting, Awaited, NoMessage, PeerNotConnected, PeerDisconnected
<1>3. Cleaned \ Awaited = Cleaned
  BY <1>2
<1>4. QED BY <1>1, <1>3 DEF Covered

-----------------------------------------------------------------------------
(* The directory never holds a peer_info twice or a deleted one, nobody    *)
(* connects with a deleted one, and the one a message is counted for is in *)
(* it until the count is done (getServer, processMessage,                  *)
(* cleanConnections).                                                      *)
THEOREM SessionsAreSound ==
  (Spec => []EntriesAreSound) /\ (AdminSpec => []EntriesAreSound)
<1>1. AdminInv => Inv
  BY DEF AdminInv
<1>2. QED BY <1>1, Invariant, AdminInvariant, InvIsSound, PTL

(* The filters hold for every session, the ones that getServer took up     *)
(* again without asking isServerAllowed included.                          *)
THEOREM SessionsAreAllowed ==
  (Spec => []EntriesAreAllowed) /\ (AdminSpec => []EntriesAreAllowed)
<1>1. AdminInv => Inv
  BY DEF AdminInv
<1>2. QED BY <1>1, Invariant, AdminInvariant, InvIsAllowed, PTL

(* A connection that has not ended is in the directory: neither getServer  *)
(* nor the messages and tasks of the ServerList ever drop it.              *)
THEOREM LiveStayListed ==
  (Spec => []LiveIsListed) /\ (AdminSpec => []LiveIsListed)
<1>1. AdminInv => Inv
  BY DEF AdminInv
<1>2. QED BY <1>1, Invariant, AdminInvariant, InvIsListed, PTL

(* A session that is over is marked so once processMessage has processed   *)
(* what was posted about it.                                               *)
THEOREM EndedGetMarked ==
  (Spec => []EndedIsMarked) /\ (AdminSpec => []EndedIsMarked)
<1>1. AdminInv => Inv
  BY DEF AdminInv
<1>2. QED BY <1>1, Invariant, AdminInvariant, InvIsMarked, PTL

(* What getServer, processMessage and cleanConnections take out of the     *)
(* directory has ended.                                                    *)
THEOREM OpenAreNotReplaced ==
  (Spec => OnlyEndedAreReplaced) /\ (AdminSpec => OnlyEndedAreReplaced)
<1>1. Inv /\ [Next]_vars => [EndedOnly]_vars
  BY StepReplacesEnded
<1>2. OnlyEndedAreReplaced <=> [][EndedOnly]_vars
  BY PTL DEF OnlyEndedAreReplaced, EndedOnly
<1>3. Spec => OnlyEndedAreReplaced
  BY <1>1, <1>2, Invariant, PTL DEF Spec
<1>4. AdminSpec => OnlyEndedAreReplaced
  BY <1>2, AdminStepReplaces, AdminInvariant, PTL DEF AdminSpec
<1>5. QED BY <1>3, <1>4

(* A kick or ban of a page meets only what ServerList still has, however   *)
(* late it is read.                                                        *)
THEOREM RequestsReachTheListed == AdminSpec => RequestsMeetTheListed
<1>1. QED BY AdminStepMeets, AdminInvariant, PTL
          DEF AdminSpec, RequestsMeetTheListed, RequestsMet

(* The admin shows every connection that has not ended, once it has read   *)
(* what ServerList forwarded about it: its own cleaning up takes off only  *)
(* what has ended.                                                         *)
THEOREM LiveAreShown == AdminSpec => []LiveIsShown
<1>1. QED BY AdminShows, AdminInvariant, PTL

(* What the admin shows has the status that ServerList gave it.            *)
THEOREM StatusesAreMirrored == AdminSpec => []StatusIsMirrored
<1>1. QED BY AdminShows, AdminInvariant, PTL

(* What ServerList has dropped (getServer, countMessage, cleanConnections) *)
(* does not stay on the admin's list, unless it was dropped for a purge or *)
(* its client has a session that was banned or used again.                 *)
THEOREM ShownAreListed == AdminSpec => []ShownIsListed
<1>1. QED BY LeaversInvariant, LeaversGo, PTL

(* Not more is taken off finished and disconnected than leaves the         *)
(* directory, however often sessions end, are taken up again, replaced and *)
(* cleaned (getServer, countMessage, cleanConnections).                    *)
THEOREM EndedStayCounted ==
  (Spec => []EndedAreCounted) /\ (AdminSpec => []EndedAreCounted)
<1>1. AdminInv => Inv
  BY DEF AdminInv
<1>2. Spec => [](Inv /\ Covered)
  BY Begins, StepKeeps, CoveredBegins, StepCovered, PTL DEF Spec
<1>3. AdminInit => Covered
  BY CoveredBegins DEF AdminInit
<1>4. AdminSpec => [](AdminInv /\ Covered)
  BY <1>3, AdminBegins, AdminStepKeeps, AdminStepCovered, PTL DEF AdminSpec
<1>5. QED BY <1>1, <1>2, <1>4, CoveredCovers, PTL
=============================================================================
