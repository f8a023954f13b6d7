---------------------------- MODULE AdminMirror -----------------------------
(***************************************************************************)
(* ServerList with the admin option: AdminHTTPServer keeps lists of its    *)
(* own, of sessions (the "parallel" of every peer_info) and of servers,    *)
(* and rewrites them from the messages that ServerList forwards to it.     *)
(* Its pages post kicks and bans back to ServerList.                       *)
(*                                                                         *)
(* A parallel is named by the peer_info it belongs to: the two point at    *)
(* each other and neither address is given out again (ServerList's Fresh). *)
(* The admin thread serves one page or one message at a time.              *)
(***************************************************************************)
EXTENDS ServerList

CONSTANTS
  Requests,        (* What the pages are asked for.                        *)
  MaxRequests,     (* Bound: the requests of a run.                        *)
  AdminQueueSize   (* Bound: the messages the admin's jq holds.            *)

ASSUME AdminAssumption ==
  /\ Requests \subseteq {"PEER_CONNECTION_KICKED", "PEER_CONNECTION_BAN_THIS",
                          "PEER_CONNECTION_BAN_ALL"}
  /\ MaxRequests \in Nat
  /\ AdminQueueSize \in Nat \ {0}

VARIABLES
  admin_jq,       (* The messages to the admin.                            *)
  admin_peers,    (* Its peer_list.                                        *)
  admin_status,   (* The status of every parallel that was made.           *)
  admin_servers,  (* Its server_list.                                      *)
  requests,       (* How many requests were made.                          *)
  banned          (* The sessions whose ban was taken.                     *)

mirror == <<admin_peers, admin_status, admin_servers>>
adminVars == <<admin_jq, mirror, requests, banned>>

AdminInit ==
  /\ Init
  /\ admin_jq = <<>>
  /\ admin_peers = <<>>
  /\ admin_status = <<>>
  /\ admin_servers = Servers
  /\ requests = 0
  /\ banned = {}

-----------------------------------------------------------------------------
(***************************************************************************)
(* What a step of RELB forwards: getServer a new or reused session,        *)
(* processMessage what is not a kick, cleanConnections what it deletes.    *)
(* The id of ban and the id of a deletion are the same number.             *)
(***************************************************************************)

Assigned ==
  IF bind'.info \notin {bind.info, NoInfo}
  THEN <<[id |-> "CONNECTING_SERVER", param |-> bind'.info]>> ELSE <<>>

Processed ==
  IF /\ list.pc = "idle" /\ list'.pc = "counting"
     /\ list'.msg.id # "PEER_CONNECTION_KICKED"
  THEN <<list'.msg>> ELSE <<>>

Deleted ==
  LET gone == Projection(peer_list, freed' \ freed)
  IN  [i \in DOMAIN gone |-> [id |-> "PEER_CONNECTION_BAN_THIS", param |-> gone[i]]]

(* Mutation: a clean is not told. *)
ForwardedWithoutDeleted == Assigned \o Processed

Forwarded == Assigned \o Processed \o Deleted

Relb ==
  /\ Next
  /\ admin_jq' = admin_jq \o Forwarded
  /\ Len(admin_jq') <= AdminQueueSize
  /\ banned' = IF list'.pc = "counting" /\ list'.msg.id \in Bans
               THEN banned \cup {list'.msg.param} ELSE banned
  /\ UNCHANGED <<mirror, requests>>

-----------------------------------------------------------------------------
(* A new session: what its client has behind it is taken off the lists. *)

Gone(p) == {q \in ToSet(admin_peers) :
              /\ info[q].client = info[p].client
              /\ admin_status[q] \in PeerNotConnected}

CountGone(p) == CountedOff(admin_servers, Projection(admin_peers, Gone(p)), admin_status)

ShowConnecting(p) ==
  /\ admin_peers' = Append(Projection(admin_peers, Infos \ Gone(p)), p)
  /\ admin_servers' =
       [CountGone(p) EXCEPT ![info[p].server].connecting = @ + 1]
  /\ admin_status' = IF p \in DOMAIN admin_status THEN admin_status
                     ELSE [q \in DOMAIN admin_status \cup {p} |->
                             IF q = p THEN "CONNECTING_SERVER" ELSE admin_status[q]]

(* Any other message is the status of a session that is shown. *)

EntryOf(p) == Min({j \in DOMAIN admin_peers : admin_peers[j] = p})

OtherShown(p, id) ==
  \E j \in DOMAIN admin_peers \ {EntryOf(p)} :
    LET q == admin_peers[j]
    IN  /\ (IF q = p THEN id ELSE admin_status[q]) \notin PeerNotConnected
        /\ info[q].client = info[p].client

(* Mutation: any message takes it off when there is another. *)
SuperfluousAlways(p, id) == id = "PEER_CONNECTION_BAN_THIS" \/ OtherShown(p, id)

Superfluous(p, id) ==
  \/ id = "PEER_CONNECTION_BAN_THIS"
  \/ id \in PeerNotConnected \cup Bans /\ OtherShown(p, id)

Unshown(p) == RemoveAt(admin_peers, EntryOf(p))

(* A ban, and so a deletion, is counted as an end of a connection. *)
CountShown(server, p, id) ==
  IF id \in Bans THEN Ended(server, id, Superfluous(p, id))
  ELSE Counted(server, id, Superfluous(p, id))

(* Mutation: the status is not set. *)
ShowStatusKeeps(p, id) ==
  IF p \in ToSet(admin_peers)
  THEN /\ admin_servers' =
            [admin_servers EXCEPT ![info[p].server] = CountShown(@, p, id)]
       /\ admin_peers' = IF Superfluous(p, id) THEN Unshown(p) ELSE admin_peers
       /\ UNCHANGED admin_status
  ELSE UNCHANGED mirror

ShowStatus(p, id) ==
  IF p \in ToSet(admin_peers)
  THEN /\ admin_status' = [admin_status EXCEPT ![p] = id]
       /\ admin_servers' =
            [admin_servers EXCEPT ![info[p].server] = CountShown(@, p, id)]
       /\ admin_peers' = IF Superfluous(p, id) THEN Unshown(p) ELSE admin_peers
  ELSE UNCHANGED mirror

Show ==
  /\ admin_jq # <<>>
  /\ admin_jq' = Tail(admin_jq)
  /\ LET msg == Head(admin_jq)
     IN  IF msg.id = "CONNECTING_SERVER" THEN ShowConnecting(msg.param)
                                         ELSE ShowStatus(msg.param, msg.id)
  /\ UNCHANGED <<vars, requests, banned>>

(* kick, ban and ban_all post to ServerList what is shown. *)
Request ==
  /\ requests < MaxRequests
  /\ requests' = requests + 1
  /\ Len(jq) < QueueSize
  /\ \E id \in Requests, p \in ToSet(admin_peers) :
       jq' = Append(jq, [id |-> id, param |-> p])
  /\ UNCHANGED <<directory, counters, connection, to_be_closed, bind, list, tasks,
                 admin_jq, mirror, banned>>

AdminNext == Relb \/ Show \/ Request

AdminSpec == AdminInit /\ [][AdminNext]_<<vars, adminVars>>

-----------------------------------------------------------------------------
InFlight(p) == \E i \in DOMAIN admin_jq : admin_jq[i].param = p

(* A ban has the number of a deletion: it takes its session off the lists  *)
(* of the admin, which then takes another one of its client for the only    *)
(* one.  And a peer_info that is used again keeps its old status there.     *)
Plain(p) ==
  ~Reused(p) /\ \A q \in banned : info[q].client # info[p].client

(***************************************************************************)
(* A connection that has not ended is shown, once the admin has read what  *)
(* was forwarded about it ("Maintains real-time lists of active network    *)
(* connections", source_code_explained.md:125): its own cleaning up, in an *)
(* order of its own, takes off only what has ended.                        *)
(***************************************************************************)
LiveIsShown ==
  \A c \in DOMAIN connection :
    LET p == connection[c].info
    IN  connection[c].phase \in {"connecting", "open"} /\ ~InFlight(p) /\ Plain(p)
          => p \in ToSet(admin_peers)

(***************************************************************************)
(* What is shown has the status that ServerList gave it: the two lists are *)
(* changed by different threads in different orders, and the messages      *)
(* still lead to the same status.                                          *)
(***************************************************************************)
StatusIsMirrored ==
  \A p \in ToSet(admin_peers) \ freed :
    ~InFlight(p) /\ ~Reused(p) => admin_status[p] = info[p].status

(***************************************************************************)
(* What ServerList has dropped is not shown for ever: except for what it   *)
(* dropped for a purge, the admin comes to the same end.  (Not for a client *)
(* with a session that was banned or used again: what the admin thinks of   *)
(* that one may keep it from taking the others off.)                        *)
(***************************************************************************)
ShownIsListed ==
  admin_jq = <<>> /\ Quiescent =>
    \A p \in ToSet(admin_peers) :
      \/ p \in ToSet(peer_list) \/ info[p].old
      \/ \E q \in DOMAIN info : info[q].client = info[p].client /\ ~Plain(q)

(***************************************************************************)
(* A page's request names a peer_info that may be deleted before it is     *)
(* read: no manager is asked to close, and no client is banned for, one    *)
(* that ServerList has no longer.                                          *)
(***************************************************************************)
RequestsMeetTheListed ==
  [][/\ to_be_closed' \ to_be_closed \subseteq ToSet(peer_list)
     /\ list'.pc = "counting" => list'.msg.param \in ToSet(peer_list)]_<<vars, adminVars>>
=============================================================================
