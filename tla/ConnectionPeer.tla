--------------------------- MODULE ConnectionPeer ---------------------------
(***************************************************************************)
(* The life of one ConnectionPeer in the loop of its                       *)
(* ThreadedConnectionManager: it starts in connecting_peer_list, moves to  *)
(* peer_list when the server socket is writable, is served after every     *)
(* select() and is deleted when both of its sockets are closed.            *)
(***************************************************************************)
EXTENDS PeerOperations

CONSTANT MaxKicks (* Bound: the close requests the peer gets in a run. *)

ASSUME KicksAssumption == MaxKicks \in Nat

VARIABLES
  peer,  (* The peer, a record of PeerOperations.                  *)
  list,  (* The list of the manager that holds it.                 *)
  kicks  (* How many close requests reached it.                    *)

vars == <<peer, list, kicks>>

Init ==
  /\ peer = NewPeer
  /\ list = "connecting"
  /\ kicks = 0

(* The process is gone once it has read through a NULL pointer. *)
Running == ~peer.faulted

(* One round of the loop for a peer of connecting_peer_list. *)
ManageConnecting ==
  /\ Running
  /\ list = "connecting"
  /\ IsActive(peer)
  /\ \E setr \in SUBSET AddToFDSETCR(peer), setw \in SUBSET AddToFDSETCW(peer) :
       \E o \in ManageConnectingPeer(peer, setr, setw) :
         /\ peer' = o.peer
         /\ list' = IF o.changed THEN "connected" ELSE "connecting"
  /\ UNCHANGED kicks

(* One round of the loop for a peer of peer_list. *)
Manage ==
  /\ Running
  /\ list = "connected"
  /\ IsActive(peer)
  /\ \E setr \in SUBSET AddToFDSETR(peer), setw \in SUBSET AddToFDSETW(peer) :
       peer' \in ManageConnections(peer, setr, setw)
  /\ UNCHANGED <<list, kicks>>

(* A request of to_be_closed that names this peer. *)
Kick ==
  /\ Running
  /\ list # "deleted"
  /\ kicks < MaxKicks
  /\ kicks' = kicks + 1
  /\ peer' = ClosePInfo(peer)
  /\ UNCHANGED list

(* select() failed with EBADF: every socket is checked on its own. *)
Check ==
  /\ Running
  /\ list # "deleted"
  /\ IsActive(peer)
  /\ \E bad \in SUBSET Sides : peer' = CheckPeers(peer, bad)
  /\ UNCHANGED <<list, kicks>>

(* The loop deletes a peer it finds inactive. *)
Delete ==
  /\ Running
  /\ list # "deleted"
  /\ ~IsActive(peer)
  /\ list' = "deleted"
  /\ UNCHANGED <<peer, kicks>>

Next == ManageConnecting \/ Manage \/ Kick \/ Check \/ Delete

Spec == Init /\ [][Next]_vars

-----------------------------------------------------------------------------
(***************************************************************************)
(* Fairness: the loop runs for ever, and both ends of the connection go on *)
(* reading what they are sent, the client and the server writing what they *)
(* have to say: select() reports the socket and the call moves a byte.     *)
(***************************************************************************)

ServerTakes == Manage /\ Len(peer'.forServer.given) > Len(peer.forServer.given)
ClientTakes == Manage /\ Len(peer'.forClient.given) > Len(peer.forClient.given)
ClientOffers == Manage /\ peer'.forServer.taken > peer.forServer.taken
ServerOffers == Manage /\ peer'.forClient.taken > peer.forClient.taken

Fairness ==
  /\ WF_vars(Delete)
  /\ WF_vars(ServerTakes) /\ WF_vars(ClientTakes)
  /\ WF_vars(ClientOffers) /\ WF_vars(ServerOffers)

FairSpec == Spec /\ Fairness

-----------------------------------------------------------------------------
(* Type invariant. *)

BufferType ==
  [data : [0 .. STAMBUFFERSOCKET - 1 -> Nat],
   w_offset : Nat, r_offset : Nat, to_receive : Nat, to_send : Nat,
   taken : Nat, given : Seq(Nat)]

PeerType ==
  [client : BOOLEAN, server : BOOLEAN, serverConnected : BOOLEAN,
   forServer : BufferType, forClient : BufferType,
   posted : Seq(Status), faulted : BOOLEAN]

(* Every variable holds a value of its type. *)
TypeOK ==
  /\ peer \in PeerType
  /\ list \in {"connecting", "connected", "deleted"}
  /\ kicks \in 0 .. MaxKicks

-----------------------------------------------------------------------------
(* Safety. *)

(***************************************************************************)
(* The four counters of a buffer agree, so that recv() and send() never    *)
(* get a range outside the array (the "out-of-buffer scenarios" of the     *)
(* ChangeLog): what is pending lies between the offsets and the room left  *)
(* starts at the write offset.                                             *)
(***************************************************************************)
Accounting(b) ==
  /\ 0 <= b.r_offset /\ b.r_offset <= b.w_offset
  /\ b.w_offset <= STAMBUFFERSOCKET
  /\ b.to_send = b.w_offset - b.r_offset
  /\ b.to_receive = STAMBUFFERSOCKET - b.w_offset

BufferAccounting == Accounting(peer.forServer) /\ Accounting(peer.forClient)

(***************************************************************************)
(* What was handed over is a prefix of what was read: no byte is lost,     *)
(* repeated or moved, whatever the sizes of the reads, the partial writes  *)
(* and the rewinds of the buffer were.                                     *)
(***************************************************************************)
InOrder(b) == \A i \in 1 .. Len(b.given) : b.given[i] = i

RelayedInOrder == InOrder(peer.forServer) /\ InOrder(peer.forClient)

(***************************************************************************)
(* While a socket is open every byte read for it has been handed over or   *)
(* is pending, in order, between the offsets.                              *)
(***************************************************************************)
Pending(b) ==
  /\ b.taken = Len(b.given) + b.to_send
  /\ \A j \in 0 .. b.to_send - 1 : b.data[b.r_offset + j] = Len(b.given) + 1 + j

NothingMissing ==
  /\ peer.server => Pending(peer.forServer)
  /\ peer.client => Pending(peer.forClient)

Ends == {"CLIENT_DISCONNECTED_OK", "SERVER_DISCONNECTED_OK",
         "CLIENT_CONNECTION_LOST", "SERVER_CONNECTION_LOST",
         "CONNECTION_FAILED"}

PostedAt(m) == {i \in DOMAIN peer.posted : peer.posted[i] \in m}

(***************************************************************************)
(* The ServerList counts a connection down only on the messages of Ends    *)
(* (it ignores PEER_CONNECTION_CANCELLED): a peer that is over has posted  *)
(* one, whichever of its branches closed it.                               *)
(***************************************************************************)
EndIsAnnounced == ~IsActive(peer) => PostedAt(Ends) # {}

-----------------------------------------------------------------------------
(* Action properties. *)

NewMessages ==
  {peer'.posted[i] : i \in Len(peer.posted) + 1 .. Len(peer'.posted)}

(***************************************************************************)
(* A socket of an established connection that is closed although nothing   *)
(* was wrong with that side, and nobody asked for it, has been sent every  *)
(* byte that was read for it.                                              *)
(***************************************************************************)
FlushedBeforeClose ==
  [][ /\ (/\ peer.serverConnected /\ peer.server /\ ~peer'.server
          /\ NewMessages \cap {"SERVER_DISCONNECTED_OK",
                               "SERVER_CONNECTION_LOST"} = {})
         => Len(peer'.forServer.given) = peer'.forServer.taken
      /\ (/\ peer.client /\ ~peer'.client
          /\ kicks' = kicks
          /\ peer.serverConnected
          /\ NewMessages \cap {"CLIENT_DISCONNECTED_OK",
                               "CLIENT_CONNECTION_LOST"} = {})
         => Len(peer'.forClient.given) = peer'.forClient.taken ]_vars

(* The two directions implement the abstract relay. *)
ToServer == INSTANCE ByteRelay WITH
  Capacity <- STAMBUFFERSOCKET, taken <- peer.forServer.taken,
  given <- peer.forServer.given, open <- peer.server

ToClient == INSTANCE ByteRelay WITH
  Capacity <- STAMBUFFERSOCKET, taken <- peer.forClient.taken,
  given <- peer.forClient.given, open <- peer.client

(* Both directions are in-order relays of bounded capacity that stop at the *)
(* close of the sink.                                                       *)
ImplementsRelay == ToServer!Spec /\ ToClient!Spec

(* What the rest of the program sees of a peer. *)
PhaseOf(p) ==
  CASE ~IsActive(p)                -> "over"
    [] IsActive(p) /\ ~p.serverConnected -> "connecting"
    [] p.serverConnected /\ p.client /\ p.server  -> "open"
    [] p.serverConnected /\ p.client /\ ~p.server -> "flushClient"
    [] p.serverConnected /\ ~p.client /\ p.server -> "flushServer"

Life == INSTANCE PeerLife WITH phase <- PhaseOf(peer), posted <- peer.posted

(* A peer goes through the phases of PeerLife and posts nothing but what    *)
(* goes with them: each side announces its end at most once, the kick       *)
(* apart, no end comes before the phase it closes, and a cancellation only  *)
(* with the last socket.                                                    *)
ImplementsLife == Life!LifeSpec

(***************************************************************************)
(* Documented, and not what the code does.                                 *)
(***************************************************************************)

(* Line 397 of ConnectionPeer.cpp takes the client socket for granted: the  *)
(* code under it never reads through a NULL pointer.                        *)
ClientSocketExists == ~peer.faulted

-----------------------------------------------------------------------------
(* Liveness. *)

(* Every byte of the client reaches the server, unless a side closes first: *)
(* a full buffer is always drained, rewound and read into again.            *)
StreamIsRelayed ==
  list = "connected" ~>
    \/ Len(peer.forServer.given) = StreamLength
    \/ ~(peer.client /\ peer.server)
    \/ peer.faulted

(* A peer that lost one side is flushed, closed and deleted. *)
HalfOpenEnds ==
  peer.client # peer.server ~> list = "deleted" \/ peer.faulted
=============================================================================
