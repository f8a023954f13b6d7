--------------------------- MODULE PeerOperations ---------------------------
(***************************************************************************)
(* The methods of ConnectionPeer (src/src/ConnectionPeer.cpp) as operators *)
(* on a peer record.  A peer owns the client socket, the server socket and *)
(* one linear buffer per direction.                                        *)
(*                                                                         *)
(* A byte is its position in the stream it belongs to: the k-th byte the   *)
(* client sends is k.  A method that makes a non-blocking system call      *)
(* returns the set of the peers it may leave, one for every result of the  *)
(* call.  The methods of one peer run in one thread, the one of its        *)
(* ThreadedConnectionManager, so a method is one step; the messages it     *)
(* posts to the ServerList are collected in the field "posted".            *)
(***************************************************************************)
EXTENDS Integers, Sequences

CONSTANTS
  STAMBUFFERSOCKET, (* The size of a buffer (utiles.h).                    *)
  StreamLength      (* Bound: the bytes a socket has to offer in a run.    *)

ASSUME BufferAssumption ==
  /\ STAMBUFFERSOCKET \in Nat \ {0}
  /\ StreamLength \in Nat

Status == {"CONNECTION_ESTABLISHED", "CONNECTION_FAILED",
           "CLIENT_DISCONNECTED_OK", "SERVER_DISCONNECTED_OK",
           "CLIENT_CONNECTION_LOST", "SERVER_CONNECTION_LOST",
           "PEER_CONNECTION_CANCELLED"}

-----------------------------------------------------------------------------
(***************************************************************************)
(* A buffer: its memory, the write and read offsets, the room left, the    *)
(* bytes pending.  "taken" (how many bytes were read into it) and "given"  *)
(* (the bytes that were handed to the other socket) are history.           *)
(***************************************************************************)

NewBuffer ==
  [data |-> [i \in 0 .. STAMBUFFERSOCKET - 1 |-> 0],
   w_offset |-> 0, r_offset |-> 0,
   to_receive |-> STAMBUFFERSOCKET, to_send |-> 0,
   taken |-> 0, given |-> <<>>]

ResetBuffer(b) ==
  [data |-> b.data, w_offset |-> 0, r_offset |-> 0,
   to_receive |-> STAMBUFFERSOCKET, to_send |-> 0,
   taken |-> b.taken, given |-> b.given]

(* Mutation: recv() is given the start of the buffer. *)
FilledAtStart(b, n) ==
  [i \in 0 .. STAMBUFFERSOCKET - 1 |->
     IF i \in 0 .. n - 1 THEN b.taken + 1 + i ELSE b.data[i]]

(* recv() puts the next n bytes at the write offset. *)
Filled(b, n) ==
  [i \in 0 .. STAMBUFFERSOCKET - 1 |->
     IF i \in b.w_offset .. b.w_offset + n - 1
     THEN b.taken + 1 + i - b.w_offset
     ELSE b.data[i]]

Receive(b, n) ==
  [data |-> Filled(b, n),
   w_offset |-> b.w_offset + n, r_offset |-> b.r_offset,
   to_receive |-> b.to_receive - n, to_send |-> b.to_send + n,
   taken |-> b.taken + n, given |-> b.given]

(* send() gets the first n bytes at the read offset. *)
FirstPending(b, n) == [j \in 1 .. n |-> b.data[b.r_offset + j - 1]]

Handed(b, n) == b.given \o FirstPending(b, n)

(* Mutation: the read offset is not advanced. *)
TakeAgain(b, n) ==
  [b EXCEPT !.to_send = @ - n,
            !.given = Handed(b, n)]

Take(b, n) ==
  [data |-> b.data,
   w_offset |-> b.w_offset, r_offset |-> b.r_offset + n,
   to_receive |-> b.to_receive, to_send |-> b.to_send - n,
   taken |-> b.taken, given |-> Handed(b, n)]

(* Mutations: the rewind forgets the room left; it does not wait for the    *)
(* buffer to be drained; it is missing.                                     *)
DeliverKeepsRoom(b, n) ==
  LET c == Take(b, n)
  IN  IF c.w_offset # 0 /\ c.to_send = 0
      THEN [c EXCEPT !.w_offset = 0, !.r_offset = 0] ELSE c

DeliverRewindsEarly(b, n) ==
  LET c == Take(b, n) IN IF c.w_offset # 0 THEN ResetBuffer(c) ELSE c

DeliverNeverRewinds(b, n) == Take(b, n)

(* The buffer is rewound only when it is drained. *)
Deliver(b, n) ==
  LET c == Take(b, n)
  IN  IF c.w_offset # 0 /\ c.to_send = 0 THEN ResetBuffer(c) ELSE c

-----------------------------------------------------------------------------
(* The peer. *)

NewPeer ==
  [client |-> TRUE, server |-> TRUE, serverConnected |-> FALSE,
   forServer |-> NewBuffer, forClient |-> NewBuffer,
   posted |-> <<>>, faulted |-> FALSE]

IsActive(p) == p.client \/ p.server

Post(p, m) == [p EXCEPT !.posted = Append(@, m)]

DropClient(p) == [p EXCEPT !.client = FALSE, !.forClient = ResetBuffer(@)]
DropServer(p) == [p EXCEPT !.server = FALSE, !.forServer = ResetBuffer(@)]

(* Mutation: the server is closed although bytes are pending for it.        *)
CloseClientDropsPending(p) == IF ~p.client THEN p ELSE DropServer(DropClient(p))

(***************************************************************************)
(* closeClient and closeServer call each other; the pointer is NULL by     *)
(* then, so the inner call only drops the other side.                      *)
(***************************************************************************)
CloseClient(p) ==
  LET q == DropClient(p)
  IN  IF ~p.client THEN p
      ELSE IF q.server /\ (q.forServer.to_send = 0 \/ ~q.serverConnected)
           THEN DropServer(q)
           ELSE q

CloseServer(p) ==
  LET q == DropServer(p)
  IN  IF ~p.server THEN p
      ELSE IF q.client /\ q.forClient.to_send = 0 THEN DropClient(q) ELSE q

Close(p) == CloseServer(CloseClient(p))

(* A kick: posts its message even when the peer was closed before. *)
ClosePInfo(p) == Post(Close(p), "SERVER_DISCONNECTED_OK")

-----------------------------------------------------------------------------
(***************************************************************************)
(* Socket: a positive result is a number of bytes, 0 is "would block", -1  *)
(* an error, -2 a peer that closed.                                        *)
(***************************************************************************)
ReceiveNB(max, available) ==
  {-2, -1, 0} \cup {n \in 1 .. max : n <= available}

(* send() of at least one byte on a stream socket never returns 0, so -2 is *)
(* no result of it.                                                         *)
SendNB(max) == {-1, 0} \cup 1 .. max

-----------------------------------------------------------------------------
(* The four transfers, for one result of the system call... *)

ClientRead(p, ret) ==
  CASE ret > 0 -> [p EXCEPT !.forServer = Receive(@, ret)]
    [] ret = 0 -> p
    [] ret < 0 ->
         Post(CloseClient(p),
              IF ~p.serverConnected THEN "CONNECTION_FAILED"
              ELSE IF ret = -2 THEN "CLIENT_DISCONNECTED_OK"
              ELSE "CLIENT_CONNECTION_LOST")

ServerRead(p, ret) ==
  CASE ret > 0 -> [p EXCEPT !.forClient = Receive(@, ret)]
    [] ret = 0 -> p
    [] ret < 0 ->
         Post(CloseServer(p),
              IF ret = -2 THEN "SERVER_DISCONNECTED_OK"
              ELSE "SERVER_CONNECTION_LOST")

(* What was left for a side whose partner is gone has been sent. *)
ClientWritten(p) ==
  IF ~p.server /\ p.forClient.to_send = 0
  THEN Post(CloseClient(p), "PEER_CONNECTION_CANCELLED")
  ELSE p

ServerWritten(p) ==
  IF ~p.client /\ p.forServer.to_send = 0
  THEN Post(CloseServer(p), "PEER_CONNECTION_CANCELLED")
  ELSE p

ClientWrite(p, ret) ==
  CASE ret > 0 -> ClientWritten([p EXCEPT !.forClient = Deliver(@, ret)])
    [] ret = 0 -> p
    [] ret < 0 ->
         Post(CloseClient(p),
              IF ret = -2 THEN "CLIENT_DISCONNECTED_OK"
              ELSE "CLIENT_CONNECTION_LOST")

ServerWrite(p, ret) ==
  CASE ret > 0 -> ServerWritten([p EXCEPT !.forServer = Deliver(@, ret)])
    [] ret = 0 -> p
    [] ret < 0 ->
         Post(CloseServer(p),
              IF ret = -2 THEN "SERVER_DISCONNECTED_OK"
              ELSE "SERVER_CONNECTION_LOST")

(* ... and for every result it may have. *)

GetMissingDataFromClient(p) ==
  IF p.client /\ p.forServer.to_receive # 0
  THEN {ClientRead(p, ret) : ret \in
          ReceiveNB(p.forServer.to_receive, StreamLength - p.forServer.taken)}
  ELSE {p}

GetMissingDataFromServer(p) ==
  IF p.server /\ p.forClient.to_receive # 0
  THEN {ServerRead(p, ret) : ret \in
          ReceiveNB(p.forClient.to_receive, StreamLength - p.forClient.taken)}
  ELSE {p}

SendMissingDataToClient(p) ==
  IF p.client /\ p.forClient.to_send # 0
  THEN {ClientWrite(p, ret) : ret \in SendNB(p.forClient.to_send)}
  ELSE {p}

SendMissingDataToServer(p) ==
  IF p.server /\ p.forServer.to_send # 0
  THEN {ServerWrite(p, ret) : ret \in SendNB(p.forServer.to_send)}
  ELSE {p}

-----------------------------------------------------------------------------
(***************************************************************************)
(* What a peer asks select() to watch, and what it does with the answer.   *)
(* setr and setw are the sides of the peer that are in the fd_sets.        *)
(***************************************************************************)

Sides == {"client", "server"}

AddToFDSETR(p) ==
  {s \in Sides :
     \/ s = "client" /\ p.client /\ p.forServer.to_receive # 0
     \/ s = "server" /\ p.server /\ p.forClient.to_receive # 0}

(* Mutation: the server is watched only while the client is there. *)
AddToFDSETWWhilePaired(p) ==
  {s \in Sides :
     \/ s = "client" /\ p.client /\ p.forClient.to_send # 0
     \/ s = "server" /\ p.server /\ p.client /\ p.forServer.to_send # 0}

AddToFDSETW(p) ==
  {s \in Sides :
     \/ s = "client" /\ p.client /\ p.forClient.to_send # 0
     \/ s = "server" /\ p.server /\ p.forServer.to_send # 0}

(* While connecting: the client to read, the server to write. *)
AddToFDSETCR(p) ==
  {s \in {"client"} : p.client /\ p.forServer.to_receive # 0}

AddToFDSETCW(p) == {s \in {"server"} : p.server}

(* The client half of a peer with both sockets... *)
ServeClient(p, setr, setw) ==
  IF "client" \in setr
  THEN UNION {SendMissingDataToServer(q) : q \in GetMissingDataFromClient(p)}
  ELSE IF "server" \in setw THEN SendMissingDataToServer(p) ELSE {p}

(***************************************************************************)
(* ... and the server half.  pClient may be NULL by now: the code reads    *)
(* the socket through it all the same (line 398).                          *)
(***************************************************************************)
ServeServer(p, setr, setw) ==
  IF ~p.server THEN {p}
  ELSE IF "server" \in setr
  THEN UNION {SendMissingDataToClient(q) : q \in GetMissingDataFromServer(p)}
  ELSE IF ~p.client THEN {[p EXCEPT !.faulted = TRUE]}
  ELSE IF "client" \in setw THEN SendMissingDataToClient(p) ELSE {p}

(* One socket is left: it is closed when nothing is pending for it. *)
FlushClient(p, setw) ==
  {IF q.forClient.to_send = 0
   THEN Post(CloseClient(q), "PEER_CONNECTION_CANCELLED")
   ELSE q : q \in IF "client" \in setw THEN SendMissingDataToClient(p)
                                       ELSE {p}}

FlushServer(p, setw) ==
  {IF q.forServer.to_send = 0
   THEN Post(CloseServer(q), "PEER_CONNECTION_CANCELLED")
   ELSE q : q \in IF "server" \in setw THEN SendMissingDataToServer(p)
                                       ELSE {p}}

ManageConnections(p, setr, setw) ==
  IF p.client /\ p.server
  THEN UNION {ServeServer(q, setr, setw) : q \in ServeClient(p, setr, setw)}
  ELSE IF p.client THEN FlushClient(p, setw)
  ELSE IF p.server THEN FlushServer(p, setw)
  ELSE {p}

-----------------------------------------------------------------------------
(***************************************************************************)
(* manageConnectingPeer returns a peer and whether its status changed.     *)
(***************************************************************************)

Connect(p) ==
  Post([p EXCEPT !.serverConnected = TRUE], "CONNECTION_ESTABLISHED")

ManageConnectingPair(p, setr, setw) ==
  {IF q.server /\ "server" \in setw
   THEN [peer |-> Connect(q), changed |-> TRUE]
   ELSE [peer |-> q, changed |-> FALSE] :
     q \in IF "client" \in setr THEN GetMissingDataFromClient(p) ELSE {p}}

ManageConnectingClient(p, setw) ==
  {IF q.forClient.to_send = 0
   THEN [peer |-> Post(CloseClient(q), "PEER_CONNECTION_CANCELLED"),
         changed |-> TRUE]
   ELSE [peer |-> q, changed |-> FALSE] :
     q \in IF "client" \in setw THEN SendMissingDataToClient(p) ELSE {p}}

ManageConnectingPeer(p, setr, setw) ==
  IF p.client /\ p.server THEN ManageConnectingPair(p, setr, setw)
  ELSE IF p.client THEN ManageConnectingClient(p, setw)
  ELSE IF p.server
  THEN {[peer |-> Post(CloseServer(p), "PEER_CONNECTION_CANCELLED"),
         changed |-> FALSE]}
  ELSE {[peer |-> p, changed |-> FALSE]}

-----------------------------------------------------------------------------
(* checkPeers and checkConnectingPeers: "bad" are the sides select() fails on. *)

(* Mutation: the loss of the server is not posted. *)
CheckServerSilently(p, bad) ==
  IF p.server /\ "server" \in bad THEN CloseServer(p) ELSE p

(* Mutation: the loss of a server that is gone already is posted again. *)
CheckServerUnguarded(p, bad) ==
  IF "server" \in bad THEN Post(CloseServer(p), "SERVER_CONNECTION_LOST") ELSE p

CheckServer(p, bad) ==
  IF p.server /\ "server" \in bad
  THEN Post(CloseServer(p), "SERVER_CONNECTION_LOST") ELSE p

CheckClient(p, bad) ==
  IF p.client /\ "client" \in bad
  THEN Post(CloseClient(p), "CLIENT_CONNECTION_LOST") ELSE p

CheckPeers(p, bad) == CheckClient(CheckServer(p, bad), bad)
=============================================================================
