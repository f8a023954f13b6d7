----------------------------- MODULE PeerPhases -----------------------------
(***************************************************************************)
(* A ConnectionPeer as the rest of RELB sees it: which of its sockets are  *)
(* open, and the messages it posts about them.  ConnectionPeer implements  *)
(* it (PeerLife); ThreadedConnectionManager and ServerList are built on    *)
(* it.                                                                     *)
(* PEER_CONNECTION_CANCELLED is left out: nobody acts on it.               *)
(*                                                                         *)
(*   connecting   both sockets, the server is not writable yet             *)
(*   open         both sockets, relaying                                   *)
(*   flushClient  the server is gone, the client still gets what waits     *)
(*   flushServer  the client is gone, the server still gets what waits     *)
(*   over         no socket is left                                        *)
(***************************************************************************)
Phases == {"connecting", "open", "flushClient", "flushServer", "over"}

ClientEnds == {"CLIENT_DISCONNECTED_OK", "CLIENT_CONNECTION_LOST"}
ServerEnds == {"SERVER_DISCONNECTED_OK", "SERVER_CONNECTION_LOST"}

Outcome(next, posts) == [phase |-> next, posts |-> posts]

(* The connection is made, or an end comes first. *)
Connecting ==
  {Outcome("open", <<"CONNECTION_ESTABLISHED">>)}
    \cup {Outcome("over", <<m>>) :
            m \in {"CONNECTION_FAILED", "CLIENT_CONNECTION_LOST",
                   "SERVER_CONNECTION_LOST"}}

(* One side ends; the other is flushed, or ends in the same round. *)
ClientFirst ==
  {Outcome(next, <<m>>) : next \in {"flushServer", "over"}, m \in ClientEnds}
    \cup {Outcome("over", <<m, n>>) : m \in ClientEnds, n \in ServerEnds}

ServerFirst ==
  {Outcome(next, <<m>>) : next \in {"flushClient", "over"}, m \in ServerEnds}
    \cup {Outcome("over", <<m, "CLIENT_CONNECTION_LOST">>) : m \in ServerEnds}

(* The flush ends, or fails. *)
Flushing(lost) == {Outcome("over", <<>>), Outcome("over", <<lost>>)}

(* What a round of the loop may make of a peer; it may also leave it alone. *)
Served(f) ==
  {Outcome(f, <<>>)} \cup
  CASE f = "connecting"  -> Connecting
    [] f = "open"        -> ClientFirst \cup ServerFirst
    [] f = "flushClient" -> Flushing("CLIENT_CONNECTION_LOST")
    [] f = "flushServer" -> Flushing("SERVER_CONNECTION_LOST")
    [] f = "over"        -> {}

(* A kick posts its message whatever the phase. *)
Kicked == Outcome("over", <<"SERVER_DISCONNECTED_OK">>)
=============================================================================
