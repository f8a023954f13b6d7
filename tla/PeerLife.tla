------------------------------ MODULE PeerLife ------------------------------
(***************************************************************************)
(* The life of a ConnectionPeer as a specification over PeerPhases, with   *)
(* the one message that PeerPhases leaves out.                             *)
(***************************************************************************)
EXTENDS PeerPhases, Sequences

VARIABLES
  phase,
  posted (* The messages posted so far. *)

LifeInit == phase = "connecting" /\ posted = <<>>

(* The cancellations a round may post at its end: only with the last socket *)
(* of an established connection, where the write that closes it and the     *)
(* flush each post one.                                                     *)
Cancellations(f, next) ==
  LET C == "PEER_CONNECTION_CANCELLED"
  IN  CASE f = "open" /\ next = "over" -> {<<>>, <<C>>}
        [] f \in {"flushClient", "flushServer"} /\ next = "over" ->
             {<<>>, <<C>>, <<C, C>>}
        [] OTHER -> {<<>>}

LifeServe ==
  \E o \in Served(phase) :
    \E c \in Cancellations(phase, o.phase) :
      /\ phase' = o.phase
      /\ posted' = posted \o (o.posts \o c)

LifeKick ==
  /\ phase' = Kicked.phase
  /\ posted' = posted \o Kicked.posts

LifeNext == LifeServe \/ LifeKick

LifeSpec == LifeInit /\ [][LifeNext]_<<phase, posted>>
=============================================================================
