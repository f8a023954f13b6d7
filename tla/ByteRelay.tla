------------------------------ MODULE ByteRelay ------------------------------
(***************************************************************************)
(* What one direction of a ConnectionPeer promises: the bytes taken from   *)
(* one socket are given to the other in order, each once, never more than  *)
(* Capacity of them wait, and after the end nothing is given any more.     *)
(***************************************************************************)
EXTENDS Integers, Sequences

CONSTANT Capacity

VARIABLES
  taken, (* How many bytes were read from the source.              *)
  given, (* The bytes written to the sink; byte k is its position. *)
  open   (* The sink is open.                                      *)

relayVars == <<taken, given, open>>

Prefix(n) == [i \in 1 .. n |-> i]

Init ==
  /\ taken = 0
  /\ given = <<>>
  /\ open = TRUE

(* Bytes are taken and bytes are given; the sink may close, and then what *)
(* waits is dropped.                                                       *)
Move ==
  /\ open = TRUE
  /\ taken' \in Nat
  /\ taken <= taken'
  /\ open' \in BOOLEAN
  /\ \E n \in 0 .. taken' : /\ Len(given) <= n
                            /\ open' = TRUE => taken' - n <= Capacity
                            /\ given' = Prefix(n)

(* What is still read for a sink that is closed is dropped. *)
Discard ==
  /\ open = FALSE
  /\ taken' \in Nat
  /\ taken <= taken'
  /\ UNCHANGED <<given, open>>

Next == Move \/ Discard

Spec == Init /\ [][Next]_relayVars
=============================================================================
