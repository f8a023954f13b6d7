--------------------- MODULE MCThreadedConnectionManager ---------------------
(* What TLC needs of ThreadedConnectionManager: no peer is special.        *)
EXTENDS ThreadedConnectionManager

PeerSymmetry == Permutations(Peers)
=============================================================================
