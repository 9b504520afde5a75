--------------------------- MODULE MCStreamServer ---------------------------
(* Instances of StreamServer for TLC. *)
EXTENDS StreamServer, TLC

\* Peers are interchangeable: no definition orders or compares them.
PeerSymmetry == Permutations(Peer)
=============================================================================
