---------------------------- MODULE MCAsioServer ----------------------------
(* Instances of AsioServer for TLC. *)
EXTENDS AsioServer, TLC

\* No definition orders threads or sockets.
AsioSymmetry == Permutations(Thread) \cup Permutations(Socket)
=============================================================================
