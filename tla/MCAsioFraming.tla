---------------------------- MODULE MCAsioFraming ----------------------------
(* Instances of AsioFraming for TLC. *)
EXTENDS AsioFraming

\* A value of two bytes, an empty string and a list of two elements: two lists
\* make a message that is longer than an int of this width can say.
SmallItems ==
    {[kind |-> "value", of |-> <<1, 0>>], [kind |-> "string", of |-> <<>>],
     [kind |-> "list", of |-> <<1, 0>>]}
=============================================================================
