--------------------------- MODULE MessageChannel ---------------------------
(***************************************************************************)
(* What a connection of LNetLibrary promises to those who send messages    *)
(* through it: they are handed over in the order in which they were sent,  *)
(* each once, whole, until the channel breaks.  From then on nothing is    *)
(* promised about what is handed over.                                     *)
(***************************************************************************)
EXTENDS Naturals, Sequences

VARIABLES
    sent,      \* the messages sent so far
    received,  \* the messages handed over so far
    broken

Init == sent = <<>> /\ received = <<>> /\ broken \in BOOLEAN

Grows(s, t) == Len(t) = Len(s) + 1 /\ SubSeq(t, 1, Len(s)) = s

\* A message is sent; sending it may break the channel.
Send == Grows(sent, sent') /\ UNCHANGED received /\ broken' \in {broken, TRUE}

\* The next message is handed over; a broken channel hands over anything.
Deliver ==
    /\ Grows(received, received')
    /\ \/ broken
       \/ Len(received) < Len(sent) /\ received'[Len(received')] = sent[Len(received')]
    /\ UNCHANGED <<sent, broken>>

Next == Send \/ Deliver

Spec == Init /\ [][Next]_<<sent, received, broken>>
=============================================================================
