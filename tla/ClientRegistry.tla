--------------------------- MODULE ClientRegistry ---------------------------
(***************************************************************************)
(* What the server of LNetStream promises about client IDs, with no map,   *)
(* queue or counter.  Every connected client has one ID for as long as it  *)
(* stays connected, no two connected clients share an ID, and a message    *)
(* callback is handed the ID of the client that sent the message.  Which   *)
(* unused ID a new client gets is left open.                               *)
(***************************************************************************)
EXTENDS Naturals

CONSTANT Member   \* whatever can be registered: the peers of a host

VARIABLES
    idOf,         \* the ID of every registered member
    serving       \* {}, or {the ID the running message callback was given}

vars == <<idOf, serving>>

Empty == [m \in {} |-> 0]

Init == idOf = Empty /\ serving = {}

\* A member is registered under an ID nobody has.
Join(m) ==
    /\ m \notin DOMAIN idOf
    /\ DOMAIN idOf' = DOMAIN idOf \cup {m}
    /\ idOf' = [n \in DOMAIN idOf \cup {m} |->
                    IF n = m THEN idOf'[m] ELSE idOf[n]]
    /\ idOf'[m] \in Nat
    /\ \A n \in DOMAIN idOf : idOf[n] # idOf'[m]
    /\ UNCHANGED serving

\* A member leaves and everybody else keeps their ID.
Leave(m) ==
    /\ m \in DOMAIN idOf
    /\ idOf' = [n \in DOMAIN idOf \ {m} |-> idOf[n]]
    /\ UNCHANGED serving

\* The server starts over: nobody is registered any more.
Clear == idOf' = Empty /\ UNCHANGED serving

\* A callback starts on a message of m, and is told the ID of m.
Deliver(m) ==
    /\ serving = {}
    /\ m \in DOMAIN idOf
    /\ serving' = {idOf[m]}
    /\ UNCHANGED idOf

Finish == serving # {} /\ serving' = {} /\ UNCHANGED idOf

Next ==
    \/ \E m \in Member : Join(m) \/ Leave(m) \/ Deliver(m)
    \/ Clear
    \/ Finish

Spec == Init /\ [][Next]_vars
=============================================================================
