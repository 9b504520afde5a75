---------------------------- MODULE EnetLibrary ----------------------------
(***************************************************************************)
(* The initialisation of ENet that all Server and Client objects of a      *)
(* program share.  Both constructors call enet_initialize, both terminate  *)
(* functions call enet_deinitialize, and the destructor of Server calls    *)
(* terminate; Client has no destructor.  ENet counts the calls, as the     *)
(* Windows sockets it starts up do, and shuts down at zero.                *)
(***************************************************************************)
EXTENDS Integers, FiniteSets

CONSTANTS
    Server, Client,  \* the objects of the program
    ServerTerminates, ClientTerminates,  \* bounds: calls of terminate per object
    InitMayFail      \* whether enet_initialize can fail

Object == Server \cup Client

ASSUME ObjectAssumption ==
    /\ IsFiniteSet(Object)
    /\ Server \cap Client = {}
    /\ ServerTerminates \in Nat /\ ClientTerminates \in Nat
    /\ InitMayFail \in BOOLEAN

VARIABLES
    phase,       \* "unborn", "alive" or "destroyed"
    host,        \* whether the object has a host
    terminated,  \* number of explicit terminate calls
    made,        \* whether enet_initialize succeeded in the constructor
    count,       \* initialisations of ENet that were not undone
    surplus      \* history: calls of enet_deinitialize by objects that held none

vars == <<phase, host, terminated, made, count, surplus>>

TypeOK ==
    /\ phase \in [Object -> {"unborn", "alive", "destroyed"}]
    /\ host \in [Object -> BOOLEAN]
    /\ terminated \in [Object -> Nat]
    /\ made \in [Object -> BOOLEAN]
    /\ count \in Nat
    /\ surplus \in Nat

Init ==
    /\ phase = [o \in Object |-> "unborn"]
    /\ host = [o \in Object |-> FALSE]
    /\ terminated = [o \in Object |-> 0]
    /\ made = [o \in Object |-> FALSE]
    /\ count = 0
    /\ surplus = 0
-----------------------------------------------------------------------------
\* How often an object has undone an initialisation.  A server terminated by
\* hand does so again when it dies.
Undone(o) == terminated[o] + IF o \in Server /\ phase[o] = "destroyed" THEN 1 ELSE 0

\* The objects that hold an initialisation: they made one and never undid any.
Holders == {o \in Object : made[o] /\ Undone(o) = 0}

\* A failed initialisation is printed, and the object exists all the same.
construct(o) ==
    /\ phase[o] = "unborn"
    /\ phase' = [phase EXCEPT ![o] = "alive"]
    /\ \/ made' = [made EXCEPT ![o] = TRUE] /\ count' = count + 1
       \/ InitMayFail /\ UNCHANGED <<made, count>>
    /\ UNCHANGED <<host, terminated, surplus>>

\* listen or connect, also after terminate.  Without an initialised ENet there
\* is no socket and the call throws; it may throw for other reasons.
open(o) ==
    /\ phase[o] = "alive"
    /\ \/ count > 0 /\ host' = [host EXCEPT ![o] = TRUE]
       \/ host' = [host EXCEPT ![o] = FALSE]
    /\ UNCHANGED <<phase, terminated, made, count, surplus>>

\* Below zero the call fails and counts nothing.
enet_deinitialize(o) ==
    /\ count' = IF count = 0 THEN 0 ELSE count - 1
    /\ surplus' = IF o \in Holders THEN surplus ELSE surplus + 1

terminate(o) ==
    /\ phase[o] = "alive"
    /\ terminated[o] < (IF o \in Server THEN ServerTerminates ELSE ClientTerminates)
    /\ terminated' = [terminated EXCEPT ![o] = @ + 1]
    /\ host' = [host EXCEPT ![o] = FALSE]
    /\ enet_deinitialize(o)
    /\ UNCHANGED <<phase, made>>

\* Slip: the destructor frees the host and leaves ENet alone.
destroyServerNoDeinit(s) ==
    /\ phase[s] = "alive"
    /\ phase' = [phase EXCEPT ![s] = "destroyed"]
    /\ host' = [host EXCEPT ![s] = FALSE]
    /\ UNCHANGED <<terminated, made, count, surplus>>

\* ~Server calls terminate, whether the program did so before or not.
destroyServer(s) ==
    /\ phase[s] = "alive"
    /\ phase' = [phase EXCEPT ![s] = "destroyed"]
    /\ host' = [host EXCEPT ![s] = FALSE]
    /\ enet_deinitialize(s)
    /\ UNCHANGED <<terminated, made>>

\* The members of a Client die alone: a host is leaked, and so is the
\* initialisation.
destroyClient(c) ==
    /\ phase[c] = "alive"
    /\ phase' = [phase EXCEPT ![c] = "destroyed"]
    /\ UNCHANGED <<host, terminated, made, count, surplus>>

Next ==
    \/ \E o \in Object : construct(o) \/ open(o) \/ terminate(o)
    \/ \E s \in Server : destroyServer(s)
    \/ \E c \in Client : destroyClient(c)

Spec == Init /\ [][Next]_vars
-----------------------------------------------------------------------------
(* Properties. *)

\* ENet is initialised at most as often as there are objects that hold an
\* initialisation, so that nothing but a client never terminated keeps it up;
\* and each call of enet_deinitialize by an object that holds none, such as
\* the destructor of a terminated server, takes it from at most one other.
CountIsHolders ==
    count \in (Cardinality(Holders) - surplus)..Cardinality(Holders)
=============================================================================
