---------------------------- MODULE StreamClient ----------------------------
(***************************************************************************)
(* lnet::Client of LNetStream (LNetClient.hpp, LNetClient.cpp): one object *)
(* on one thread, with an ENet host of a single peer.  The class has no    *)
(* function that fills messageCallbacks, so a received message is decoded  *)
(* and dropped.  A remote program may send packets too short for a type.   *)
(* ENet is external and changes the peer only inside         *)
(* enet_host_service, while control is "tick".                             *)
(***************************************************************************)
EXTENDS Naturals, Sequences

CONSTANTS
    Identifier,   \* the MessageIdentifiers in use
    MaxConnects,  \* bound: calls of connect
    ReceiveBound, \* bound: packets received and not dispatched
    SendBound     \* bound: packets queued and not on the wire

\* Stands for a packet with fewer bytes than a message type.
Short == "short"
Packet == Identifier \cup {Short}

ASSUME ClientPackets == Short \notin Identifier
ASSUME ClientBounds == MaxConnects \in Nat /\ ReceiveBound \in Nat /\ SendBound \in Nat

VARIABLES
    host,         \* FALSE for nullptr, TRUE for a live ENetHost
    connection,   \* where the pointer leads: see ConnectionState
    event,        \* ENet: the event enet_host_service is about to return
    inbox,        \* ENet: packets received and not dispatched
    outbox,       \* ENet: packets queued and not on the wire
    pc,           \* "app", "tick" or "crashed"
    connects,     \* number of connect calls
    reported      \* history: the last event tick dispatched

memberVars == <<host, connection>>
enetVars   == <<event, inbox, outbox>>
vars == <<memberVars, enetVars, pc, connects, reported>>

\* A live peer is CONNECTING, CONNECTED or DISCONNECTED; before connect the
\* pointer is uninitialised, and terminate leaves it dangling.
Live == {"CONNECTING", "CONNECTED", "DISCONNECTED"}
ConnectionState == Live \cup {"uninitialised", "dangling"}
Message == [type : Identifier, reliable : BOOLEAN]
Event == {"CONNECT", "DISCONNECT"}

TypeOK ==
    /\ host \in BOOLEAN
    /\ connection \in ConnectionState
    /\ event \in Event \cup {"none"}
    /\ inbox \in Seq(Packet)
    /\ outbox \in Seq(Message)
    /\ pc \in {"app", "tick", "crashed"}
    /\ connects \in Nat
    /\ reported \in Event \cup {"none"}

Init ==
    /\ host = FALSE
    /\ connection = "uninitialised"
    /\ event = "none"
    /\ inbox = <<>>
    /\ outbox = <<>>
    /\ pc = "app"
    /\ connects = 0
    /\ reported = "none"
-----------------------------------------------------------------------------
(* ENet, inside enet_host_service. *)

\* A call of enet_host_service returns as soon as there is an event.
InService == pc = "tick" /\ host

EnetConnected ==
    /\ InService
    /\ event = "none"
    /\ connection = "CONNECTING"
    /\ connection' = "CONNECTED"
    /\ event' = "CONNECT"
    /\ UNCHANGED <<host, inbox, outbox, pc, connects, reported>>

\* The server leaves, refuses, or does not answer in time.
EnetDisconnected ==
    /\ InService
    /\ event = "none"
    /\ connection \in {"CONNECTING", "CONNECTED"}
    /\ connection' = "DISCONNECTED"
    /\ event' = "DISCONNECT"
    /\ inbox' = <<>>
    /\ outbox' = <<>>
    /\ UNCHANGED <<host, pc, connects, reported>>

EnetReceive(i) ==
    /\ InService
    /\ connection = "CONNECTED"
    /\ Len(inbox) < ReceiveBound
    /\ inbox' = Append(inbox, i)
    /\ UNCHANGED <<memberVars, event, outbox, pc, connects, reported>>

\* Packets leave in enet_host_service and in enet_host_flush.
EnetSend ==
    /\ InService
    /\ outbox # <<>>
    /\ outbox' = Tail(outbox)
    /\ UNCHANGED <<memberVars, event, inbox, pc, connects, reported>>
-----------------------------------------------------------------------------
(* The functions of the class. *)

\* Slip: connection is not assigned.
connectNoPeer ==
    /\ pc = "app"
    /\ connects < MaxConnects
    /\ connects' = connects + 1
    /\ event' = "none"
    /\ inbox' = <<>>
    /\ outbox' = <<>>
    /\ host' \in BOOLEAN
    /\ UNCHANGED <<connection, pc, reported>>

\* A previous host is only forgotten.  When enet_host_create fails, connect
\* throws: host is nullptr and connection as it was.
connect ==
    /\ pc = "app"
    /\ connects < MaxConnects
    /\ connects' = connects + 1
    /\ event' = "none"
    /\ inbox' = <<>>
    /\ outbox' = <<>>
    /\ \/ host' = TRUE /\ connection' = "CONNECTING"
       \/ host' = FALSE /\ UNCHANGED connection
    /\ UNCHANGED <<pc, reported>>

tick ==
    /\ pc = "app"
    /\ pc' = IF host THEN "tick" ELSE "crashed"
    /\ UNCHANGED <<memberVars, enetVars, connects, reported>>

handleEvent ==
    /\ InService
    /\ event # "none"
    /\ event' = "none"
    /\ reported' = event
    /\ UNCHANGED <<memberVars, inbox, outbox, pc, connects>>

\* messageCallbacks is empty: the packet is decoded and destroyed.  The
\* constructor of Message throws out of tick for one too short.
handleReceive ==
    /\ InService
    /\ inbox # <<>>
    /\ inbox' = Tail(inbox)
    /\ pc' = IF Head(inbox) = Short THEN "app" ELSE "tick"
    /\ UNCHANGED <<memberVars, event, outbox, connects, reported>>

\* The loop ends when enet_host_service has no event to report, or an error.
tickReturns ==
    /\ InService
    /\ pc' = "app"
    /\ UNCHANGED <<memberVars, enetVars, connects, reported>>

terminate ==
    /\ pc = "app"
    /\ host' = FALSE
    /\ connection' = IF host /\ connection \in Live THEN "dangling" ELSE connection
    /\ event' = "none"
    /\ inbox' = <<>>
    /\ outbox' = <<>>
    /\ UNCHANGED <<pc, connects, reported>>

\* enet_peer_send on a live peer that is not CONNECTED returns -1, which send
\* ignores.  Through a pointer that leads nowhere, anything may happen.
send(m) ==
    /\ pc = "app"
    /\ \/ /\ connection = "CONNECTED"
          /\ Len(outbox) < SendBound
          /\ outbox' = Append(outbox, m)
          /\ UNCHANGED pc
       \/ /\ connection \in Live \ {"CONNECTED"}
          /\ UNCHANGED <<outbox, pc>>
       \/ /\ connection \notin Live
          /\ pc' \in {"app", "crashed"}
          /\ UNCHANGED outbox
    /\ UNCHANGED <<memberVars, event, inbox, connects, reported>>

\* Slip: the message around the identifier is not built.
sendReliableBare(i) == send(i)

sendReliable(i)   == send([type |-> i, reliable |-> TRUE])
sendUnreliable(i) == send([type |-> i, reliable |-> FALSE])

flush ==
    /\ pc = "app"
    /\ \/ host /\ outbox' = <<>> /\ UNCHANGED pc
       \/ ~host /\ pc' = "crashed" /\ UNCHANGED outbox
    /\ UNCHANGED <<memberVars, event, inbox, connects, reported>>

isConnected == host
-----------------------------------------------------------------------------
Next ==
    \/ EnetConnected \/ EnetDisconnected \/ EnetSend
    \/ \E i \in Packet : EnetReceive(i)
    \/ connect \/ tick \/ handleEvent \/ handleReceive \/ tickReturns \/ terminate \/ flush
    \/ \E m \in Message : send(m)
    \/ \E i \in Identifier : sendReliable(i) \/ sendUnreliable(i)

Spec == Init /\ [][Next]_vars
-----------------------------------------------------------------------------
(* Properties. *)

\* As long as the object has a host, send finds a peer of that host behind
\* connection, whatever order connect, terminate and failures came in.
ConnectionIsLive == host => connection \in Live
=============================================================================
