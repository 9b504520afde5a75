---------------------------- MODULE StreamServer ----------------------------
(***************************************************************************)
(* lnet::Server of LNetStream (LNetServer.hpp, LNetServer.cpp) on top of   *)
(* one ENet host.  The server is single threaded: the application calls    *)
(* listen, tick, terminate and the send functions; tick drains the events  *)
(* of enet_host_service and runs message callbacks from inside that loop,  *)
(* and a callback may call the server again.  ENet itself is not in the    *)
(* repository and is modelled from its header and from how the server uses *)
(* it: its peers change state only inside enet_host_service, that is while *)
(* control is "tick".                                                      *)
(***************************************************************************)
EXTENDS Integers, Sequences, FiniteSets, Functions

CONSTANTS
    Peer,         \* the peer slots of a host, as many as settings.maxConnections
    Identifier,   \* the MessageIdentifiers (channel and type) in use
    ByteRange,    \* number of values of an LNetByte, 256 in the code
    MaxListens,   \* bound: calls of listen
    MaxConnects,  \* bound: connections remote programs open
    ReceiveBound, \* bound: packets received from a peer and not dispatched
    SendBound     \* bound: packets queued for a peer and not on the wire

\* A received packet carries an identifier, or is too short to hold one.
Short == "short"

ASSUME PeerAssumption == IsFiniteSet(Peer)

ASSUME IdentifierAssumption == Short \notin Identifier

ASSUME BoundAssumption ==
    /\ ByteRange \in Nat \ {0}
    /\ MaxListens \in Nat
    /\ MaxConnects \in Nat
    /\ ReceiveBound \in Nat
    /\ SendBound \in Nat

VARIABLES
    (* the members of Server *)
    host,             \* FALSE for nullptr, TRUE for a live ENetHost
    clients,          \* client ID -> peer
    possibleIDs,      \* queue of IDs given back
    currentClientID,  \* next ID never given out
    messageCallbacks, \* the identifiers that have a callback
    (* ENet: the peers of the current host *)
    state,            \* ENetPeer.state
    data,             \* ENetPeer.data, written by handleConnect only
    inbox,            \* packets received and not dispatched yet
    outbox,           \* packets queued by enet_peer_send and not on the wire yet
    (* control *)
    pc,               \* where the server's thread is
    call,             \* {} or {the callback that is running}
    (* history, read by no action *)
    listens,          \* number of listen calls
    connects,         \* number of connections opened
    idBase,           \* currentClientID when the host was created
    session,          \* which connection occupies a peer
    learned           \* what the callbacks told the application: ID, session

serverVars  == <<host, clients, possibleIDs, currentClientID, messageCallbacks>>
enetVars    == <<state, data, inbox, outbox>>
controlVars == <<pc, call>>
historyVars == <<listens, connects, idBase, session, learned>>
vars == <<serverVars, enetVars, controlVars, historyVars>>

-----------------------------------------------------------------------------
Packet  == Identifier \cup {Short}
Message == [type : Identifier, reliable : BOOLEAN]
Call    == [peer : Peer, type : Identifier, arg : Nat, at : Nat]
Handle  == [id : Nat, session : Nat]

\* A CONNECTION_PENDING peer has a CONNECT event waiting, a ZOMBIE a
\* DISCONNECT event; the states before and after are not seen by the server.
PeerState == {"DISCONNECTED", "CONNECTION_PENDING", "CONNECTED", "ZOMBIE"}

TypeOK ==
    /\ host \in BOOLEAN
    /\ DOMAIN clients \subseteq Nat
    /\ clients \in [DOMAIN clients -> Peer]
    /\ possibleIDs \in Seq(Nat)
    /\ currentClientID \in Nat
    /\ messageCallbacks \subseteq Identifier
    /\ state \in [Peer -> PeerState]
    /\ data \in [Peer -> Nat]
    /\ inbox \in [Peer -> Seq(Packet)]
    /\ outbox \in [Peer -> Seq(Message)]
    /\ pc \in {"app", "tick", "callback", "crashed"}
    /\ call \subseteq Call
    /\ listens \in Nat
    /\ connects \in Nat
    /\ idBase \in Nat
    /\ session \in [Peer -> Nat]
    /\ learned \subseteq Handle

Empty == [i \in {} |-> i]

\* The memory of a host ENet has just allocated: every peer is zeroed.
FreshHost ==
    /\ state'  = [p \in Peer |-> "DISCONNECTED"]
    /\ data'   = [p \in Peer |-> 0]
    /\ inbox'  = [p \in Peer |-> <<>>]
    /\ outbox' = [p \in Peer |-> <<>>]

Init ==
    /\ host = FALSE
    /\ clients = Empty
    /\ possibleIDs = <<>>
    /\ currentClientID = 0
    /\ messageCallbacks = {}
    /\ state  = [p \in Peer |-> "DISCONNECTED"]
    /\ data   = [p \in Peer |-> 0]
    /\ inbox  = [p \in Peer |-> <<>>]
    /\ outbox = [p \in Peer |-> <<>>]
    /\ pc = "app"
    /\ call = {}
    /\ listens = 0
    /\ connects = 0
    /\ idBase = 0
    /\ session = [p \in Peer |-> 0]
    /\ learned = {}
-----------------------------------------------------------------------------
(* The network and ENet, inside enet_host_service. *)

InService == pc = "tick" /\ host

\* A remote program completes the handshake on a free peer slot.
EnetConnect(p) ==
    /\ InService
    /\ state[p] = "DISCONNECTED"
    /\ connects < MaxConnects
    /\ state' = [state EXCEPT ![p] = "CONNECTION_PENDING"]
    /\ connects' = connects + 1
    /\ session' = [session EXCEPT ![p] = connects + 1]
    /\ UNCHANGED <<serverVars, data, inbox, outbox, controlVars,
                   listens, idBase, learned>>

\* The remote leaves or times out.  ENet reports it only when the CONNECT
\* event was taken; it drops what it received and not dispatched.
EnetDisconnect(p) ==
    /\ InService
    /\ state[p] \in {"CONNECTION_PENDING", "CONNECTED"}
    /\ state' = [state EXCEPT ![p] = IF @ = "CONNECTED" THEN "ZOMBIE"
                                                        ELSE "DISCONNECTED"]
    /\ inbox' = [inbox EXCEPT ![p] = <<>>]
    /\ outbox' = [outbox EXCEPT ![p] = <<>>]
    /\ UNCHANGED <<serverVars, data, controlVars, historyVars>>

EnetReceive(p, i) ==
    /\ InService
    /\ state[p] = "CONNECTED"
    /\ Len(inbox[p]) < ReceiveBound
    /\ inbox' = [inbox EXCEPT ![p] = Append(@, i)]
    /\ UNCHANGED <<serverVars, state, data, outbox, controlVars, historyVars>>

EnetSend(p) ==
    /\ InService
    /\ outbox[p] # <<>>
    /\ outbox' = [outbox EXCEPT ![p] = Tail(@)]
    /\ UNCHANGED <<serverVars, state, data, inbox, controlVars, historyVars>>
-----------------------------------------------------------------------------
(* listen, tick and terminate. *)

\* The application runs between ticks and inside a callback.  A callback that
\* calls tick itself is left out.
InApp == pc \in {"app", "callback"}

\* A previous host is not destroyed, only forgotten.  enet_host_create may
\* fail, and then listen throws with host already set to nullptr.
listen ==
    /\ InApp
    /\ listens < MaxListens
    /\ possibleIDs' = <<>>
    /\ clients' = Empty
    /\ host' \in BOOLEAN
    /\ FreshHost
    /\ listens' = listens + 1
    /\ idBase' = currentClientID
    /\ UNCHANGED <<currentClientID, messageCallbacks, controlVars,
                   connects, session, learned>>

tick ==
    /\ pc = "app"
    /\ pc' = "tick"
    /\ UNCHANGED <<serverVars, enetVars, call, historyVars>>

\* enet_host_service reports no event, or an error: the loop of tick ends.
tickReturns ==
    /\ InService
    /\ pc' = "app"
    /\ UNCHANGED <<serverVars, enetVars, call, historyVars>>

\* enet_host_service dereferences the null host of a server that does not
\* listen, or that a callback has just terminated.
tickNullHost ==
    /\ pc = "tick"
    /\ ~host
    /\ pc' = "crashed"
    /\ UNCHANGED <<serverVars, enetVars, call, historyVars>>

\* Connected peers are sent a disconnect, which discards their queues; then
\* the host and all its peers are freed.
terminate ==
    /\ InApp
    /\ host' = FALSE
    /\ IF host THEN FreshHost ELSE UNCHANGED enetVars
    /\ clients' = Empty
    /\ possibleIDs' = <<>>
    /\ UNCHANGED <<currentClientID, messageCallbacks, controlVars, historyVars>>
-----------------------------------------------------------------------------
(* The event handlers of tick. *)

\* Slip: the reused ID stays in the queue.
newClientIDNoPop(id) ==
    \/ /\ possibleIDs # <<>>
       /\ id = Head(possibleIDs)
       /\ UNCHANGED <<possibleIDs, currentClientID>>
    \/ /\ possibleIDs = <<>>
       /\ id = currentClientID
       /\ currentClientID' = currentClientID + 1
       /\ UNCHANGED possibleIDs

\* Slip: the queue is filled and never asked.
newClientIDNoReuse(id) ==
    /\ id = currentClientID
    /\ currentClientID' = currentClientID + 1
    /\ UNCHANGED possibleIDs

newClientID(id) ==
    \/ /\ possibleIDs # <<>>
       /\ id = Head(possibleIDs)
       /\ possibleIDs' = Tail(possibleIDs)
       /\ UNCHANGED currentClientID
    \/ /\ possibleIDs = <<>>
       /\ id = currentClientID
       /\ currentClientID' = currentClientID + 1
       /\ UNCHANGED possibleIDs

\* Slip: the ID is not stored in peer->data.
handleConnectNoData(p) ==
    /\ InService
    /\ state[p] = "CONNECTION_PENDING"
    /\ \E id \in 0..currentClientID :
          /\ newClientID(id)
          /\ clients' = [i \in DOMAIN clients \cup {id} |->
                            IF i = id THEN p ELSE clients[i]]
    /\ state' = [state EXCEPT ![p] = "CONNECTED"]
    /\ UNCHANGED <<host, messageCallbacks, data, inbox, outbox, controlVars, historyVars>>

handleConnect(p) ==
    /\ InService
    /\ state[p] = "CONNECTION_PENDING"
    /\ \E id \in 0..currentClientID :
          /\ newClientID(id)
          /\ clients' = [i \in DOMAIN clients \cup {id} |->
                            IF i = id THEN p ELSE clients[i]]
          /\ data' = [data EXCEPT ![p] = id]
    /\ state' = [state EXCEPT ![p] = "CONNECTED"]
    /\ UNCHANGED <<host, messageCallbacks, inbox, outbox, controlVars, historyVars>>

\* Slip: the entry of the map is not erased.
handleDisconnectNoErase(p) ==
    /\ InService
    /\ state[p] = "ZOMBIE"
    /\ possibleIDs' = Append(possibleIDs, data[p])
    /\ state' = [state EXCEPT ![p] = "DISCONNECTED"]
    /\ UNCHANGED <<host, clients, currentClientID, messageCallbacks, data, inbox, outbox,
                   controlVars, historyVars>>

handleDisconnect(p) ==
    /\ InService
    /\ state[p] = "ZOMBIE"
    /\ possibleIDs' = Append(possibleIDs, data[p])
    /\ clients' = Restrict(clients, DOMAIN clients \ {data[p]})
    /\ state' = [state EXCEPT ![p] = "DISCONNECTED"]
    /\ UNCHANGED <<host, currentClientID, messageCallbacks, data, inbox, outbox,
                   controlVars, historyVars>>

\* Slip: IDs taken to start at one.
CallbackArgFromOne(p) == data[p] - 1

\* What a callback is told: peer->data through a cast to LNetByte.
CallbackArg(p) == data[p] % ByteRange

\* The constructor of Message throws on a short packet: the length it computes
\* for the payload wraps around.  tick is left without freeing the packet.
handleReceive(p) ==
    /\ InService
    /\ state[p] = "CONNECTED"
    /\ inbox[p] # <<>>
    /\ inbox' = [inbox EXCEPT ![p] = Tail(@)]
    /\ LET i == Head(inbox[p]) IN
       \/ /\ i \in messageCallbacks
          /\ pc' = "callback"
          /\ call' = {[peer |-> p, type |-> i, arg |-> CallbackArg(p), at |-> listens]}
          /\ learned' = learned \cup {[id |-> CallbackArg(p), session |-> session[p]]}
       \/ /\ i \notin messageCallbacks \cup {Short}
          /\ UNCHANGED <<controlVars, learned>>
       \/ /\ i = Short
          /\ pc' = "app"
          /\ UNCHANGED <<call, learned>>
    /\ UNCHANGED <<serverVars, state, data, outbox, listens, connects, idBase, session>>

\* The packet is destroyed and the loop of tick goes on.
callbackReturns ==
    /\ pc = "callback"
    /\ pc' = "tick"
    /\ call' = {}
    /\ UNCHANGED <<serverVars, enetVars, historyVars>>

\* A callback throws, as Message >> does on a short message: tick is left.
callbackThrows ==
    /\ pc = "callback"
    /\ pc' = "app"
    /\ call' = {}
    /\ UNCHANGED <<serverVars, enetVars, historyVars>>
-----------------------------------------------------------------------------
(* The other calls of the application. *)

\* Assigning or erasing a std::function destroys its closure.  When that is
\* the closure now running, the behaviour is undefined: the program goes on
\* or it dies.
Replace(i) ==
    pc' \in IF \E k \in call : k.type = i THEN {pc, "crashed"} ELSE {pc}

setMessageCallback(i) ==
    /\ InApp
    /\ messageCallbacks' = messageCallbacks \cup {i}
    /\ Replace(i)
    /\ UNCHANGED <<host, clients, possibleIDs, currentClientID, enetVars, call,
                   historyVars>>

removeMessageCallback(i) ==
    /\ InApp
    /\ messageCallbacks' = messageCallbacks \ {i}
    /\ Replace(i)
    /\ UNCHANGED <<host, clients, possibleIDs, currentClientID, enetVars, call,
                   historyVars>>

\* enet_peer_send on each peer of ps: a peer that is not connected refuses
\* the packet, and no caller looks at the result.
EnetPeerSend(ps, m) ==
    /\ \A p \in ps : Len(outbox[p]) < SendBound
    /\ outbox' = [p \in Peer |-> IF p \in ps /\ state[p] = "CONNECTED"
                                    THEN Append(outbox[p], m) ELSE outbox[p]]

\* clients[id] of an ID that is not in the map inserts a null peer, which
\* enet_peer_send then dereferences.
sendClient(id, m) ==
    /\ InApp
    /\ \/ /\ id \in DOMAIN clients
          /\ EnetPeerSend({clients[id]}, m)
          /\ UNCHANGED pc
       \/ /\ id \notin DOMAIN clients
          /\ pc' = "crashed"
          /\ UNCHANGED outbox
    /\ UNCHANGED <<serverVars, state, data, inbox, call, historyVars>>

\* The template forms build the message themselves and send it likewise.
sendReliableClient(id, i)   == sendClient(id, [type |-> i, reliable |-> TRUE])
sendUnreliableClient(id, i) == sendClient(id, [type |-> i, reliable |-> FALSE])

sendBroadcastExcept(id, m) ==
    /\ InApp
    /\ EnetPeerSend({clients[i] : i \in DOMAIN clients \ {id}}, m)
    /\ UNCHANGED <<serverVars, state, data, inbox, controlVars, historyVars>>

sendReliableBroadcastExcept(id, i) ==
    sendBroadcastExcept(id, [type |-> i, reliable |-> TRUE])
sendUnreliableBroadcastExcept(id, i) ==
    sendBroadcastExcept(id, [type |-> i, reliable |-> FALSE])

\* enet_host_broadcast walks the peers of the host, and so needs a host.
sendBroadcast(m) ==
    /\ InApp
    /\ \/ /\ host
          /\ EnetPeerSend({p \in Peer : state[p] = "CONNECTED"}, m)
          /\ UNCHANGED pc
       \/ /\ ~host
          /\ pc' = "crashed"
          /\ UNCHANGED outbox
    /\ UNCHANGED <<serverVars, state, data, inbox, call, historyVars>>

sendReliableBroadcast(i)   == sendBroadcast([type |-> i, reliable |-> TRUE])
sendUnreliableBroadcast(i) == sendBroadcast([type |-> i, reliable |-> FALSE])

\* The IDs an application can know are those its callbacks were given.
KnownIDs == {h.id : h \in learned}
-----------------------------------------------------------------------------
Enet ==
    \E p \in Peer :
        \/ EnetConnect(p)
        \/ EnetDisconnect(p)
        \/ \E i \in Packet : EnetReceive(p, i)
        \/ EnetSend(p)

Tick ==
    \/ tick
    \/ tickReturns
    \/ tickNullHost
    \/ \E p \in Peer :
          \/ handleConnect(p)
          \/ handleDisconnect(p)
          \/ handleReceive(p)
    \/ callbackReturns
    \/ callbackThrows

Application ==
    \/ listen
    \/ terminate
    \/ \E i \in Identifier : setMessageCallback(i) \/ removeMessageCallback(i)
    \/ \E id \in KnownIDs, m \in Message : sendClient(id, m) \/ sendBroadcastExcept(id, m)
    \/ \E id \in KnownIDs, i \in Identifier :
          \/ sendReliableClient(id, i) \/ sendUnreliableClient(id, i)
          \/ sendReliableBroadcastExcept(id, i) \/ sendUnreliableBroadcastExcept(id, i)
    \/ \E m \in Message : sendBroadcast(m)
    \/ \E i \in Identifier : sendReliableBroadcast(i) \/ sendUnreliableBroadcast(i)

Next == Enet \/ Tick \/ Application

Spec == Init /\ [][Next]_vars
-----------------------------------------------------------------------------
(* Properties. *)

\* The peers the server counts as its clients: the CONNECT event was handled
\* and the DISCONNECT event was not.
Attached == {p \in Peer : state[p] \in {"CONNECTED", "ZOMBIE"}}

\* The map clients and the ID ENet keeps in peer->data say the same: every
\* attached peer is found under the ID stored with it, and the map has no
\* other entry.  handleDisconnect and handleReceive read only peer->data, the
\* send functions only the map.
RegistryExact ==
    /\ \A p \in Attached : data[p] \in DOMAIN clients /\ clients[data[p]] = p
    /\ \A id \in DOMAIN clients : clients[id] \in Attached /\ data[clients[id]] = id

\* Since the host was created, an ID that was given out is either in use or
\* once in the queue of possible IDs: none is lost, none can be given twice.
IDsPartitioned ==
    /\ idBase <= currentClientID
    /\ DOMAIN clients \cup Range(possibleIDs) \subseteq idBase..(currentClientID - 1)
    /\ host => idBase..(currentClientID - 1) \subseteq DOMAIN clients \cup Range(possibleIDs)
    /\ DOMAIN clients \cap Range(possibleIDs) = {}
    /\ \A i, j \in DOMAIN possibleIDs : possibleIDs[i] = possibleIDs[j] => i = j

\* newClientID takes a fresh ID only when every ID given out since listen is
\* in use, so a host never uses more IDs than it has peer slots.
IDsBounded == currentClientID - idBase <= Cardinality(Peer)

\* Every ID a server can ever give out fits in an LNetByte.
IDsFit == MaxListens * Cardinality(Peer) <= ByteRange

\* A callback is told an ID under which the server finds the sender of the
\* message: an answer sent from the callback goes back to that client, unless
\* the callback has itself terminated or restarted the server.
CallbackNamesSender ==
    \A k \in call :
        host /\ k.at = listens => k.arg \in DOMAIN clients /\ clients[k.arg] = k.peer

\* The ID a callback once gave to the application stays that client's for as
\* long as this very connection lasts, through every connect, disconnect and
\* reuse of IDs in between.
HandleStaysValid ==
    \A h \in learned, p \in Attached :
        h.session = session[p] => h.id \in DOMAIN clients /\ clients[h.id] = p

\* The server implements the registry of clients.
Registry == INSTANCE ClientRegistry WITH
    Member  <- Peer,
    idOf    <- [p \in Range(clients) |-> data[p]],
    serving <- {k.arg : k \in call}

RegistrySpec == Registry!Spec
=============================================================================
