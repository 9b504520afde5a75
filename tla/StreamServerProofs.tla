------------------------- MODULE StreamServerProofs -------------------------
(***************************************************************************)
(* Proofs about StreamServer, for every number of peers, identifiers and   *)
(* byte values and for every bound.                                        *)
(***************************************************************************)
EXTENDS StreamServer, FiniteSetTheorems, SequenceTheorems, TLAPS

-----------------------------------------------------------------------------
(* Type correctness. *)

\* The empty map has no entries.
LEMMA EmptyType == DOMAIN Empty = {} /\ Empty \in [{} -> Peer]
  BY DEF Empty

\* The initial state is well typed.
LEMMA InitType == Init => TypeOK
<1>. SUFFICES ASSUME Init PROVE TypeOK
  OBVIOUS
<1>1. \A S : <<>> \in Seq(S)
  BY EmptySeq
<1>2. DOMAIN clients \subseteq Nat /\ clients \in [DOMAIN clients -> Peer]
  BY EmptyType DEF Init
<1>. QED
  BY <1>1, <1>2 DEF Init, TypeOK, PeerState

\* What an action that neither starts nor answers the registry leaves alone.
Quiet == UNCHANGED <<host, clients, possibleIDs, currentClientID, state, data,
                     listens, connects, idBase, session, learned>>

\* All send functions, with the message they build.
Send ==
    \/ \E id \in KnownIDs, m \in Message : sendClient(id, m) \/ sendBroadcastExcept(id, m)
    \/ \E m \in Message : sendBroadcast(m)

\* The template send functions are the plain ones on a message built in place.
LEMMA Sends ==
  Application <=>
    \/ listen
    \/ terminate
    \/ \E i \in Identifier : setMessageCallback(i) \/ removeMessageCallback(i)
    \/ Send
<1>1. \A i \in Identifier, r \in BOOLEAN : [type |-> i, reliable |-> r] \in Message
  BY DEF Message
<1>. QED
  BY <1>1 DEF Application, Send, sendReliableClient, sendUnreliableClient,
     sendReliableBroadcastExcept, sendUnreliableBroadcastExcept,
     sendReliableBroadcast, sendUnreliableBroadcast

\* A send touches the outgoing queues only, or kills the program.
LEMMA SendQuiet ==
  ASSUME TypeOK, Send
  PROVE  /\ Quiet
         /\ UNCHANGED <<messageCallbacks, inbox, call>>
         /\ outbox' \in [Peer -> Seq(Message)]
         /\ pc' \in {pc, "crashed"}
<1>1. \A ps, m : m \in Message /\ EnetPeerSend(ps, m) => outbox' \in [Peer -> Seq(Message)]
  BY DEF TypeOK, EnetPeerSend
<1>2. CASE \E id \in KnownIDs, m \in Message : sendClient(id, m)
  BY <1>1, <1>2 DEF sendClient, TypeOK, Quiet, serverVars, historyVars
<1>3. CASE \E id \in KnownIDs, m \in Message : sendBroadcastExcept(id, m)
  BY <1>1, <1>3 DEF sendBroadcastExcept, TypeOK, Quiet, serverVars, historyVars, controlVars
<1>4. CASE \E m \in Message : sendBroadcast(m)
  BY <1>1, <1>4 DEF sendBroadcast, TypeOK, Quiet, serverVars, historyVars
<1>. QED
  BY <1>2, <1>3, <1>4 DEF Send

\* The peers of a new host are well typed.
LEMMA FreshHostType ==
  ASSUME FreshHost
  PROVE  /\ state' \in [Peer -> PeerState]
         /\ data' \in [Peer -> Nat]
         /\ inbox' \in [Peer -> Seq(Packet)]
         /\ outbox' \in [Peer -> Seq(Message)]
<1>1. \A S : <<>> \in Seq(S)
  BY EmptySeq
<1>. QED
  BY <1>1 DEF FreshHost, PeerState

\* newClientID gives a natural number and keeps the types of its state.
LEMMA NewIDType ==
  ASSUME TypeOK, NEW id \in 0..currentClientID, newClientID(id)
  PROVE  /\ id \in Nat
         /\ possibleIDs' \in Seq(Nat)
         /\ currentClientID' \in Nat
<1>1. CASE possibleIDs # <<>> /\ possibleIDs' = Tail(possibleIDs) /\ UNCHANGED currentClientID
  BY <1>1, HeadTailProperties DEF TypeOK
<1>2. CASE currentClientID' = currentClientID + 1 /\ UNCHANGED possibleIDs
  BY <1>2 DEF TypeOK
<1>. QED
  BY <1>1, <1>2 DEF newClientID, TypeOK

\* The steps of ENet keep the types.
LEMMA EnetType ==
  ASSUME TypeOK, NEW p \in Peer,
         EnetConnect(p) \/ EnetDisconnect(p) \/ (\E i \in Packet : EnetReceive(p, i)) \/ EnetSend(p)
  PROVE  TypeOK'
<1>1. CASE EnetConnect(p)
  <2>1. state' \in [Peer -> PeerState] /\ session' \in [Peer -> Nat] /\ connects' \in Nat
    BY <1>1 DEF EnetConnect, TypeOK, PeerState
  <2>. QED
    BY <1>1, <2>1 DEF EnetConnect, TypeOK, serverVars, controlVars
<1>2. CASE EnetDisconnect(p)
  <2>1. <<>> \in Seq(Packet) /\ <<>> \in Seq(Message)
    BY EmptySeq
  <2>2. state' \in [Peer -> PeerState]
    BY <1>2 DEF EnetDisconnect, TypeOK, PeerState
  <2>3. inbox' \in [Peer -> Seq(Packet)] /\ outbox' \in [Peer -> Seq(Message)]
    BY <1>2, <2>1 DEF EnetDisconnect, TypeOK
  <2>. QED
    BY <1>2, <2>2, <2>3 DEF EnetDisconnect, TypeOK, serverVars, controlVars, historyVars
<1>3. CASE \E i \in Packet : EnetReceive(p, i)
  <2>1. inbox' \in [Peer -> Seq(Packet)]
    BY <1>3, AppendProperties DEF EnetReceive, TypeOK
  <2>. QED
    BY <1>3, <2>1 DEF EnetReceive, TypeOK, serverVars, controlVars, historyVars
<1>4. CASE EnetSend(p)
  <2>1. outbox[p] \in Seq(Message) /\ outbox[p] # <<>>
    BY <1>4 DEF EnetSend, TypeOK
  <2>2. Tail(outbox[p]) \in Seq(Message)
    BY <2>1, HeadTailProperties
  <2>3. outbox' \in [Peer -> Seq(Message)]
    BY <1>4, <2>2 DEF EnetSend, TypeOK
  <2>. QED
    BY <1>4, <2>3 DEF EnetSend, TypeOK, serverVars, controlVars, historyVars
<1>. QED
  BY <1>1, <1>2, <1>3, <1>4

\* The event handlers keep the types.
LEMMA HandlerType ==
  ASSUME TypeOK, NEW p \in Peer,
         handleConnect(p) \/ handleDisconnect(p) \/ handleReceive(p)
  PROVE  TypeOK'
<1>1. CASE handleConnect(p)
  <2>1. PICK id \in 0..currentClientID :
          /\ newClientID(id)
          /\ clients' = [i \in DOMAIN clients \cup {id} |-> IF i = id THEN p ELSE clients[i]]
          /\ data' = [data EXCEPT ![p] = id]
    BY <1>1 DEF handleConnect
  <2>2. id \in Nat /\ possibleIDs' \in Seq(Nat) /\ currentClientID' \in Nat
    BY <2>1, NewIDType
  <2>3. DOMAIN clients' \subseteq Nat /\ clients' \in [DOMAIN clients' -> Peer]
    BY <2>1, <2>2 DEF TypeOK
  <2>. QED
    BY <1>1, <2>1, <2>2, <2>3 DEF handleConnect, TypeOK, controlVars, historyVars, PeerState
<1>2. CASE handleDisconnect(p)
  <2>1. possibleIDs' \in Seq(Nat)
    BY <1>2, AppendProperties DEF handleDisconnect, TypeOK
  <2>2. DOMAIN clients' \subseteq Nat /\ clients' \in [DOMAIN clients' -> Peer]
    BY <1>2 DEF handleDisconnect, TypeOK, Restrict
  <2>. QED
    BY <1>2, <2>1, <2>2 DEF handleDisconnect, TypeOK, controlVars, historyVars, PeerState
<1>3. CASE handleReceive(p)
  <2>1. inbox' \in [Peer -> Seq(Packet)] /\ Head(inbox[p]) \in Packet
    BY <1>3, HeadTailProperties DEF handleReceive, TypeOK
  <2>2. CallbackArg(p) \in Nat
    BY BoundAssumption DEF CallbackArg, TypeOK
  <2>3. pc' \in {"app", "tick", "callback", "crashed"} /\ call' \subseteq Call /\ learned' \subseteq Handle
    BY <1>3, <2>1, <2>2 DEF handleReceive, TypeOK, controlVars, Call, Handle, Packet
  <2>. QED
    BY <1>3, <2>1, <2>3 DEF handleReceive, TypeOK, serverVars
<1>. QED
  BY <1>1, <1>2, <1>3

\* The calls of the application keep the types.
LEMMA ApplicationType ==
  ASSUME TypeOK, Application
  PROVE  TypeOK'
<1>1. CASE listen
  BY <1>1, EmptyType, FreshHostType, EmptySeq DEF listen, TypeOK, controlVars
<1>2. CASE terminate
  <2>1. /\ state' \in [Peer -> PeerState]
        /\ data' \in [Peer -> Nat]
        /\ inbox' \in [Peer -> Seq(Packet)]
        /\ outbox' \in [Peer -> Seq(Message)]
    BY <1>2, FreshHostType DEF terminate, enetVars, TypeOK
  <2>. QED
    BY <1>2, <2>1, EmptyType, EmptySeq DEF terminate, TypeOK, controlVars, historyVars
<1>3. CASE \E i \in Identifier : setMessageCallback(i) \/ removeMessageCallback(i)
  BY <1>3 DEF setMessageCallback, removeMessageCallback, Replace, TypeOK, enetVars, historyVars
<1>4. CASE Send
  BY <1>4, SendQuiet DEF Quiet, TypeOK
<1>. QED
  BY <1>1, <1>2, <1>3, <1>4, Sends

\* Every step keeps the types.
LEMMA NextType ==
  ASSUME TypeOK, [Next]_vars
  PROVE  TypeOK'
<1>1. CASE Enet
  BY <1>1, EnetType DEF Enet
<1>2. CASE tick \/ tickReturns \/ tickNullHost \/ callbackReturns \/ callbackThrows
  BY <1>2 DEF tick, tickReturns, tickNullHost, callbackReturns, callbackThrows,
     TypeOK, serverVars, enetVars, historyVars
<1>3. CASE \E p \in Peer : handleConnect(p) \/ handleDisconnect(p) \/ handleReceive(p)
  BY <1>3, HandlerType
<1>4. CASE Application
  BY <1>4, ApplicationType
<1>5. CASE UNCHANGED vars
  BY <1>5 DEF vars, serverVars, enetVars, controlVars, historyVars, TypeOK
<1>. QED
  BY <1>1, <1>2, <1>3, <1>4, <1>5 DEF Next, Tick

(***************************************************************************)
(* The variables always have the type stated by TypeOK: in particular the  *)
(* map clients holds peers of the current host, and the queue of possible  *)
(* IDs and the ID of every peer hold natural numbers.                      *)
(***************************************************************************)
THEOREM TypeCorrect == Spec => []TypeOK
<1>1. TypeOK /\ [Next]_vars => TypeOK'
  BY NextType
<1>. QED
  BY InitType, <1>1, PTL DEF Spec
-----------------------------------------------------------------------------
(* The registry of clients. *)

\* Without a host no peer is attached: every peer is as Init left it.
HostlessIdle == ~host => \A p \in Peer : state[p] = "DISCONNECTED"

\* A handler makes these three facts about the map, peer->data and the queue
\* true together, so none of them is inductive alone.
RegistryInv == HostlessIdle /\ RegistryExact /\ IDsPartitioned /\ IDsBounded

\* The initial state satisfies the invariant: there is no host.
LEMMA InitRegistry == Init => RegistryInv
<1>. SUFFICES ASSUME Init PROVE RegistryInv
  OBVIOUS
<1>1. Attached = {} /\ DOMAIN clients = {}
  BY EmptyType DEF Init, Attached
<1>2. DOMAIN possibleIDs = {} /\ Range(possibleIDs) = {}
  BY DEF Init, Range
<1>3. Cardinality(Peer) \in Nat
  BY PeerAssumption, FS_CardinalityType
<1>4. HostlessIdle
  BY DEF Init, HostlessIdle
<1>5. RegistryExact
  BY <1>1 DEF RegistryExact
<1>6. IDsPartitioned
  BY <1>1, <1>2 DEF Init, IDsPartitioned
<1>7. IDsBounded
  BY <1>3 DEF Init, IDsBounded
<1>. QED
  BY <1>4, <1>5, <1>6, <1>7 DEF RegistryInv

\* Steps that change no part of the registry keep the invariant.
LEMMA QuietRegistry ==
  ASSUME RegistryInv, Quiet
  PROVE  RegistryInv'
  BY DEF RegistryInv, Quiet, HostlessIdle, RegistryExact, IDsPartitioned, IDsBounded, Attached

\* Starting over, by listen or by terminate.
LEMMA ClearRegistry ==
  ASSUME TypeOK, RegistryInv, listen \/ terminate
  PROVE  RegistryInv'
<1>1. clients' = Empty /\ possibleIDs' = <<>> /\ UNCHANGED currentClientID
  BY DEF listen, terminate
<1>2. \A p \in Peer : state'[p] = "DISCONNECTED"
  BY DEF listen, terminate, FreshHost, RegistryInv, HostlessIdle, enetVars
<1>3. (Attached' = {}) /\ DOMAIN clients' = {}
  BY <1>1, <1>2, EmptyType DEF Attached
<1>4. DOMAIN possibleIDs' = {} /\ Range(possibleIDs)' = {}
  BY <1>1 DEF Range
<1>5. Cardinality(Peer) \in Nat
  BY PeerAssumption, FS_CardinalityType
<1>6. HostlessIdle'
  BY <1>2 DEF HostlessIdle
<1>7. RegistryExact'
  BY <1>3 DEF RegistryExact
<1>8. \/ idBase' = currentClientID'
      \/ ~host' /\ idBase' = idBase
  BY <1>1 DEF listen, terminate, historyVars
<1>9. IDsPartitioned'
  BY <1>1, <1>3, <1>4, <1>8 DEF RegistryInv, IDsPartitioned, TypeOK
<1>10. IDsBounded'
  BY <1>1, <1>5, <1>8 DEF RegistryInv, IDsBounded, TypeOK
<1>. QED
  BY <1>6, <1>7, <1>9, <1>10 DEF RegistryInv

\* A pending peer is not attached yet.
LEMMA EnetConnectRegistry ==
  ASSUME TypeOK, RegistryInv, NEW p \in Peer, EnetConnect(p)
  PROVE  RegistryInv'
<1>1. /\ host /\ UNCHANGED <<host, clients, possibleIDs, currentClientID, data, idBase>>
      /\ state' = [state EXCEPT ![p] = "CONNECTION_PENDING"]
      /\ state[p] = "DISCONNECTED"
  BY DEF EnetConnect, InService, serverVars
<1>2. Attached' = Attached
  BY <1>1 DEF Attached, TypeOK
<1>. QED
  BY <1>1, <1>2 DEF RegistryInv, HostlessIdle, RegistryExact, IDsPartitioned, IDsBounded

\* A peer stays attached until its DISCONNECT event is handled.
LEMMA EnetDisconnectRegistry ==
  ASSUME TypeOK, RegistryInv, NEW p \in Peer, EnetDisconnect(p)
  PROVE  RegistryInv'
<1>1. /\ host /\ UNCHANGED <<host, clients, possibleIDs, currentClientID, data, idBase>>
      /\ state' = [state EXCEPT ![p] = IF @ = "CONNECTED" THEN "ZOMBIE" ELSE "DISCONNECTED"]
      /\ state[p] \in {"CONNECTION_PENDING", "CONNECTED"}
  BY DEF EnetDisconnect, InService, serverVars, historyVars
<1>2. Attached' = Attached
  BY <1>1 DEF Attached, TypeOK
<1>. QED
  BY <1>1, <1>2 DEF RegistryInv, HostlessIdle, RegistryExact, IDsPartitioned, IDsBounded

-----------------------------------------------------------------------------
(* Queues without duplicates. *)

Distinct(q) == \A i, j \in DOMAIN q : q[i] = q[j] => i = j

\* Taking the head of a queue without duplicates removes just that element.
LEMMA PopDistinct ==
  ASSUME NEW S, NEW q \in Seq(S), q # <<>>, Distinct(q)
  PROVE  /\ Range(q) = {Head(q)} \cup Range(Tail(q))
         /\ Head(q) \notin Range(Tail(q))
         /\ Distinct(Tail(q))
<1>. DEFINE t == Tail(q)
<1>1. /\ Len(q) \in Nat \ {0} /\ DOMAIN q = 1..Len(q) /\ Head(q) = q[1]
      /\ t \in Seq(S) /\ Len(t) = Len(q) - 1
      /\ \A i \in 1..Len(t) : t[i] = q[i + 1]
  BY EmptySeq, LenProperties, HeadTailProperties
<1>2. DOMAIN t = 1..(Len(q) - 1)
  BY <1>1, LenProperties
<1>. HIDE DEF t
<1>3. \A i \in DOMAIN t : i + 1 \in DOMAIN q /\ i + 1 # 1 /\ t[i] = q[i + 1]
  BY <1>1, <1>2
<1>4. \A i \in DOMAIN q : i # 1 => i - 1 \in DOMAIN t /\ t[i - 1] = q[i]
  BY <1>1, <1>2
<1>5. Range(q) = {Head(q)} \cup Range(t)
  <2>1. 1 \in DOMAIN q
    BY <1>1
  <2>2. ASSUME NEW x \in Range(q) PROVE x \in {Head(q)} \cup Range(t)
    BY <1>1, <1>4 DEF Range
  <2>3. ASSUME NEW x \in {Head(q)} \cup Range(t) PROVE x \in Range(q)
    BY <1>1, <2>1, <1>3 DEF Range
  <2>. QED
    BY <2>2, <2>3
<1>6. Head(q) \notin Range(t)
  <2>1. ASSUME NEW i \in DOMAIN t, t[i] = q[1] PROVE FALSE
    BY <1>1, <1>3, <2>1 DEF Distinct
  <2>. QED
    BY <1>1, <2>1 DEF Range
<1>7. Distinct(t)
  <2>1. ASSUME NEW i \in DOMAIN t, NEW j \in DOMAIN t, t[i] = t[j] PROVE i = j
    BY <1>2, <1>3, <2>1 DEF Distinct
  <2>. QED
    BY <2>1 DEF Distinct
<1>. QED
  BY <1>5, <1>6, <1>7 DEF t

\* Appending a new element to a queue without duplicates makes no duplicate.
LEMMA PushDistinct ==
  ASSUME NEW S, NEW q \in Seq(S), NEW e \in S, Distinct(q), e \notin Range(q)
  PROVE  /\ Range(Append(q, e)) = Range(q) \cup {e}
         /\ Distinct(Append(q, e))
<1>. DEFINE a == Append(q, e)
<1>1. /\ Len(q) \in Nat /\ DOMAIN q = 1..Len(q)
      /\ a \in Seq(S) /\ Len(a) = Len(q) + 1
      /\ \A i \in 1..Len(q) : a[i] = q[i]
      /\ a[Len(q) + 1] = e
  BY LenProperties, AppendProperties
<1>2. DOMAIN a = 1..(Len(q) + 1)
  BY <1>1, LenProperties
<1>. HIDE DEF a
<1>3. \A i \in DOMAIN a : \/ i \in DOMAIN q /\ a[i] = q[i]
                          \/ i = Len(q) + 1 /\ a[i] = e
  BY <1>1, <1>2
<1>4. DOMAIN q \subseteq DOMAIN a /\ Len(q) + 1 \in DOMAIN a
  BY <1>1, <1>2
<1>5. Range(a) = Range(q) \cup {e}
  BY <1>1, <1>3, <1>4 DEF Range
<1>6. Distinct(a)
  BY <1>3 DEF Distinct, Range
<1>. QED
  BY <1>5, <1>6 DEF a

-----------------------------------------------------------------------------
(* The handlers and the registry. *)

\* The two ways newClientID finds an ID.
LEMMA NewIDIsFree ==
  ASSUME TypeOK, RegistryInv, host, NEW id \in 0..currentClientID, newClientID(id)
  PROVE  /\ id \in idBase..(currentClientID' - 1)
         /\ id \notin DOMAIN clients
         /\ id \notin Range(possibleIDs')
         /\ DOMAIN clients \cup {id} \cup Range(possibleIDs') = idBase..(currentClientID' - 1)
         /\ DOMAIN clients \cap Range(possibleIDs') = {}
         /\ Distinct(possibleIDs')
         /\ \/ currentClientID' = currentClientID
            \/ /\ currentClientID' = currentClientID + 1
               /\ DOMAIN clients = idBase..(currentClientID - 1)
<1>0. Distinct(possibleIDs)
  BY DEF RegistryInv, IDsPartitioned, Distinct
<1>1. CASE /\ possibleIDs # <<>>
           /\ id = Head(possibleIDs)
           /\ possibleIDs' = Tail(possibleIDs)
           /\ UNCHANGED currentClientID
  <2>1. /\ Range(possibleIDs) = {id} \cup Range(possibleIDs')
        /\ id \notin Range(possibleIDs')
        /\ Distinct(possibleIDs')
    BY <1>0, <1>1, PopDistinct DEF TypeOK
  <2>. QED
    BY <1>1, <2>1 DEF TypeOK, RegistryInv, IDsPartitioned
<1>2. CASE /\ possibleIDs = <<>>
           /\ id = currentClientID
           /\ currentClientID' = currentClientID + 1
           /\ UNCHANGED possibleIDs
  <2>1. DOMAIN possibleIDs' = {} /\ Range(possibleIDs) = {} /\ Range(possibleIDs') = {}
    BY <1>2 DEF Range
  <2>2. DOMAIN clients = idBase..(currentClientID - 1) /\ idBase <= currentClientID
    BY <2>1 DEF TypeOK, RegistryInv, IDsPartitioned
  <2>3. Distinct(possibleIDs')
    BY <2>1 DEF Distinct
  <2>4. idBase..(currentClientID' - 1) = DOMAIN clients \cup {id}
    BY <1>2, <2>2 DEF TypeOK
  <2>. QED
    BY <1>2, <2>1, <2>2, <2>3, <2>4 DEF TypeOK
<1>. QED
  BY <1>1, <1>2 DEF newClientID

\* When every ID since listen is in use, as many peers are attached, and one
\* more is not.
LEMMA FreeSlotLeavesRoom ==
  ASSUME TypeOK, RegistryExact, NEW p \in Peer, p \notin Attached,
         idBase <= currentClientID, DOMAIN clients = idBase..(currentClientID - 1)
  PROVE  currentClientID - idBase < Cardinality(Peer)
<1>1. clients \in Injection(DOMAIN clients, Peer \ {p})
  BY DEF Injection, IsInjective, TypeOK, RegistryExact
<1>2. IsFiniteSet(Peer \ {p}) /\ Cardinality(Peer \ {p}) = Cardinality(Peer) - 1
  <2>1. IsFiniteSet(Peer)
    BY PeerAssumption
  <2>. QED
    BY <2>1, FS_RemoveElement
<1>3. Cardinality(DOMAIN clients) <= Cardinality(Peer) - 1
  BY <1>1, <1>2, FS_Injection
<1>4. Cardinality(DOMAIN clients) = currentClientID - idBase
  <2>1. idBase \in Int /\ currentClientID - 1 \in Int
    BY DEF TypeOK
  <2>2. Cardinality(idBase..(currentClientID - 1)) =
          IF idBase > currentClientID - 1 THEN 0 ELSE currentClientID - 1 - idBase + 1
    BY <2>1, FS_Interval
  <2>. QED
    BY <2>1, <2>2 DEF TypeOK
<1>5. Cardinality(Peer) \in Nat
  BY PeerAssumption, FS_CardinalityType
<1>. QED
  BY <1>3, <1>4, <1>5 DEF TypeOK

\* handleConnect keeps the invariant.
LEMMA ConnectRegistry ==
  ASSUME TypeOK, RegistryInv, NEW p \in Peer, handleConnect(p)
  PROVE  RegistryInv'
<1>1. PICK id \in 0..currentClientID :
        /\ newClientID(id)
        /\ clients' = [i \in DOMAIN clients \cup {id} |-> IF i = id THEN p ELSE clients[i]]
        /\ data' = [data EXCEPT ![p] = id]
  BY DEF handleConnect
<1>2. /\ host /\ host' = host /\ idBase' = idBase
      /\ state[p] = "CONNECTION_PENDING"
      /\ state' = [state EXCEPT ![p] = "CONNECTED"]
  BY DEF handleConnect, InService, historyVars
<1>3. p \notin Attached /\ Attached' = Attached \cup {p}
  BY <1>2 DEF Attached, TypeOK
<1>4. DOMAIN clients' = DOMAIN clients \cup {id}
  BY <1>1
<1>5. HostlessIdle'
  BY <1>2 DEF HostlessIdle
<1>6. RegistryExact'
  <2>1. id \notin DOMAIN clients
    BY <1>1, <1>2, NewIDIsFree
  <2>2. \A q \in Attached : q # p /\ data'[q] = data[q] /\ data[q] # id
    BY <1>1, <1>3, <2>1 DEF RegistryInv, RegistryExact, TypeOK, Attached
  <2>3. data'[p] = id /\ clients'[id] = p
    BY <1>1 DEF TypeOK
  <2>4. \A i \in DOMAIN clients : clients'[i] = clients[i]
    BY <1>1, <2>1
  <2>. QED
    BY <1>3, <1>4, <2>2, <2>3, <2>4 DEF RegistryInv, RegistryExact
<1>7. IDsPartitioned'
  <2>1. idBase' <= currentClientID'
    BY <1>2, <1>1 DEF RegistryInv, IDsPartitioned, TypeOK, newClientID
  <2>2. /\ DOMAIN clients' \cup Range(possibleIDs)' = idBase'..(currentClientID' - 1)
        /\ DOMAIN clients' \cap Range(possibleIDs)' = {}
        /\ Distinct(possibleIDs)'
    BY <1>1, <1>2, <1>4, NewIDIsFree DEF Range, Distinct
  <2>. QED
    BY <2>1, <2>2 DEF IDsPartitioned, Distinct
<1>8. IDsBounded'
  <2>1. CASE currentClientID' = currentClientID
    BY <1>2, <2>1 DEF RegistryInv, IDsBounded
  <2>2. CASE currentClientID' = currentClientID + 1 /\ DOMAIN clients = idBase..(currentClientID - 1)
    <3>1. currentClientID - idBase < Cardinality(Peer)
      BY <1>3, <2>2, FreeSlotLeavesRoom DEF RegistryInv, IDsPartitioned
    <3>2. Cardinality(Peer) \in Nat
      BY PeerAssumption, FS_CardinalityType
    <3>. QED
      BY <1>2, <2>2, <3>1, <3>2 DEF IDsBounded, TypeOK
  <2>. QED
    BY <1>1, <1>2, <2>1, <2>2, NewIDIsFree
<1>. QED
  BY <1>5, <1>6, <1>7, <1>8 DEF RegistryInv

\* handleDisconnect keeps the invariant.
LEMMA DisconnectRegistry ==
  ASSUME TypeOK, RegistryInv, NEW p \in Peer, handleDisconnect(p)
  PROVE  RegistryInv'
<1>1. /\ host /\ host' = host /\ idBase' = idBase /\ data' = data
      /\ currentClientID' = currentClientID
      /\ state[p] = "ZOMBIE"
      /\ state' = [state EXCEPT ![p] = "DISCONNECTED"]
      /\ possibleIDs' = Append(possibleIDs, data[p])
      /\ clients' = [i \in DOMAIN clients \ {data[p]} |-> clients[i]]
  BY DEF handleDisconnect, InService, historyVars, Restrict
<1>2. p \in Attached /\ Attached' = Attached \ {p}
  BY <1>1 DEF Attached, TypeOK
<1>3. data[p] \in DOMAIN clients /\ clients[data[p]] = p /\ data[p] \in Nat
  BY <1>2 DEF RegistryInv, RegistryExact, TypeOK
<1>4. HostlessIdle'
  BY <1>1 DEF HostlessIdle
<1>5. RegistryExact'
  BY <1>1, <1>2, <1>3 DEF RegistryInv, RegistryExact
<1>6. IDsPartitioned'
  <2>1. data[p] \notin Range(possibleIDs) /\ Distinct(possibleIDs)
    BY <1>3 DEF RegistryInv, IDsPartitioned, Distinct
  <2>2. Range(possibleIDs)' = Range(possibleIDs) \cup {data[p]} /\ Distinct(possibleIDs)'
    <3>1. possibleIDs \in Seq(Nat)
      BY DEF TypeOK
    <3>2. /\ Range(Append(possibleIDs, data[p])) = Range(possibleIDs) \cup {data[p]}
          /\ Distinct(Append(possibleIDs, data[p]))
      BY <1>3, <2>1, <3>1, PushDistinct
    <3>. QED
      BY <1>1, <3>2 DEF Range, Distinct
  <2>3. DOMAIN clients' \cup Range(possibleIDs)' = DOMAIN clients \cup Range(possibleIDs)
    BY <1>1, <1>3, <2>2
  <2>4. DOMAIN clients' \cap Range(possibleIDs)' = {}
    BY <1>1, <2>1, <2>2 DEF RegistryInv, IDsPartitioned
  <2>. QED
    BY <1>1, <2>2, <2>3, <2>4 DEF RegistryInv, IDsPartitioned, Distinct
<1>7. IDsBounded'
  BY <1>1 DEF RegistryInv, IDsBounded
<1>. QED
  BY <1>4, <1>5, <1>6, <1>7 DEF RegistryInv

\* Every step keeps the invariant.
LEMMA NextRegistry ==
  ASSUME TypeOK, RegistryInv, [Next]_vars
  PROVE  RegistryInv'
<1>1. CASE Enet
  <2>1. ASSUME NEW p \in Peer, NEW i \in Packet, EnetReceive(p, i) PROVE Quiet
    BY <2>1 DEF EnetReceive, Quiet, serverVars, historyVars
  <2>2. ASSUME NEW p \in Peer, EnetSend(p) PROVE Quiet
    BY <2>2 DEF EnetSend, Quiet, serverVars, historyVars
  <2>. QED
    BY <1>1, <2>1, <2>2, QuietRegistry, EnetConnectRegistry, EnetDisconnectRegistry DEF Enet
<1>2. CASE tick \/ tickReturns \/ tickNullHost \/ callbackReturns \/ callbackThrows
  <2>1. Quiet
    BY <1>2 DEF tick, tickReturns, tickNullHost, callbackReturns, callbackThrows,
       Quiet, serverVars, enetVars, historyVars
  <2>. QED
    BY <2>1, QuietRegistry
<1>3. CASE \E p \in Peer : handleReceive(p)
  <2>1. UNCHANGED <<host, clients, possibleIDs, currentClientID, state, data, idBase>>
    BY <1>3 DEF handleReceive, serverVars
  <2>. QED
    BY <2>1 DEF RegistryInv, HostlessIdle, RegistryExact, IDsPartitioned, IDsBounded, Attached
<1>4. CASE \E p \in Peer : handleConnect(p) \/ handleDisconnect(p)
  BY <1>4, ConnectRegistry, DisconnectRegistry
<1>5. CASE Application
  <2>1. ASSUME NEW i \in Identifier, setMessageCallback(i) \/ removeMessageCallback(i) PROVE Quiet
    BY <2>1 DEF setMessageCallback, removeMessageCallback, Quiet, enetVars, historyVars
  <2>. QED
    BY <1>5, <2>1, Sends, SendQuiet, QuietRegistry, ClearRegistry
<1>6. CASE UNCHANGED vars
  <2>1. Quiet
    BY <1>6 DEF vars, Quiet, serverVars, enetVars, historyVars
  <2>. QED
    BY <2>1, QuietRegistry
<1>. QED
  BY <1>1, <1>2, <1>3, <1>4, <1>5, <1>6 DEF Next, Tick

(***************************************************************************)
(* The invariant of the registry: the map, peer->data and the queue of     *)
(* possible IDs stay consistent through every interleaving of events,      *)
(* listens and terminates, and a server without a host has no clients.     *)
(***************************************************************************)
THEOREM RegistryInvariant == Spec => []RegistryInv
<1>1. TypeOK /\ RegistryInv /\ [Next]_vars => RegistryInv'
  BY NextRegistry
<1>. QED
  BY InitRegistry, <1>1, TypeCorrect, PTL DEF Spec

(***************************************************************************)
(* The map clients and the ID kept in peer->data always agree: whatever    *)
(* connects, disconnects, listens and terminates happened, handleReceive   *)
(* and handleDisconnect, which read peer->data, and the send functions,    *)
(* which read the map, talk about the same client.                         *)
(***************************************************************************)
THEOREM RegistryIsExact == Spec => []RegistryExact
<1>1. RegistryInv => RegistryExact
  BY DEF RegistryInv
<1>. QED
  BY <1>1, RegistryInvariant, PTL

(***************************************************************************)
(* No ID is lost or given to two clients: what newClientID gave out since  *)
(* listen is in the map, or once in the queue handleDisconnect fills.      *)
(***************************************************************************)
THEOREM IDsArePartitioned == Spec => []IDsPartitioned
<1>1. RegistryInv => IDsPartitioned
  BY DEF RegistryInv
<1>. QED
  BY <1>1, RegistryInvariant, PTL

(***************************************************************************)
(* A host gives out at most as many different IDs as it has peer slots,    *)
(* however many clients come and go: reuse in newClientID keeps up.        *)
(***************************************************************************)
THEOREM IDsAreBounded == Spec => []IDsBounded
<1>1. RegistryInv => IDsBounded
  BY DEF RegistryInv
<1>. QED
  BY <1>1, RegistryInvariant, PTL
-----------------------------------------------------------------------------
(***************************************************************************)
(* What the application is told by its callbacks stays true, provided that *)
(* every ID fits in the LNetByte that handleReceive casts it to.           *)
(***************************************************************************)

(* IDs keep below the number of listen calls times the number of peers. *)

N == Cardinality(Peer)

IDsCapped ==
    /\ listens <= MaxListens
    /\ currentClientID <= listens * N
    /\ host => idBase + N <= listens * N

\* The number of peer slots is a natural number.
LEMMA NType == N \in Nat
  BY PeerAssumption, FS_CardinalityType DEF N

\* Facts about multiplication that bound the counter of IDs.
LEMMA Products ==
  ASSUME NEW a \in Nat, NEW n \in Nat
  PROVE  /\ a * n \in Nat
         /\ (a + 1) * n = a * n + n
         /\ \A b \in Nat : a <= b => a * n <= b * n
  OBVIOUS

\* No ID has been given out and no listen called.
LEMMA InitCapped == Init => IDsCapped
  BY NType, BoundAssumption DEF Init, IDsCapped

\* Each listen adds at most one ID per peer slot to the counter.
LEMMA NextCapped ==
  ASSUME TypeOK, RegistryInv, IDsCapped, [Next]_vars
  PROVE  IDsCapped'
<1>0. TypeOK' /\ RegistryInv'
  BY NextType, NextRegistry
<1>1. CASE listen
  <2>1. /\ listens' = listens + 1 /\ listens < MaxListens
        /\ currentClientID' = currentClientID /\ idBase' = currentClientID
    BY <1>1 DEF listen
  <2>2. listens' * N = listens * N + N /\ listens * N \in Nat
    BY <2>1, NType, Products DEF TypeOK
  <2>. QED
    BY <2>1, <2>2, NType, BoundAssumption DEF IDsCapped, TypeOK
<1>2. CASE terminate
  BY <1>2 DEF terminate, historyVars, IDsCapped
<1>3. CASE \E p \in Peer : handleConnect(p)
  <2>1. host /\ host' = host /\ listens' = listens /\ idBase' = idBase
    BY <1>3 DEF handleConnect, InService, historyVars
  <2>2. currentClientID' - idBase' <= N
    BY <1>0 DEF RegistryInv, IDsBounded, N
  <2>3. listens * N \in Nat
    BY NType, Products DEF TypeOK
  <2>. QED
    BY <1>0, <2>1, <2>2, <2>3, NType DEF IDsCapped, TypeOK
<1>4. CASE \E p \in Peer : handleDisconnect(p) \/ handleReceive(p)
  BY <1>4 DEF handleDisconnect, handleReceive, serverVars, historyVars, IDsCapped
<1>5. CASE Enet
  BY <1>5 DEF Enet, EnetConnect, EnetDisconnect, EnetReceive, EnetSend,
     serverVars, historyVars, IDsCapped
<1>6. CASE tick \/ tickReturns \/ tickNullHost \/ callbackReturns \/ callbackThrows
  BY <1>6 DEF tick, tickReturns, tickNullHost, callbackReturns, callbackThrows,
     serverVars, historyVars, IDsCapped
<1>7. CASE \E i \in Identifier : setMessageCallback(i) \/ removeMessageCallback(i)
  BY <1>7 DEF setMessageCallback, removeMessageCallback, historyVars, IDsCapped
<1>8. CASE Send
  BY <1>8, SendQuiet DEF Quiet, IDsCapped
<1>9. CASE UNCHANGED vars
  BY <1>9 DEF vars, serverVars, historyVars, IDsCapped
<1>. QED
  BY <1>1, <1>2, <1>3, <1>4, <1>5, <1>6, <1>7, <1>8, <1>9, Sends DEF Next, Tick

\* The cast to LNetByte keeps the ID of an attached peer.
LEMMA ArgIsID ==
  ASSUME IDsFit, TypeOK, RegistryInv, IDsCapped, NEW p \in Attached
  PROVE  CallbackArg(p) = data[p]
<1>1. data[p] \in Nat /\ data[p] < currentClientID
  BY DEF RegistryInv, RegistryExact, IDsPartitioned, TypeOK, Attached
<1>2. listens * N <= MaxListens * N /\ listens * N \in Nat /\ MaxListens * N \in Nat
  BY NType, Products, BoundAssumption DEF TypeOK, IDsCapped
<1>3. data[p] < ByteRange
  BY <1>1, <1>2, BoundAssumption DEF IDsFit, IDsCapped, TypeOK, N
<1>. QED
  BY <1>1, <1>3, BoundAssumption DEF CallbackArg
-----------------------------------------------------------------------------
(* The running callback. *)

CallInv ==
    /\ pc = "callback" => call # {}
    /\ pc \in {"app", "tick"} => call = {}
    /\ \A k \in call :
          /\ k.at <= listens
          /\ host /\ k.at = listens => k.peer \in Attached /\ k.arg = data[k.peer]

\* No callback runs at first.
LEMMA InitCall == Init => CallInv
  BY DEF Init, CallInv

\* The running callback keeps its peer attached and its argument exact.
LEMMA NextCall ==
  ASSUME IDsFit, TypeOK, RegistryInv, IDsCapped, CallInv, [Next]_vars
  PROVE  CallInv'
<1>1. CASE listen
  <2>1. listens' = listens + 1 /\ call' = call /\ pc' = pc
    BY <1>1 DEF listen, controlVars
  <2>2. \A k \in call : k.at \in Nat /\ k.at <= listens /\ k.at # listens'
    BY <2>1 DEF TypeOK, Call, CallInv
  <2>. QED
    BY <2>1, <2>2 DEF CallInv, TypeOK
<1>2. CASE terminate
  BY <1>2 DEF terminate, controlVars, historyVars, CallInv
<1>3. CASE \E p \in Peer : handleConnect(p) \/ handleDisconnect(p)
  BY <1>3 DEF handleConnect, handleDisconnect, InService, controlVars, CallInv
<1>4. CASE \E p \in Peer : handleReceive(p)
  <2>1. PICK p \in Peer : handleReceive(p)
    BY <1>4
  <2>2. /\ p \in Attached /\ (Attached' = Attached) /\ data' = data /\ listens' = listens
        /\ pc = "tick" /\ call = {}
    BY <2>1 DEF handleReceive, InService, Attached, CallInv
  <2>3. CallbackArg(p) = data[p]
    BY <2>2, ArgIsID
  <2>4. CASE pc' = pc /\ call' = call
    BY <2>2, <2>4 DEF CallInv
  <2>5. CASE /\ pc' = "callback"
             /\ \E i : call' = {[peer |-> p, type |-> i, arg |-> data[p], at |-> listens]}
    <3>1. \A k \in call' : k.peer = p /\ k.arg = data[p] /\ k.at = listens
      BY <2>5
    <3>2. call' # {}
      BY <2>5
    <3>. QED
      BY <2>2, <2>5, <3>1, <3>2 DEF CallInv, TypeOK
  <2>6. CASE pc' = "app" /\ call' = call
    BY <2>2, <2>6 DEF CallInv
  <2>. QED
    BY <2>1, <2>3, <2>4, <2>5, <2>6 DEF handleReceive, controlVars
<1>5. CASE Enet
  BY <1>5 DEF Enet, EnetConnect, EnetDisconnect, EnetReceive, EnetSend, InService,
     controlVars, CallInv
<1>6. CASE tick \/ tickReturns \/ tickNullHost
  <2>1. pc \in {"app", "tick"} /\ pc' # "callback" /\ call' = call
    BY <1>6 DEF tick, tickReturns, tickNullHost, InService
  <2>. QED
    BY <2>1 DEF CallInv
<1>10. CASE callbackReturns \/ callbackThrows
  BY <1>10 DEF callbackReturns, callbackThrows, CallInv
<1>7. CASE \E i \in Identifier : setMessageCallback(i) \/ removeMessageCallback(i)
  <2>1. /\ pc' \in {pc, "crashed"}
        /\ UNCHANGED <<host, state, data, call, listens>>
    BY <1>7 DEF setMessageCallback, removeMessageCallback, Replace, enetVars, historyVars
  <2>. QED
    BY <2>1 DEF CallInv, Attached
<1>8. CASE Send
  BY <1>8, SendQuiet DEF Quiet, CallInv, Attached
<1>9. CASE UNCHANGED vars
  BY <1>9 DEF vars, serverVars, enetVars, controlVars, historyVars, CallInv, Attached
<1>. QED
  BY <1>1, <1>2, <1>3, <1>4, <1>5, <1>6, <1>7, <1>8, <1>9, <1>10, Sends DEF Next, Tick

(***************************************************************************)
(* When every ID fits in an LNetByte, a message callback is told the ID    *)
(* under which the server finds the sender, until the callback itself      *)
(* terminates or restarts the server.                                      *)
(***************************************************************************)
THEOREM CallbacksNameSender == IDsFit => (Spec => []CallbackNamesSender)
<1>. SUFFICES ASSUME IDsFit PROVE Spec => []CallbackNamesSender
  OBVIOUS
<1>1. Init => IDsCapped /\ CallInv
  BY InitCapped, InitCall
<1>2. TypeOK /\ RegistryInv /\ IDsCapped /\ CallInv /\ [Next]_vars => IDsCapped' /\ CallInv'
  BY NextCapped, NextCall
<1>3. TypeOK /\ RegistryInv /\ CallInv => CallbackNamesSender
  BY DEF RegistryInv, RegistryExact, CallInv, CallbackNamesSender
<1>. QED
  BY <1>1, <1>2, <1>3, TypeCorrect, RegistryInvariant, PTL DEF Spec
-----------------------------------------------------------------------------
(* What callbacks told the application before. *)

\* Sessions are numbered as connections are opened, and what was learned
\* about a session that still lasts is the ID stored with its peer.
HandleInv ==
    /\ \A p \in Peer : session[p] <= connects
    /\ \A h \in learned : h.session <= connects
    /\ \A p, q \in Peer :
          /\ state[p] # "DISCONNECTED" /\ state[q] # "DISCONNECTED"
          /\ session[p] = session[q]
          => p = q
    /\ \A p \in Peer : state[p] = "CONNECTION_PENDING" =>
          \A h \in learned : h.session # session[p]
    /\ \A p \in Attached, h \in learned : h.session = session[p] => h.id = data[p]

\* Nothing is learned at first.
LEMMA InitHandle == Init => HandleInv
  BY DEF Init, HandleInv, Attached

\* Steps that touch no session, state, data or handle keep the invariant.
LEMMA QuietHandle ==
  ASSUME HandleInv, UNCHANGED <<state, data, session, connects, learned>>
  PROVE  HandleInv'
  BY DEF HandleInv, Attached

\* New connections get session numbers no handle has.
LEMMA EnetHandle ==
  ASSUME TypeOK, HandleInv, NEW p \in Peer, EnetConnect(p) \/ EnetDisconnect(p)
  PROVE  HandleInv'
<1>1. CASE EnetConnect(p)
  <2>1. /\ state[p] = "DISCONNECTED" /\ state' = [state EXCEPT ![p] = "CONNECTION_PENDING"]
        /\ connects' = connects + 1 /\ session' = [session EXCEPT ![p] = connects + 1]
        /\ data' = data /\ learned' = learned
    BY <1>1 DEF EnetConnect
  <2>2. Attached' = Attached /\ p \notin Attached
    BY <2>1 DEF Attached, TypeOK
  <2>3. \A q \in Peer : session[q] \in Nat /\ session[q] <= connects
    BY DEF TypeOK, HandleInv
  <2>4. \A h \in learned : h.session \in Nat /\ h.session <= connects
    BY DEF TypeOK, HandleInv, Handle
  <2>5. \A q \in Peer : q # p => session'[q] = session[q] /\ state'[q] = state[q]
    BY <2>1 DEF TypeOK
  <2>6. session'[p] = connects + 1 /\ connects \in Nat
    BY <2>1 DEF TypeOK
  <2>7. \A q \in Attached : q # p /\ q \in Peer
    BY <2>2 DEF Attached
  <2>8. \A q \in Peer : session'[q] <= connects'
    BY <2>1, <2>3, <2>5, <2>6
  <2>9. \A h \in learned' : h.session <= connects'
    BY <2>1, <2>4, <2>6
  <2>10. \A q, r \in Peer :
            /\ state'[q] # "DISCONNECTED" /\ state'[r] # "DISCONNECTED"
            /\ session'[q] = session'[r]
            => q = r
    BY <2>3, <2>5, <2>6 DEF HandleInv
  <2>11. \A q \in Peer : state'[q] = "CONNECTION_PENDING" =>
            \A h \in learned' : h.session # session'[q]
    BY <2>1, <2>4, <2>5, <2>6 DEF HandleInv
  <2>12. \A q \in Attached', h \in learned' : h.session = session'[q] => h.id = data'[q]
    BY <2>1, <2>2, <2>5, <2>7 DEF HandleInv
  <2>. QED
    BY <2>8, <2>9, <2>10, <2>11, <2>12 DEF HandleInv
<1>2. CASE EnetDisconnect(p)
  <2>1. /\ state[p] \in {"CONNECTION_PENDING", "CONNECTED"}
        /\ state' = [state EXCEPT ![p] = IF @ = "CONNECTED" THEN "ZOMBIE" ELSE "DISCONNECTED"]
        /\ UNCHANGED <<data, session, connects, learned>>
    BY <1>2 DEF EnetDisconnect, historyVars
  <2>2. Attached' = Attached
    BY <2>1 DEF Attached, TypeOK
  <2>3. \A q \in Peer : state'[q] # "DISCONNECTED" => state[q] # "DISCONNECTED"
    BY <2>1 DEF TypeOK
  <2>4. \A q \in Peer : state'[q] = "CONNECTION_PENDING" => state[q] = "CONNECTION_PENDING"
    BY <2>1 DEF TypeOK
  <2>. QED
    BY <2>1, <2>2, <2>3, <2>4 DEF HandleInv
<1>. QED
  BY <1>1, <1>2

\* The event handlers keep every handle with the ID of its session.
LEMMA HandlerHandle ==
  ASSUME IDsFit, TypeOK, RegistryInv, IDsCapped, HandleInv, NEW p \in Peer,
         handleConnect(p) \/ handleDisconnect(p) \/ handleReceive(p)
  PROVE  HandleInv'
<1>1. CASE handleConnect(p)
  <2>1. /\ state[p] = "CONNECTION_PENDING" /\ state' = [state EXCEPT ![p] = "CONNECTED"]
        /\ UNCHANGED <<session, connects, learned>>
        /\ \A q \in Peer : q # p => data'[q] = data[q]
    BY <1>1 DEF handleConnect, historyVars, TypeOK
  <2>2. Attached' = Attached \cup {p}
    BY <2>1 DEF Attached, TypeOK
  <2>3. \A q \in Peer : /\ state'[q] # "DISCONNECTED" => state[q] # "DISCONNECTED"
                        /\ state'[q] = "CONNECTION_PENDING" => state[q] = "CONNECTION_PENDING"
    BY <2>1 DEF TypeOK
  <2>4. \A q \in Attached', h \in learned' : h.session = session'[q] => h.id = data'[q]
    BY <2>1, <2>2 DEF HandleInv, Attached
  <2>. QED
    BY <2>1, <2>3, <2>4 DEF HandleInv
<1>2. CASE handleDisconnect(p)
  <2>1. /\ state' = [state EXCEPT ![p] = "DISCONNECTED"]
        /\ UNCHANGED <<data, session, connects, learned>>
    BY <1>2 DEF handleDisconnect, historyVars
  <2>2. \A q \in Peer : /\ state'[q] # "DISCONNECTED" => state[q] # "DISCONNECTED"
                        /\ state'[q] = "CONNECTION_PENDING" => state[q] = "CONNECTION_PENDING"
    BY <2>1 DEF TypeOK
  <2>3. Attached' \subseteq Attached
    BY <2>1 DEF Attached, TypeOK
  <2>. QED
    BY <2>1, <2>2, <2>3 DEF HandleInv
<1>3. CASE handleReceive(p)
  <2>1. /\ state[p] = "CONNECTED" /\ p \in Attached
        /\ UNCHANGED <<state, data, session, connects>>
        /\ \/ learned' = learned
           \/ learned' = learned \cup {[id |-> CallbackArg(p), session |-> session[p]]}
    BY <1>3 DEF handleReceive, Attached
  <2>2. CallbackArg(p) = data[p]
    BY <2>1, ArgIsID
  <2>3. \A h \in learned' : h \in learned \/ (h.id = data[p] /\ h.session = session[p])
    BY <2>1, <2>2
  <2>4. \A h \in learned' : h.session <= connects
    BY <2>3 DEF HandleInv
  <2>5. \A q \in Peer : state[q] = "CONNECTION_PENDING" =>
            \A h \in learned' : h.session # session[q]
    BY <2>1, <2>3 DEF HandleInv
  <2>6. \A q \in Attached, h \in learned' : h.session = session[q] => h.id = data[q]
    BY <2>1, <2>3 DEF HandleInv, Attached
  <2>. QED
    BY <2>1, <2>4, <2>5, <2>6 DEF HandleInv, Attached
<1>. QED
  BY <1>1, <1>2, <1>3

\* listen and terminate leave no peer attached.
LEMMA ClearHandle ==
  ASSUME TypeOK, RegistryInv, HandleInv, listen \/ terminate
  PROVE  HandleInv'
<1>1. \A p \in Peer : state'[p] = "DISCONNECTED"
  BY DEF listen, terminate, FreshHost, RegistryInv, HostlessIdle, enetVars
<1>2. UNCHANGED <<session, connects, learned>>
  BY DEF listen, terminate, historyVars
<1>3. Attached' = {}
  BY <1>1 DEF Attached
<1>. QED
  BY <1>1, <1>2, <1>3 DEF HandleInv

\* Every step keeps the invariant of the handles.
LEMMA NextHandle ==
  ASSUME IDsFit, TypeOK, RegistryInv, IDsCapped, HandleInv, [Next]_vars
  PROVE  HandleInv'
<1>1. CASE Enet
  <2>1. ASSUME NEW p \in Peer, EnetSend(p) \/ \E i \in Packet : EnetReceive(p, i)
        PROVE  UNCHANGED <<state, data, session, connects, learned>>
    BY <2>1 DEF EnetSend, EnetReceive, historyVars
  <2>. QED
    BY <1>1, <2>1, EnetHandle, QuietHandle DEF Enet
<1>2. CASE tick \/ tickReturns \/ tickNullHost \/ callbackReturns \/ callbackThrows
  <2>1. UNCHANGED <<state, data, session, connects, learned>>
    BY <1>2 DEF tick, tickReturns, tickNullHost, callbackReturns, callbackThrows,
       enetVars, historyVars
  <2>. QED
    BY <2>1, QuietHandle
<1>3. CASE \E p \in Peer : handleConnect(p) \/ handleDisconnect(p) \/ handleReceive(p)
  BY <1>3, HandlerHandle
<1>4. CASE listen \/ terminate
  BY <1>4, ClearHandle
<1>5. CASE \E i \in Identifier : setMessageCallback(i) \/ removeMessageCallback(i)
  <2>1. UNCHANGED <<state, data, session, connects, learned>>
    BY <1>5 DEF setMessageCallback, removeMessageCallback, enetVars, historyVars
  <2>. QED
    BY <2>1, QuietHandle
<1>6. CASE Send \/ UNCHANGED vars
  <2>1. UNCHANGED <<state, data, session, connects, learned>>
    BY <1>6, SendQuiet DEF Quiet, vars, enetVars, historyVars
  <2>. QED
    BY <2>1, QuietHandle
<1>. QED
  BY <1>1, <1>2, <1>3, <1>4, <1>5, <1>6, Sends DEF Next, Tick

(***************************************************************************)
(* When every ID fits in an LNetByte, an ID that any earlier callback told *)
(* the application names that client for as long as its connection lasts,  *)
(* through all connects, disconnects and reuse of IDs by newClientID.      *)
(***************************************************************************)
THEOREM HandlesStayValid == IDsFit => (Spec => []HandleStaysValid)
<1>. SUFFICES ASSUME IDsFit PROVE Spec => []HandleStaysValid
  OBVIOUS
<1>1. Init => IDsCapped /\ HandleInv
  BY InitCapped, InitHandle
<1>2. TypeOK /\ RegistryInv /\ IDsCapped /\ HandleInv /\ [Next]_vars => IDsCapped' /\ HandleInv'
  BY NextCapped, NextHandle
<1>3. TypeOK /\ RegistryInv /\ HandleInv => HandleStaysValid
  BY DEF RegistryInv, RegistryExact, HandleInv, HandleStaysValid
<1>. QED
  BY <1>1, <1>2, <1>3, TypeCorrect, RegistryInvariant, PTL DEF Spec
-----------------------------------------------------------------------------
(***************************************************************************)
(* StreamServer implements ClientRegistry, provided that every ID fits in  *)
(* an LNetByte.  The map, the queue and the counter disappear: an abstract *)
(* member is a peer in the map, under the ID kept in peer->data.           *)
(***************************************************************************)

\* The refinement mapping, as Registry substitutes it.
idOf    == [p \in Range(clients) |-> data[p]]
serving == {k.arg : k \in call}

IInv == RegistryInv /\ IDsCapped /\ CallInv

\* Stated of any map c, so that it also serves for the next state.
LEMMA ExactRange ==
  ASSUME NEW c, NEW d, NEW A,
         \A p \in A : d[p] \in DOMAIN c /\ c[d[p]] = p,
         \A id \in DOMAIN c : c[id] \in A
  PROVE  Range(c) = A
  BY DEF Range

\* The registered members are the attached peers.
LEMMA MembersAreAttached ==
  ASSUME RegistryExact
  PROVE  Range(clients) = Attached
  BY ExactRange DEF RegistryExact

\* The same in the next state.
LEMMA MembersAreAttachedNext ==
  ASSUME RegistryExact'
  PROVE  Range(clients)' = Attached'
<1>1. /\ \A p \in Attached' : data'[p] \in DOMAIN clients' /\ clients'[data'[p]] = p
      /\ \A id \in DOMAIN clients' : clients'[id] \in Attached'
  BY DEF RegistryExact
<1>2. Range(clients') = Attached'
  BY <1>1, ExactRange
<1>. QED
  BY <1>2 DEF Range

\* The initial state maps to an empty registry.
LEMMA InitRefines == Init => Registry!Init
<1>. SUFFICES ASSUME Init PROVE Registry!Init
  OBVIOUS
<1>1. Range(clients) = {}
  BY EmptyType DEF Init, Range
<1>. QED
  BY <1>1 DEF Init, Registry!Init, Registry!Empty

\* Steps that change neither map, data nor call are stutters.
LEMMA StutterRefines ==
  ASSUME UNCHANGED <<clients, data, call>>
  PROVE  UNCHANGED Registry!vars
  BY DEF Registry!vars, Range

\* handleConnect is Join.
LEMMA JoinRefines ==
  ASSUME TypeOK, IInv, NEW p \in Peer, handleConnect(p)
  PROVE  Registry!Join(p)
<1>1. PICK id \in 0..currentClientID :
        /\ newClientID(id)
        /\ clients' = [i \in DOMAIN clients \cup {id} |-> IF i = id THEN p ELSE clients[i]]
        /\ data' = [data EXCEPT ![p] = id]
  BY DEF handleConnect
<1>2. /\ host /\ state[p] = "CONNECTION_PENDING" /\ state' = [state EXCEPT ![p] = "CONNECTED"]
      /\ call' = call
  BY DEF handleConnect, InService, controlVars
<1>3. TypeOK' /\ RegistryInv'
  BY ConnectRegistry, HandlerType DEF IInv
<1>4. Range(clients) = Attached /\ (Range(clients))' = Attached'
  BY <1>3, MembersAreAttached, MembersAreAttachedNext DEF RegistryInv, IInv
<1>5. p \notin Attached /\ Attached' = Attached \cup {p}
  BY <1>2 DEF Attached, TypeOK
<1>6. idOf' = [n \in Attached \cup {p} |-> data'[n]] /\ idOf = [n \in Attached |-> data[n]]
  BY <1>4, <1>5 DEF idOf
<1>7. data'[p] = id /\ \A n \in Attached : n # p /\ data'[n] = data[n]
  BY <1>1, <1>5 DEF TypeOK, Attached
<1>8. id \notin DOMAIN clients
  BY <1>1, <1>2, NewIDIsFree DEF IInv
<1>9. \A n \in Attached : data[n] # id
  BY <1>8 DEF IInv, RegistryInv, RegistryExact
<1>10. p \notin DOMAIN idOf /\ DOMAIN idOf' = DOMAIN idOf \cup {p} /\ idOf'[p] = id
  BY <1>5, <1>6, <1>7
<1>11. idOf' = [n \in DOMAIN idOf \cup {p} |-> IF n = p THEN idOf'[p] ELSE idOf[n]]
  BY <1>5, <1>6, <1>7
<1>12. \A n \in DOMAIN idOf : idOf[n] # idOf'[p]
  BY <1>6, <1>9, <1>10
<1>13. serving' = serving /\ id \in Nat
  BY <1>2 DEF serving, TypeOK
<1>. QED
  BY <1>10, <1>11, <1>12, <1>13 DEF Registry!Join, idOf, serving

\* handleDisconnect is Leave.
LEMMA LeaveRefines ==
  ASSUME TypeOK, IInv, NEW p \in Peer, handleDisconnect(p)
  PROVE  Registry!Leave(p)
<1>1. /\ state[p] = "ZOMBIE" /\ state' = [state EXCEPT ![p] = "DISCONNECTED"]
      /\ call' = call /\ data' = data
  BY DEF handleDisconnect, controlVars
<1>2. TypeOK' /\ RegistryInv'
  BY DisconnectRegistry, HandlerType DEF IInv
<1>3. Range(clients) = Attached /\ (Range(clients))' = Attached'
  BY <1>2, MembersAreAttached, MembersAreAttachedNext DEF RegistryInv, IInv
<1>4. p \in Attached /\ Attached' = Attached \ {p}
  BY <1>1 DEF Attached, TypeOK
<1>5. idOf' = [n \in Attached \ {p} |-> data[n]] /\ idOf = [n \in Attached |-> data[n]]
  BY <1>1, <1>3, <1>4 DEF idOf
<1>6. serving' = serving
  BY <1>1 DEF serving
<1>. QED
  BY <1>4, <1>5, <1>6 DEF Registry!Leave, idOf, serving

\* listen and terminate are Clear.
LEMMA ClearRefines ==
  ASSUME listen \/ terminate
  PROVE  Registry!Clear
<1>1. clients' = Empty /\ call' = call
  BY DEF listen, terminate, controlVars
<1>2. (Range(clients))' = {}
  BY <1>1, EmptyType DEF Range
<1>. QED
  BY <1>1, <1>2 DEF Registry!Clear, Registry!Empty

\* handleReceive is Deliver when it runs a callback, else a stutter.
LEMMA ReceiveRefines ==
  ASSUME IDsFit, TypeOK, IInv, NEW p \in Peer, handleReceive(p)
  PROVE  Registry!Deliver(p) \/ UNCHANGED Registry!vars
<1>1. /\ pc = "tick" /\ call = {} /\ p \in Attached /\ UNCHANGED <<clients, data>>
  BY DEF handleReceive, InService, Attached, serverVars, IInv, CallInv
<1>2. CallbackArg(p) = data[p]
  BY <1>1, ArgIsID DEF IInv
<1>3. CASE call' = call
  BY <1>1, <1>3, StutterRefines
<1>4. CASE \E i : call' = {[peer |-> p, type |-> i, arg |-> data[p], at |-> listens]}
  <2>1. Range(clients) = Attached /\ (Range(clients))' = Range(clients)
    BY <1>1, MembersAreAttached DEF IInv, RegistryInv, Range
  <2>2. serving = {} /\ serving' = {data[p]}
    BY <1>1, <1>4 DEF serving
  <2>3. p \in DOMAIN idOf /\ idOf[p] = data[p] /\ idOf' = idOf
    BY <1>1, <2>1 DEF idOf
  <2>. QED
    BY <2>2, <2>3 DEF Registry!Deliver, idOf, serving
<1>. QED
  BY <1>2, <1>3, <1>4 DEF handleReceive, controlVars

\* The end of a callback is Finish.
LEMMA FinishRefines ==
  ASSUME TypeOK, IInv, callbackReturns \/ callbackThrows
  PROVE  Registry!Finish
<1>1. call # {} /\ call' = {} /\ UNCHANGED <<clients, data>>
  BY DEF callbackReturns, callbackThrows, serverVars, enetVars, IInv, CallInv
<1>2. (Range(clients))' = Range(clients)
  BY <1>1 DEF Range
<1>. QED
  BY <1>1, <1>2 DEF Registry!Finish

\* Every step of the server is a step of the registry or a stutter.
LEMMA NextRefines ==
  ASSUME IDsFit, TypeOK, IInv, [Next]_vars
  PROVE  [Registry!Next]_(Registry!vars)
<1>1. CASE \E p \in Peer : handleConnect(p) \/ handleDisconnect(p) \/ handleReceive(p)
  BY <1>1, JoinRefines, LeaveRefines, ReceiveRefines DEF Registry!Next
<1>2. CASE listen \/ terminate
  BY <1>2, ClearRefines DEF Registry!Next
<1>3. CASE callbackReturns \/ callbackThrows
  BY <1>3, FinishRefines DEF Registry!Next
<1>4. CASE Enet \/ tick \/ tickReturns \/ tickNullHost
  <2>1. UNCHANGED <<clients, data, call>>
    BY <1>4 DEF Enet, EnetConnect, EnetDisconnect, EnetReceive, EnetSend,
       tick, tickReturns, tickNullHost, serverVars, enetVars, controlVars
  <2>. QED
    BY <2>1, StutterRefines
<1>5. CASE (\E i \in Identifier : setMessageCallback(i) \/ removeMessageCallback(i)) \/ Send \/ UNCHANGED vars
  <2>1. UNCHANGED <<clients, data, call>>
    BY <1>5, SendQuiet DEF setMessageCallback, removeMessageCallback, Quiet, vars,
       serverVars, enetVars, controlVars
  <2>. QED
    BY <2>1, StutterRefines
<1>. QED
  BY <1>1, <1>2, <1>3, <1>4, <1>5, Sends DEF Next, Tick

(***************************************************************************)
(* The server with its map, queue and counter of IDs behaves like the      *)
(* registry: a client keeps one ID while it is connected, no two clients   *)
(* share one, and a callback is handed the ID of the sender.               *)
(***************************************************************************)
THEOREM ServerImplementsRegistry == IDsFit => (Spec => RegistrySpec)
<1>. SUFFICES ASSUME IDsFit PROVE Spec => Registry!Spec
  BY DEF RegistrySpec
<1>1. Init => IDsCapped /\ CallInv
  BY InitCapped, InitCall
<1>2. TypeOK /\ RegistryInv /\ IDsCapped /\ CallInv /\ [Next]_vars => IDsCapped' /\ CallInv'
  BY NextCapped, NextCall
<1>3. TypeOK /\ RegistryInv /\ IDsCapped /\ CallInv /\ [Next]_vars => [Registry!Next]_(Registry!vars)
  BY NextRefines DEF IInv
<1>. QED
  BY InitRefines, <1>1, <1>2, <1>3, TypeCorrect, RegistryInvariant, PTL DEF Spec, Registry!Spec
=============================================================================
