-------------------------- MODULE StreamDemoProofs --------------------------
(***************************************************************************)
(* The invariants of StreamClient, for any identifiers and bounds, and the *)
(* demo program: the client and the server in it are those of StreamClient *)
(* and StreamServer, and its threads call them when they may.              *)
(***************************************************************************)
EXTENDS StreamDemo, FiniteSetTheorems, SequenceTheorems, TLAPS

-----------------------------------------------------------------------------
(* The client. *)

\* The type invariant carries the other: that a live peer is one of three
\* states is all it needs.
ClientInv == TypeOK /\ ConnectionIsLive

\* Queues may be empty.
LEMMA EmptyQueues == <<>> \in Seq(Packet) /\ <<>> \in Seq(Message)
  OBVIOUS

LEMMA InitInvariant == Init => ClientInv
<1> SUFFICES ASSUME Init PROVE ClientInv
  OBVIOUS
<1>1. inbox \in Seq(Packet) /\ outbox \in Seq(Message)
  BY EmptyQueues DEF Init
<1>2. TypeOK
  BY <1>1 DEF Init, TypeOK, ConnectionState
<1>. QED
  BY <1>2 DEF Init, ClientInv, ConnectionIsLive

\* A send adds to the queue of a standing connection only.
LEMMA SendInvariant ==
    ASSUME ClientInv, NEW m \in Message, send(m)
    PROVE  ClientInv'
<1> USE DEF ClientInv, TypeOK, ConnectionIsLive, Live, memberVars, send
<1>1. CASE connection = "CONNECTED"
  BY <1>1
<1>2. CASE connection # "CONNECTED"
  BY <1>2
<1>. QED
  BY <1>1, <1>2

LEMMA NextInvariant == ClientInv /\ [Next]_vars => ClientInv'
<1> SUFFICES ASSUME ClientInv, [Next]_vars PROVE ClientInv'
  OBVIOUS
<1> USE DEF ClientInv, TypeOK, ConnectionIsLive, ConnectionState, Live,
            Event, InService, memberVars, enetVars
<1>1. CASE EnetConnected
  BY <1>1 DEF EnetConnected
<1>2. CASE EnetDisconnected
  BY <1>2 DEF EnetDisconnected
<1>3. CASE EnetSend
  BY <1>3 DEF EnetSend
<1>4. ASSUME NEW i \in Packet, EnetReceive(i) PROVE ClientInv'
  BY <1>4 DEF EnetReceive
<1>5. CASE connect
  <2>1. connects' \in Nat /\ inbox' = <<>> /\ outbox' = <<>>
    BY <1>5 DEF connect
  <2>2. CASE host' = TRUE /\ connection' = "CONNECTING"
    BY <1>5, EmptyQueues, <2>1, <2>2 DEF connect
  <2>3. CASE host' = FALSE /\ UNCHANGED connection
    BY <1>5, EmptyQueues, <2>1, <2>3 DEF connect
  <2>. QED
    BY <1>5, <2>2, <2>3 DEF connect
<1>6. CASE tick
  BY <1>6 DEF tick
<1>7. CASE handleEvent
  BY <1>7 DEF handleEvent
<1>8. CASE handleReceive
  BY <1>8 DEF handleReceive
<1>9. CASE tickReturns
  BY <1>9 DEF tickReturns
<1>10. CASE terminate
  <2>1. host' = FALSE /\ connection' \in ConnectionState
    BY <1>10 DEF terminate
  <2>. QED
    BY <1>10, EmptyQueues, <2>1 DEF terminate
<1>11. CASE flush
  <2>1. outbox' \in Seq(Message) /\ (outbox' = <<>> \/ outbox' = outbox)
    BY <1>11, EmptyQueues DEF flush
  <2>2. pc' \in {"app", "crashed"}
    BY <1>11 DEF flush
  <2>. QED
    BY <1>11, <2>1, <2>2 DEF flush
<1>12. ASSUME NEW i \in Identifier, sendReliable(i) \/ sendUnreliable(i) PROVE ClientInv'
  BY <1>12, SendInvariant DEF sendReliable, sendUnreliable, Message
<1>13. CASE UNCHANGED vars
  BY <1>13 DEF vars
<1>. QED
  BY <1>1, <1>2, <1>3, <1>4, <1>5, <1>6, <1>7, <1>8, <1>9, <1>10, <1>11, <1>12, <1>13,
     SendInvariant DEF Next

LEMMA ClientInvariant == Spec => []ClientInv
  BY InitInvariant, NextInvariant, PTL DEF Spec
-----------------------------------------------------------------------------
\* Every variable of the client keeps its type.
THEOREM ClientTypeCorrect == Spec => []TypeOK
<1>1. ClientInv => TypeOK
  BY DEF ClientInv
<1>. QED
  BY <1>1, ClientInvariant, PTL

\* A client with a host always has a live peer behind connection.
THEOREM HostHasPeer == Spec => []ConnectionIsLive
<1>1. ClientInv => ConnectionIsLive
  BY DEF ClientInv
<1>. QED
  BY <1>1, ClientInvariant, PTL
-----------------------------------------------------------------------------
(* The demo program. *)

LEMMA DemoClientInit == DemoInit => Init
  BY DEF DemoInit

\* A step of the program is a step of its client or leaves the client alone.
LEMMA DemoClientStep == [DemoNext]_demoVars => [Next]_vars
<1> SUFFICES ASSUME [DemoNext]_demoVars PROVE [Next]_vars
  OBVIOUS
<1>1. CASE Network
  BY <1>1 DEF Network, requestArrives, clientConnected, serverConnected, clientDisconnected,
     serverDisconnected, packetLeaves, packetArrives, Next
<1>2. CASE ServerThread
  BY <1>2 DEF ServerThread, serverListens, serverSetsCallback, serverTicks, serverLeaves
<1>3. CASE ClientThread
  BY <1>3, HelloAssumption DEF ClientThread, clientConnects, clientSends, clientRound, Next
<1>4. CASE MainThread
  BY <1>4 DEF MainThread
<1>5. CASE UNCHANGED demoVars
  BY <1>5 DEF demoVars
<1>. QED
  BY <1>1, <1>2, <1>3, <1>4, <1>5 DEF DemoNext

\* The client of the program is a Client: what holds of every Client holds of it.
THEOREM DemoHasClient == DemoSpec => Spec
  BY DemoClientInit, DemoClientStep, PTL DEF DemoSpec, Spec

\* Where the threads are and what they have: before its loop the server thread
\* is in no callback, and once it listened it has a host; main starts each
\* thread once.
ServerHasHost ==
    /\ serverAt \in {"set callback", "loop"} => shost
    /\ serverAt \in {"idle", "start", "set callback"} => spc = "app" /\ call = {}
    /\ spc # "crashed"

ClientHasHost == (clientAt = "loop" => host) /\ pc # "crashed"

StartsOnce ==
    /\ mainAt = "start server" => serverAt = "idle"
    /\ mainAt \in {"start server", "start client"} => clientAt = "idle"

DemoInv == ServerHasHost /\ ClientHasHost /\ StartsOnce /\ wire \in Seq(Identifier)

LEMMA DemoInvInit == DemoInit => DemoInv
<1>1. <<>> \in Seq(Identifier)
  BY EmptyQueues
<1>. QED
  BY <1>1 DEF DemoInit, DemoInv, ServerHasHost, ClientHasHost, StartsOnce, Init, S!Init

\* What DemoInv reads of the server.
LEMMA ServerUntouched == UNCHANGED serverVars => UNCHANGED <<shost, spc, call>>
  BY DEF serverVars

\* ENet calls no function of the server, and delivers messages to it.
LEMMA EnetServerStep ==
    ASSUME \/ S!EnetConnect(slot) \/ S!EnetDisconnect(slot)
           \/ \E i \in Identifier : S!EnetReceive(slot, i)
    PROVE  S!Next /\ UNCHANGED <<shost, spc, call>>
<1>1. S!Next
  BY DEF S!Next, S!Enet, S!Packet
<1>. QED
  BY <1>1 DEF S!EnetConnect, S!EnetDisconnect, S!EnetReceive, S!serverVars, S!controlVars

\* The network serves hosts that are there; what it delivers is a message.
LEMMA NetworkStep ==
    ASSUME ClientInv, DemoInv, Network
    PROVE  DemoInv' /\ [S!Next]_serverVars
<1>1. UNCHANGED threadVars
  BY DEF Network, requestArrives, clientConnected, serverConnected, clientDisconnected,
     serverDisconnected, packetLeaves, packetArrives
<1>2. UNCHANGED <<mainAt, serverAt, clientAt>>
  BY <1>1 DEF threadVars
<1>3. /\ [S!Next]_serverVars
      /\ UNCHANGED <<shost, spc, call>>
      /\ UNCHANGED <<host, pc>>
      /\ wire' \in Seq(Identifier)
  <2>1. wire \in Seq(Identifier)
    BY DEF DemoInv
  <2>2. CASE requestArrives \/ clientConnected
    BY <2>1, <2>2, ServerUntouched DEF requestArrives, clientConnected, EnetConnected, vars, memberVars
  <2>3. CASE serverConnected \/ serverDisconnected
    BY <2>1, <2>3, EnetServerStep DEF serverConnected, serverDisconnected, networkVars, vars, memberVars
  <2>4. CASE clientDisconnected
    BY <2>4, EmptyQueues, ServerUntouched DEF clientDisconnected, EnetDisconnected
  <2>5. CASE packetLeaves
    <3>1. outbox \in Seq(Message) /\ outbox # <<>>
      BY <2>5 DEF packetLeaves, EnetSend, ClientInv, TypeOK
    <3>2. Head(outbox) \in Message
      BY <3>1, HeadTailProperties
    <3>3. Head(outbox).type \in Identifier
      BY <3>2 DEF Message
    <3>4. wire' \in Seq(Identifier)
      BY <2>1, <2>5, <3>3, AppendProperties DEF packetLeaves
    <3>. QED
      BY <2>5, <3>4, ServerUntouched DEF packetLeaves, EnetSend, memberVars
  <2>6. CASE packetArrives
    <3>1. Head(wire) \in Identifier /\ Tail(wire) \in Seq(Identifier)
      BY <2>1, <2>6, HeadTailProperties DEF packetArrives
    <3>. QED
      BY <2>6, <3>1, EnetServerStep, ServerUntouched DEF packetArrives, vars, memberVars
  <2>. QED
    BY <2>2, <2>3, <2>4, <2>5, <2>6 DEF Network
<1>. QED
  BY <1>2, <1>3 DEF DemoInv, ServerHasHost, ClientHasHost, StartsOnce

\* The server thread calls its server when it may, and keeps the host that it
\* checked for.
LEMMA ServerThreadStep ==
    ASSUME DemoInv, ServerThread
    PROVE  DemoInv' /\ S!Next
<1>1. /\ UNCHANGED <<wire, host, pc, clientAt>>
      /\ mainAt' \in {mainAt, "thrown"}
      /\ serverAt # "idle"
  BY DEF ServerThread, serverListens, serverSetsCallback, serverTicks, serverLeaves, vars, memberVars,
     networkVars, threadVars
<1> USE DEF DemoInv, ServerHasHost, ClientHasHost, StartsOnce
<1>2. CASE serverListens
  <2>1. S!Next
    BY <1>2 DEF serverListens, S!Next, S!Application
  <2>2. UNCHANGED <<spc, call>>
    BY <1>2 DEF serverListens, S!listen, S!controlVars
  <2>. QED
    BY <1>1, <1>2, <2>1, <2>2 DEF serverListens
<1>3. CASE serverSetsCallback
  <2>1. S!Next
    BY <1>3, HelloAssumption DEF serverSetsCallback, S!Next, S!Application
  <2>2. UNCHANGED <<shost, spc, call>>
    BY <1>3 DEF serverSetsCallback, S!setMessageCallback, S!Replace
  <2>. QED
    BY <1>1, <1>3, <2>1, <2>2 DEF serverSetsCallback
<1>4. CASE serverTicks
  <2>1. S!Next
    BY <1>4 DEF serverTicks, S!Next, S!Tick
  <2>2. shost' = shost /\ (spc' = spc \/ spc' \in {"tick", "app", "callback"})
    BY <1>4 DEF serverTicks, S!tick, S!handleConnect, S!handleDisconnect, S!handleReceive,
       S!callbackReturns, S!tickReturns, S!serverVars, S!controlVars
  <2>. QED
    BY <1>1, <1>4, <2>1, <2>2 DEF serverTicks, threadVars
<1>5. CASE serverLeaves
  <2>1. S!Next
    BY <1>5 DEF serverLeaves, S!Next, S!Application
  <2>2. UNCHANGED <<spc, call>>
    BY <1>5 DEF serverLeaves, S!terminate, S!controlVars
  <2>. QED
    BY <1>1, <1>5, <2>1, <2>2 DEF serverLeaves
<1>. QED
  BY <1>2, <1>3, <1>4, <1>5 DEF ServerThread

\* The client thread has a host in its loop, hence a live peer to send to.
LEMMA ClientThreadStep ==
    ASSUME ClientInv, DemoInv, ClientThread
    PROVE  DemoInv' /\ UNCHANGED serverVars
<1>1. /\ UNCHANGED serverVars
      /\ UNCHANGED <<wire, serverAt>>
      /\ mainAt' \in {mainAt, "thrown"}
      /\ clientAt # "idle"
  BY DEF ClientThread, clientConnects, clientSends, clientRound, networkVars
<1>2. (clientAt' = "loop" => host') /\ pc' # "crashed" /\ clientAt' # "idle"
  <2> USE DEF DemoInv, ClientHasHost
  <2>1. CASE clientConnects
    BY <2>1 DEF clientConnects, connect
  <2>2. CASE clientSends
    <3>1. connection \in Live
      BY <2>2 DEF clientSends, isConnected, ClientInv, ConnectionIsLive
    <3>2. UNCHANGED <<host, pc>>
      BY <2>2, <3>1 DEF clientSends, sendUnreliable, send, memberVars
    <3>. QED
      BY <2>2, <3>2 DEF clientSends
  <2>3. CASE clientRound
    BY <2>3 DEF clientRound, tick, handleEvent, tickReturns, vars, memberVars
  <2>. QED
    BY <2>1, <2>2, <2>3 DEF ClientThread
<1>3. mainAt \notin {"start server", "start client"}
  BY <1>1 DEF DemoInv, StartsOnce
<1>. QED
  BY <1>1, <1>2, <1>3, ServerUntouched DEF DemoInv, ServerHasHost, ClientHasHost, StartsOnce

\* main starts each thread from rest.
LEMMA MainThreadStep ==
    ASSUME DemoInv, MainThread
    PROVE  DemoInv' /\ UNCHANGED serverVars
<1>1. /\ UNCHANGED serverVars
      /\ UNCHANGED <<wire, host, pc>>
  BY DEF MainThread, networkVars, vars, memberVars
<1>2. UNCHANGED <<shost, spc, call>>
  BY <1>1, ServerUntouched
<1> USE DEF DemoInv, ServerHasHost, ClientHasHost, StartsOnce
<1>3. CASE mainStartsServer
  BY <1>1, <1>2, <1>3 DEF mainStartsServer
<1>4. CASE mainStartsClient
  BY <1>1, <1>2, <1>4 DEF mainStartsClient
<1>5. CASE mainStops \/ mainJoins
  <2>1. mainAt' \in {"join server", "join client", "returned"} /\ UNCHANGED <<serverAt, clientAt>>
    <3>1. CASE mainStops
      BY <3>1 DEF mainStops
    <3>2. CASE mainJoins
      <4>1. PICK j \in {<<"join server", serverAt, "join client">>, <<"join client", clientAt, "returned">>} :
                 mainAt' = j[3]
        BY <3>2 DEF mainJoins
      <4>2. CASE j = <<"join server", serverAt, "join client">>
        BY <3>2, <4>1, <4>2 DEF mainJoins
      <4>3. CASE j = <<"join client", clientAt, "returned">>
        BY <3>2, <4>1, <4>3 DEF mainJoins
      <4>. QED
        BY <4>1, <4>2, <4>3
    <3>. QED
      BY <1>5, <3>1, <3>2
  <2>. QED
    BY <1>1, <1>2, <2>1
<1>. QED
  BY <1>3, <1>4, <1>5 DEF MainThread

LEMMA DemoStep ==
    ASSUME ClientInv, DemoInv, [DemoNext]_demoVars
    PROVE  DemoInv' /\ [S!Next]_serverVars
<1>1. CASE UNCHANGED demoVars
  BY <1>1 DEF demoVars, DemoInv, ServerHasHost, ClientHasHost, StartsOnce, vars, memberVars,
     networkVars, threadVars, serverVars
<1>. QED
  BY <1>1, NetworkStep, ServerThreadStep, ClientThreadStep, MainThreadStep DEF DemoNext

LEMMA DemoInvariant == DemoSpec => [](ClientInv /\ DemoInv)
<1>1. DemoSpec => []ClientInv
  BY DemoHasClient, ClientInvariant, PTL
<1>. QED
  BY <1>1, DemoInvInit, DemoStep, PTL DEF DemoSpec

\* No thread of the program uses a host or a peer that is not there.
THEOREM LoopsAlwaysHaveHosts == DemoSpec => []LoopsHaveHosts
<1>1. DemoInv => LoopsHaveHosts
  BY DEF DemoInv, ServerHasHost, ClientHasHost, LoopsHaveHosts
<1>. QED
  BY <1>1, DemoInvariant, PTL

\* The server of the program is a Server: what holds of every Server holds of it.
THEOREM DemoHasServer == DemoSpec => S!Spec
<1>1. DemoInit => S!Init
  BY DEF DemoInit
<1>2. serverVars' = serverVars => S!vars' = S!vars
  BY DEF serverVars, S!vars, S!serverVars, S!enetVars, S!controlVars, S!historyVars
<1>3. ASSUME ClientInv, DemoInv, [DemoNext]_demoVars PROVE [S!Next]_S!vars
  BY <1>3, <1>2, DemoStep
<1>. QED
  BY <1>1, <1>3, DemoInvariant, PTL DEF DemoSpec, S!Spec
-----------------------------------------------------------------------------
(* What StreamServerProofs shows of every server, for the demo's server. *)

P == INSTANCE StreamServerProofs WITH
    Peer <- {slot}, ByteRange <- 256,
    MaxListens <- 1, MaxConnects <- 1, ReceiveBound <- 1, SendBound <- 0,
    host <- shost, inbox <- sinbox, outbox <- soutbox, pc <- spc, connects <- sconnects

\* The instance with the theorems is the instance of the program.
LEMMA SameServer == S!Spec => P!Spec
<1>1. S!Init => P!Init
  BY DEF P!Init, S!Init, S!Empty, P!Empty
<1>2. [S!Next]_S!vars => [P!Next]_P!vars
  BY Zenon DEF S!Next, P!Next, S!Enet, P!Enet, S!Tick, P!Tick, S!Application, P!Application,
     S!EnetConnect, P!EnetConnect, S!EnetDisconnect, P!EnetDisconnect, S!EnetReceive, P!EnetReceive,
     S!EnetSend, P!EnetSend, S!InService, P!InService, S!InApp, P!InApp,
     S!tick, P!tick, S!tickReturns, P!tickReturns, S!tickNullHost, P!tickNullHost,
     S!handleConnect, P!handleConnect, S!newClientID, P!newClientID,
     S!handleDisconnect, P!handleDisconnect, S!Restrict, P!Restrict,
     S!handleReceive, P!handleReceive, S!CallbackArg, P!CallbackArg, S!Short, P!Short,
     S!Packet, P!Packet, S!Message, P!Message,
     S!callbackReturns, P!callbackReturns, S!callbackThrows, P!callbackThrows,
     S!listen, P!listen, S!terminate, P!terminate, S!Empty, P!Empty, S!FreshHost, P!FreshHost,
     S!setMessageCallback, P!setMessageCallback, S!removeMessageCallback, P!removeMessageCallback,
     S!Replace, P!Replace, S!KnownIDs, P!KnownIDs, S!EnetPeerSend, P!EnetPeerSend,
     S!sendClient, P!sendClient, S!sendBroadcast, P!sendBroadcast,
     S!sendBroadcastExcept, P!sendBroadcastExcept,
     S!sendReliableClient, P!sendReliableClient, S!sendUnreliableClient, P!sendUnreliableClient,
     S!sendReliableBroadcast, P!sendReliableBroadcast,
     S!sendUnreliableBroadcast, P!sendUnreliableBroadcast,
     S!sendReliableBroadcastExcept, P!sendReliableBroadcastExcept,
     S!sendUnreliableBroadcastExcept, P!sendUnreliableBroadcastExcept,
     S!serverVars, P!serverVars, S!enetVars, P!enetVars, S!controlVars, P!controlVars,
     S!historyVars, P!historyVars, S!vars, P!vars
<1>. QED
  BY <1>1, <1>2, PTL DEF S!Spec, P!Spec

\* The one client of the demo has an ID that fits in a byte.
LEMMA DemoIDsFit == P!IsFiniteSet({slot}) /\ P!IDsFit
<1>1. P!IsFiniteSet({slot})
  BY FS_Singleton DEF P!IsFiniteSet, IsFiniteSet
<1>2. P!Cardinality({slot}) = Cardinality({slot})
  BY Zenon DEF P!Cardinality, Cardinality
<1>3. P!IDsFit
  BY <1>2, FS_Singleton DEF P!IDsFit
<1>. QED
  BY <1>1, <1>3

\* In the program of Source.cpp the registry is exact, and the ID its callback
\* is told is that of the client whose message it prints, then and later.
THEOREM DemoServerIsCorrect ==
    DemoSpec => [](S!RegistryExact /\ S!CallbackNamesSender /\ S!HandleStaysValid)
<1>1. P!Short \notin Identifier
  BY HelloAssumption DEF P!Short, S!Short
<1>2. P!Spec => []P!RegistryExact
  BY <1>1, DemoIDsFit, P!RegistryIsExact
<1>3. P!Spec => []P!CallbackNamesSender
  BY <1>1, DemoIDsFit, P!CallbacksNameSender
<1>4. P!Spec => []P!HandleStaysValid
  BY <1>1, DemoIDsFit, P!HandlesStayValid
<1>5. P!RegistryExact => S!RegistryExact
  BY DEF P!RegistryExact, S!RegistryExact, P!Attached, S!Attached
<1>6. P!CallbackNamesSender => S!CallbackNamesSender
  BY DEF P!CallbackNamesSender, S!CallbackNamesSender
<1>7. P!HandleStaysValid => S!HandleStaysValid
  BY DEF P!HandleStaysValid, S!HandleStaysValid, P!Attached, S!Attached
<1>. QED
  BY <1>2, <1>3, <1>4, <1>5, <1>6, <1>7, DemoHasServer, SameServer, PTL
=============================================================================
