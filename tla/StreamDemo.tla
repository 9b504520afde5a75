----------------------------- MODULE StreamDemo -----------------------------
(***************************************************************************)
(* The program of Source.cpp: main starts a thread that runs a Server and  *)
(* a thread that runs a Client, stops the server after a while and joins   *)
(* both threads.  The threads share the atomic isRunning only; the client  *)
(* and one peer slot of the server meet over the network.  An exception    *)
(* that leaves a thread ends the program.                                  *)
(***************************************************************************)
EXTENDS StreamClient

CONSTANTS slot,        \* the peer slot the client is given
          helloMessage \* the identifier of the one message

VARIABLES
    (* the server: StreamServer, with another name where the client has it *)
    shost, clients, possibleIDs, currentClientID, messageCallbacks,
    state, data, sinbox, soutbox, spc, call,
    listens, sconnects, idBase, session, learned,
    (* the network *)
    link,       \* how far the handshake got
    wire,       \* packets of the client under way
    (* the threads *)
    isRunning, mainAt, serverAt, clientAt,
    sent        \* the client got to its twelfth round

S == INSTANCE StreamServer WITH
    Peer <- {slot}, ByteRange <- 256,
    MaxListens <- 1, MaxConnects <- 1, ReceiveBound <- 1, SendBound <- 0,
    host <- shost, inbox <- sinbox, outbox <- soutbox, pc <- spc, connects <- sconnects

ASSUME HelloAssumption == helloMessage \in Identifier /\ S!Short \notin Identifier

serverVars  == <<shost, clients, possibleIDs, currentClientID, messageCallbacks,
                 state, data, sinbox, soutbox, spc, call,
                 listens, sconnects, idBase, session, learned>>
threadVars  == <<isRunning, mainAt, serverAt, clientAt, sent>>
networkVars == <<link, wire>>
demoVars == <<serverVars, vars, networkVars, threadVars>>

DemoInit ==
    /\ Init
    /\ S!Init
    /\ link = "none"
    /\ wire = <<>>
    /\ isRunning = TRUE
    /\ mainAt = "start server"
    /\ serverAt = "idle"
    /\ clientAt = "idle"
    /\ sent = FALSE

\* The program is over for every thread when main returns or somebody throws.
Over == mainAt \in {"returned", "thrown"}
-----------------------------------------------------------------------------
(* The network: CONNECT, VERIFY_CONNECT, ACKNOWLEDGE and the packets. *)

requestArrives ==
    /\ link = "requested" /\ S!InService
    /\ link' = "answered"
    /\ UNCHANGED <<serverVars, vars, wire, threadVars>>

clientConnected ==
    /\ link = "answered"
    /\ EnetConnected
    /\ link' = "verified"
    /\ UNCHANGED <<serverVars, wire, threadVars>>

serverConnected ==
    /\ link = "verified"
    /\ S!EnetConnect(slot)
    /\ link' = "open"
    /\ UNCHANGED <<vars, wire, threadVars>>

\* The client hears that the server leaves, or nothing at all for too long.
clientDisconnected ==
    /\ EnetDisconnected
    /\ link' = "closed"
    /\ wire' = <<>>
    /\ UNCHANGED <<serverVars, threadVars>>

serverDisconnected ==
    /\ link = "closed"
    /\ S!EnetDisconnect(slot)
    /\ UNCHANGED <<vars, networkVars, threadVars>>

packetLeaves ==
    /\ EnetSend
    /\ wire' = Append(wire, Head(outbox).type)
    /\ UNCHANGED <<serverVars, link, threadVars>>

\* The packet is unreliable: it may be lost.
packetArrives ==
    /\ wire # <<>>
    /\ S!EnetReceive(slot, Head(wire)) \/ UNCHANGED serverVars
    /\ wire' = Tail(wire)
    /\ UNCHANGED <<vars, link, threadVars>>

Network ==
    /\ ~Over
    /\ \/ requestArrives \/ clientConnected \/ serverConnected
       \/ clientDisconnected \/ serverDisconnected
       \/ packetLeaves \/ packetArrives
-----------------------------------------------------------------------------
(* The server thread. *)

\* Slip: nobody notices that there is no host.
serverListensUnchecked ==
    /\ serverAt = "start"
    /\ S!listen
    /\ serverAt' = "set callback"
    /\ UNCHANGED <<vars, networkVars, isRunning, mainAt, clientAt, sent>>

serverListens ==
    /\ serverAt = "start"
    /\ S!listen
    /\ IF shost' THEN serverAt' = "set callback" /\ UNCHANGED mainAt
                ELSE mainAt' = "thrown" /\ UNCHANGED serverAt
    /\ UNCHANGED <<vars, networkVars, isRunning, clientAt, sent>>

serverSetsCallback ==
    /\ serverAt = "set callback"
    /\ S!setMessageCallback(helloMessage)
    /\ serverAt' = "loop"
    /\ UNCHANGED <<vars, networkVars, isRunning, mainAt, clientAt, sent>>

serverTicks ==
    /\ serverAt = "loop"
    /\ \/ S!tick /\ isRunning
       \/ S!handleConnect(slot) \/ S!handleDisconnect(slot) \/ S!handleReceive(slot)
       \/ S!callbackReturns \/ S!tickReturns
    /\ UNCHANGED <<vars, networkVars, threadVars>>

\* The loop is left and the destructor calls terminate.
serverLeaves ==
    /\ serverAt = "loop" /\ spc = "app" /\ ~isRunning
    /\ S!terminate
    /\ serverAt' = "done"
    /\ UNCHANGED <<vars, networkVars, isRunning, mainAt, clientAt, sent>>

ServerThread ==
    ~Over /\ (serverListens \/ serverSetsCallback \/ serverTicks \/ serverLeaves)
-----------------------------------------------------------------------------
(* The client thread. *)

clientConnects ==
    /\ clientAt = "start"
    /\ connect
    /\ IF host' THEN clientAt' = "loop" /\ link' = "requested" /\ UNCHANGED mainAt
                 ELSE mainAt' = "thrown" /\ UNCHANGED <<clientAt, link>>
    /\ UNCHANGED <<serverVars, wire, isRunning, serverAt, sent>>

\* Round 12 comes once; which round finds the handshake done is open.
clientSends ==
    /\ clientAt = "loop" /\ isConnected /\ ~sent
    /\ sendUnreliable(helloMessage)
    /\ sent' = TRUE
    /\ UNCHANGED <<serverVars, networkVars, isRunning, mainAt, serverAt, clientAt>>

\* Slip: the loop does not call tick.
clientRoundNoTick ==
    /\ clientAt = "loop" /\ ~isConnected
    /\ clientAt' = "done"
    /\ UNCHANGED <<serverVars, vars, networkVars, isRunning, mainAt, serverAt, sent>>

\* One round of the loop, or the way out of it.
clientRound ==
    /\ clientAt = "loop"
    /\ IF pc = "app" /\ ~isConnected
       THEN clientAt' = "done" /\ UNCHANGED vars
       ELSE /\ tick \/ handleEvent \/ tickReturns
            /\ UNCHANGED clientAt
    /\ UNCHANGED <<serverVars, networkVars, isRunning, mainAt, serverAt, sent>>

ClientThread ==
    ~Over /\ (clientConnects \/ clientSends \/ clientRound)
-----------------------------------------------------------------------------
(* main. *)

mainStartsServer ==
    /\ mainAt = "start server"
    /\ mainAt' = "start client"
    /\ serverAt' = "start"
    /\ UNCHANGED <<isRunning, clientAt>>

mainStartsClient ==
    /\ mainAt = "start client"
    /\ mainAt' = "simulate"
    /\ clientAt' = "start"
    /\ UNCHANGED <<isRunning, serverAt>>

\* Slip: the flag is not written.
mainStopsNoStore ==
    /\ mainAt = "simulate"
    /\ mainAt' = "join server"
    /\ UNCHANGED <<isRunning, serverAt, clientAt>>

mainStops ==
    /\ mainAt = "simulate"
    /\ mainAt' = "join server"
    /\ isRunning' = FALSE
    /\ UNCHANGED <<serverAt, clientAt>>

\* join returns when the thread is done: first the server's, then the client's.
mainJoins ==
    /\ \E j \in {<<"join server", serverAt, "join client">>,
                 <<"join client", clientAt, "returned">>} :
          mainAt = j[1] /\ j[2] = "done" /\ mainAt' = j[3]
    /\ UNCHANGED <<isRunning, serverAt, clientAt>>

MainThread ==
    /\ mainStartsServer \/ mainStartsClient \/ mainStops \/ mainJoins
    /\ UNCHANGED <<serverVars, vars, networkVars, sent>>
-----------------------------------------------------------------------------
DemoNext == Network \/ ServerThread \/ ClientThread \/ MainThread

\* The operating system runs every thread.  ENet gives up a connection whose
\* other end is gone in some later call of enet_host_service, and a call that
\* fails does not keep back an event for ever: the next one reports the events
\* that wait before it does anything else.
Fairness ==
    /\ WF_demoVars(MainThread)
    /\ WF_demoVars(ServerThread)
    /\ WF_demoVars(ClientThread)
    /\ SF_demoVars(~Over /\ serverAt = "done" /\ clientDisconnected)
    /\ SF_demoVars(~Over /\ clientRound /\ handleEvent)

DemoSpec == DemoInit /\ [][DemoNext]_demoVars /\ Fairness
-----------------------------------------------------------------------------
(* Properties. *)

\* Neither thread ever uses a host that is not there or a connection that
\* leads nowhere: failures of listen and connect, and the end of either side,
\* find the other thread outside its loop or with a host of its own.
LoopsHaveHosts ==
    /\ serverAt = "loop" => shost
    /\ clientAt = "loop" => host
    /\ spc # "crashed" /\ pc # "crashed"

\* The join of the server thread returns, whatever its last tick found: the
\* thread sees the flag and leaves its loop.
ServerThreadEnds == mainAt = "join server" ~> (serverAt = "done" \/ Over)

\* "Now stop the server and let the client receive the disconnection event"
\* (Source.cpp:91): a client that loops is told in the end.
ClientLearns ==
    (serverAt = "done" /\ clientAt = "loop") ~> (reported = "DISCONNECT" \/ Over)

\* main gets past "Wait for the client to process disconnection"
\* (Source.cpp:97).
ProgramEnds == <>Over
=============================================================================
