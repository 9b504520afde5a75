----------------------------- MODULE AsioServer -----------------------------
(***************************************************************************)
(* lnet::Server of LNetLibrary (LNetServer.hpp, with asyncRead of          *)
(* LNetTCP.hpp).  Several threads run the completion handlers of one       *)
(* asio::io_context, the program's own thread starts, stops and sends.     *)
(* The vector clients has no lock: a thread that is reading it while       *)
(* another one writes it may see anything, which is called raced below.    *)
(* asio is external: a finished operation is handled once, by any thread   *)
(* that is idle, until the io_context is stopped.  The same holds for the  *)
(* map of listeners.  The writes of the send functions touch no state of   *)
(* the server and are left out.  A message has a size its framing allows.  *)
(***************************************************************************)
EXTENDS Naturals, Sequences, FiniteSets

CONSTANTS
    Thread,       \* the io threads
    Main,         \* the thread of the program
    Socket,       \* bound: the sockets that are ever accepted
    None,         \* no socket: nullptr in clients
    Type,         \* the types of messages in use
    NoType,       \* no type of a message
    MaxStarts     \* bound: calls of startServer

ASSUME AsioConstants ==
    /\ IsFiniteSet(Thread) /\ Thread # {}
    /\ Main \notin Thread
    /\ None \notin Socket
    /\ NoType \notin Type
    /\ MaxStarts \in Nat

VARIABLES
    isRunning, clients,      \* members of Server
    msgCallbacks,            \* what it has for a type: "absent", "empty" or "set"
    stopped,                 \* ioContext.stop was called; nothing undoes it
    listening,               \* the acceptor listens
    accepts,                 \* async_accept calls that are outstanding
    at,                      \* what each thread does
    socket,                  \* "none", "unopened", "open" or "closed"
    read,                    \* the outstanding async_read and its callback
    wire,                    \* what is readable: "nothing", "header" or "whole"
    left,                    \* whether the other end has gone
    crashed,                 \* the program has died
    starts,                  \* number of startServer calls
    disconnected,            \* history: sockets handed to onDisconnect
    late                     \* history: a listener was added to a started server

netVars == <<socket, read, wire, left>>
context == <<stopped, listening, msgCallbacks>>
history == <<starts, disconnected, late>>
vars == <<isRunning, clients, context, accepts, at, netVars, crashed, history>>

\* Where a handler is: continueAccept at its push_back or in acceptCallback or
\* after a failed accept; asyncRead waiting for the payload; recievedMessage at
\* its look up or in the callbacks; handleDisconnection at its find or at its
\* assignment.  A thread in Stopping is in a part of stopServer; for the rest
\* the main thread is in "app" or gone.
Handler == {"push", "accepted", "failed", "payload", "lookup", "message", "find", "null"}
Stopping == {"closing", "stopping", "joining"}
Activity ==
    [do : Handler \cup Stopping \cup {"idle", "exited", "app", "gone"},
     sock : Socket \cup {None},
     type : Type \cup {NoType},          \* of the message that was read
     first : BOOLEAN,                    \* the callback given by continueAccept
     vec : {"no", "reading", "raced"},   \* a loop over clients, or a place in it
     map : {"no", "reading", "writing", "raced"}]  \* an access to msgCallbacks

Doing(do, s) ==
    [do |-> do, sock |-> s, type |-> NoType, first |-> FALSE, vec |-> "no", map |-> "no"]

TypeOK ==
    /\ isRunning \in BOOLEAN /\ stopped \in BOOLEAN /\ crashed \in BOOLEAN
    /\ clients \in Seq(Socket \cup {None})
    /\ listening \in BOOLEAN /\ late \in BOOLEAN
    /\ msgCallbacks \in [Type -> {"absent", "empty", "set"}]
    /\ accepts \in 0..(IF stopped THEN MaxStarts ELSE 1)
    /\ at \in [Thread \cup {Main} -> Activity]
    /\ socket \in [Socket -> {"none", "unopened", "open", "closed"}]
    /\ read \in [Socket -> {"none", "first", "repeat"}]
    /\ wire \in [Socket -> {"nothing", "header", "whole"}]
    /\ left \in [Socket -> BOOLEAN]
    /\ starts \in 0..MaxStarts
    /\ disconnected \subseteq Socket

Init ==
    /\ isRunning = FALSE
    /\ clients = <<>>
    /\ msgCallbacks = [type \in Type |-> "absent"]
    /\ stopped = FALSE
    /\ listening = FALSE
    /\ accepts = 0
    /\ at = [t \in Thread \cup {Main} |-> Doing(IF t = Main THEN "app" ELSE "idle", None)]
    /\ socket = [s \in Socket |-> "none"]
    /\ read = [s \in Socket |-> "none"]
    /\ wire = [s \in Socket |-> "nothing"]
    /\ left = [s \in Socket |-> FALSE]
    /\ crashed = FALSE
    /\ starts = 0
    /\ disconnected = {}
    /\ late = FALSE
-----------------------------------------------------------------------------
(* The vector and the map without a lock. *)

Pushing == {t \in Thread : at[t].do = "push"}

\* What a thread finds that begins to read the vector.
View == IF Pushing = {} THEN "reading" ELSE "raced"

\* Thread t goes on to a; when it writes, the readers of the moment are raced,
\* but for those the write does not harm.
Continue(t, a) == at' = [at EXCEPT ![t] = a]
Write(t, a, spared) ==
    at' = [u \in DOMAIN at |->
              IF u = t THEN a
              ELSE IF u \in spared \/ at[u].vec = "no" THEN at[u]
              ELSE [at[u] EXCEPT !.vec = "raced"]]

\* Thread t begins to read or to write the map and goes on to a: accesses that
\* overlap are raced, unless both only read.
Clash(u, how) == at[u].map # "no" /\ {at[u].map, how} # {"reading"}
Access(t, a, how) ==
    at' = [u \in DOMAIN at |->
              IF u = t
              THEN [a EXCEPT !.map = IF \E v \in DOMAIN at \ {t} : Clash(v, how)
                                     THEN "raced" ELSE how]
              ELSE [at[u] EXCEPT !.map = IF Clash(u, how) THEN "raced" ELSE @]]

\* A raced thread goes on as if nothing were wrong, or kills the program.
Survives(t) == crashed' \in IF "raced" \in {at[t].vec, at[t].map} THEN BOOLEAN ELSE {FALSE}
-----------------------------------------------------------------------------
(* The other ends of the connections. *)

remoteSends(s) ==
    /\ socket[s] = "open" /\ ~left[s]
    /\ \E w \in {<<"nothing", "header">>, <<"header", "whole">>} :
          wire[s] = w[1] /\ wire' = [wire EXCEPT ![s] = w[2]]
    /\ UNCHANGED <<isRunning, clients, context, accepts, at, socket, read, left, crashed, history>>

remoteLeaves(s) ==
    /\ socket[s] = "open" /\ ~left[s]
    /\ left' = [left EXCEPT ![s] = TRUE]
    /\ UNCHANGED <<isRunning, clients, context, accepts, at, socket, read, wire, crashed, history>>
-----------------------------------------------------------------------------
(* Accepting. *)

Ready(t) == at[t].do = "idle" /\ ~stopped

\* async_accept is finished, with a connection or with an error.
acceptCompletes(t, s) ==
    /\ Ready(t)
    /\ accepts > 0
    /\ socket[s] = "none"
    /\ accepts' = accepts - 1
    /\ \/ /\ socket' = [socket EXCEPT ![s] = "open"]
          /\ Write(t, Doing("push", s), {})
       \/ /\ socket' = [socket EXCEPT ![s] = "unopened"]
          /\ Continue(t, Doing("failed", s))
    /\ UNCHANGED <<isRunning, clients, context, read, wire, left, crashed, history>>

\* Slip: the new client is not stored.
onNewConnectionNoPush(t) ==
    /\ at[t].do = "push"
    /\ Write(t, Doing("accepted", at[t].sock), {})
    /\ UNCHANGED <<isRunning, clients, context, accepts, netVars, crashed, history>>

onNewConnection(t) ==
    /\ at[t].do = "push"
    /\ clients' = Append(clients, at[t].sock)
    /\ Write(t, Doing("accepted", at[t].sock), {})
    /\ UNCHANGED <<isRunning, context, accepts, netVars, crashed, history>>

\* Slip: a failed accept ends the chain of accepts.
continueAcceptStops(t) ==
    /\ at[t].do \in {"accepted", "failed"} /\ at[t].vec = "no"
    /\ read' = [read EXCEPT ![at[t].sock] = "first"]
    /\ accepts' = IF at[t].do = "failed" THEN accepts ELSE accepts + 1
    /\ Continue(t, Doing("idle", None))
    /\ UNCHANGED <<isRunning, clients, context, socket, wire, left, crashed, history>>

\* The end of continueAccept: asyncRead also of a socket that is not open, and
\* the next async_accept.
continueAccept(t) ==
    /\ at[t].do \in {"accepted", "failed"} /\ at[t].vec = "no" /\ at[t].map = "no"
    /\ read' = [read EXCEPT ![at[t].sock] = "first"]
    /\ accepts' = accepts + 1
    /\ Continue(t, Doing("idle", None))
    /\ UNCHANGED <<isRunning, clients, context, socket, wire, left, crashed, history>>
-----------------------------------------------------------------------------
(* Reading. *)

\* What the callback of asyncRead does with eof or reset, and with any other
\* error: only the callback of repeatRead tells them apart.
AfterRead(s, first, ended) ==
    IF ended /\ ~first THEN [Doing("find", s) EXCEPT !.vec = View]
                       ELSE Doing("message", s)

\* A read fails because the other end has gone, which it may report as an end
\* or as another error (timed_out, connection_aborted), or because the socket
\* is not open; a socket closed under a read may report either.  A reset takes
\* what has arrived with it.
Fails(s, ended) ==
    \/ left[s]
    \/ socket[s] = "closed"
    \/ ~ended /\ socket[s] = "unopened"

\* async_read of the header is finished.
asyncRead(t, s) ==
    /\ Ready(t)
    /\ read[s] # "none"
    /\ \/ /\ socket[s] = "open" /\ wire[s] # "nothing"
          /\ \E type \in Type :
                Continue(t, [Doing("payload", s) EXCEPT !.first = (read[s] = "first"),
                                                        !.type = type])
       \/ \E ended \in BOOLEAN :
             /\ Fails(s, ended)
             /\ Continue(t, AfterRead(s, read[s] = "first", ended))
    /\ read' = [read EXCEPT ![s] = "none"]
    /\ UNCHANGED <<isRunning, clients, context, accepts, socket, wire, left, crashed, history>>

\* Slip: the map is always written.
LookUpWrites(type) == "writing"

\* operator[] of the map writes when the type has no entry.
LookUp(type) == IF msgCallbacks[type] = "absent" THEN "writing" ELSE "reading"

\* The handler waits for the payload, and holds its thread as long.
readPayload(t) ==
    LET s == at[t].sock IN
    /\ at[t].do = "payload"
    /\ \/ /\ wire[s] = "whole"
          /\ Access(t, [Doing("lookup", s) EXCEPT !.type = at[t].type], LookUp(at[t].type))
       \/ \E ended \in BOOLEAN :
             /\ Fails(s, ended)
             /\ Continue(t, AfterRead(s, at[t].first, ended))
    /\ wire' = [wire EXCEPT ![s] = "nothing"]
    /\ UNCHANGED <<isRunning, clients, context, accepts, socket, read, left, crashed, history>>

\* operator[] has given the listener, or inserted an empty one.
recievedMessage(t) ==
    LET type == at[t].type IN
    /\ at[t].do = "lookup"
    /\ msgCallbacks' = [msgCallbacks EXCEPT ![type] = IF @ = "absent" THEN "empty" ELSE @]
    /\ Continue(t, [Doing("message", at[t].sock) EXCEPT
                        !.type = IF msgCallbacks[type] = "set" THEN type ELSE NoType])
    /\ Survives(t)
    /\ UNCHANGED <<isRunning, clients, stopped, listening, accepts, netVars, history>>

\* Slip: the next read is started before the callbacks run.
repeatReadEarly(t) ==
    /\ at[t].do = "message" /\ at[t].vec = "no"
    /\ read' = [read EXCEPT ![at[t].sock] = "repeat"]
    /\ UNCHANGED <<isRunning, clients, context, accepts, at, socket, wire, left, crashed, history>>

\* The callbacks of repeatRead return, and it reads on whatever ec was.
repeatRead(t) ==
    /\ at[t].do = "message" /\ at[t].vec = "no" /\ at[t].map = "no"
    /\ read' = [read EXCEPT ![at[t].sock] = "repeat"]
    /\ Continue(t, Doing("idle", None))
    /\ UNCHANGED <<isRunning, clients, context, accepts, socket, wire, left, crashed, history>>
-----------------------------------------------------------------------------
(* Disconnecting. *)

Listed(s) == \E i \in DOMAIN clients : clients[i] = s

\* Slip: the read of the disconnected socket is started again.
handleDisconnectionReads(t) ==
    LET s == at[t].sock IN
    /\ at[t].do = "find"
    /\ disconnected' = disconnected \cup {s}
    /\ socket' = [socket EXCEPT ![s] = "closed"]
    /\ read' = [read EXCEPT ![s] = "repeat"]
    /\ Continue(t, Doing("null", s))
    /\ UNCHANGED <<isRunning, clients, context, accepts, wire, left, crashed, starts, late>>

\* std::find, then onDisconnect and close, or the assertion.  What asserts is
\* a string literal, so that nothing happens there.  The iterator is kept.
handleDisconnection(t) ==
    LET s == at[t].sock IN
    /\ at[t].do = "find"
    /\ \/ /\ Listed(s)
          /\ disconnected' = disconnected \cup {s}
          /\ socket' = [socket EXCEPT ![s] = "closed"]
          /\ Continue(t, [Doing("null", s) EXCEPT !.vec = at[t].vec])
       \/ /\ ~Listed(s) \/ at[t].vec = "raced"
          /\ Continue(t, Doing("idle", None))
          /\ UNCHANGED <<socket, disconnected>>
    /\ Survives(t)
    /\ UNCHANGED <<isRunning, clients, context, accepts, read, wire, left, starts, late>>

\* clients[index] = nullptr.  A push_back since the find has moved the vector
\* from under the iterator, or is moving it now: the assignment may be lost.  It
\* harms those who read the entry, not those who hold the place of another.
clearClient(t) ==
    /\ at[t].do = "null"
    /\ \/ clients' = [i \in DOMAIN clients |->
                         IF clients[i] = at[t].sock THEN None ELSE clients[i]]
       \/ at[t].vec = "raced" /\ UNCHANGED clients
    /\ Write(t, Doing("idle", None), {u \in DOMAIN at : at[u].do = "null"})
    /\ Survives(t)
    /\ UNCHANGED <<isRunning, context, accepts, netVars, history>>
-----------------------------------------------------------------------------
(* The functions of the server, called by the program and by callbacks. *)

InApp(u) ==
    /\ at[u].vec = "no" /\ at[u].map = "no"
    /\ IF u = Main THEN at[u].do = "app" ELSE at[u].do \in {"accepted", "message"}

\* Slip: a server that runs is not told apart.
startServerUnchecked ==
    /\ InApp(Main)
    /\ starts < MaxStarts
    /\ starts' = starts + 1
    /\ isRunning' = TRUE /\ listening' = TRUE /\ accepts' = accepts + 1
    /\ UNCHANGED <<clients, stopped, msgCallbacks, at, netVars, crashed, disconnected, late>>

\* A server that runs is refused.  acceptor.listen may throw, and isRunning is
\* set by then.
startServer ==
    /\ InApp(Main)
    /\ starts < MaxStarts
    /\ starts' = starts + 1
    /\ \/ isRunning /\ UNCHANGED <<isRunning, accepts, listening>>
       \/ /\ ~isRunning
          /\ isRunning' = TRUE
          /\ \/ listening' = TRUE /\ accepts' = accepts + 1
             \/ UNCHANGED <<listening, accepts>>
    /\ UNCHANGED <<clients, stopped, msgCallbacks, at, netVars, crashed, disconnected, late>>

\* msgCallbacks[type] = callback.  A listener that is running when it is
\* replaced dies under its own call.
listenBegins(u) ==
    /\ InApp(u)
    /\ Access(u, at[u], "writing")
    /\ late' = (late \/ starts > 0)
    /\ UNCHANGED <<isRunning, clients, context, accepts, netVars, crashed, starts, disconnected>>

listenEnds(u, type) ==
    /\ at[u].map # "no" /\ at[u].do # "lookup"
    /\ msgCallbacks' = [msgCallbacks EXCEPT ![type] = "set"]
    /\ Continue(u, [at[u] EXCEPT !.map = "no"])
    /\ \/ Survives(u)
       \/ \E t \in Thread : at[t].type = type /\ at[t].do = "message" /\ crashed' = TRUE
    /\ UNCHANGED <<isRunning, clients, stopped, listening, accepts, netVars, history>>

\* The loop of sendAllClients and of sendAllClientsExcept.
sendBegins(u) ==
    /\ InApp(u)
    /\ Continue(u, [at[u] EXCEPT !.vec = View])
    /\ UNCHANGED <<isRunning, clients, context, accepts, netVars, crashed, history>>

sendEnds(u) ==
    /\ at[u].vec # "no" /\ at[u].do \in {"app", "accepted", "message"}
    /\ Continue(u, [at[u] EXCEPT !.vec = "no"])
    /\ Survives(u)
    /\ UNCHANGED <<isRunning, clients, context, accepts, netVars, history>>

\* stopServer: the loop that closes the clients, ioContext.stop and the joins.
stopBegins(u) ==
    /\ InApp(u) /\ isRunning
    /\ Continue(u, [at[u] EXCEPT !.do = "closing", !.vec = View])
    /\ UNCHANGED <<isRunning, clients, context, accepts, netVars, crashed, history>>

stopCloses(u) ==
    /\ at[u].do = "closing"
    /\ socket' = [s \in Socket |-> IF Listed(s) THEN "closed" ELSE socket[s]]
    /\ Continue(u, [at[u] EXCEPT !.do = "stopping", !.vec = "no"])
    /\ Survives(u)
    /\ UNCHANGED <<isRunning, clients, context, accepts, read, wire, left, history>>

stopContext(u) ==
    /\ at[u].do = "stopping"
    /\ stopped' = TRUE
    /\ Continue(u, [at[u] EXCEPT !.do = "joining"])
    /\ UNCHANGED <<isRunning, clients, accepts, netVars, crashed, history, listening, msgCallbacks>>

\* Slip: the threads are not joined.
stopJoinsNobody ==
    /\ at[Main].do = "joining"
    /\ isRunning' = FALSE
    /\ Continue(Main, Doing("app", None))
    /\ UNCHANGED <<clients, context, accepts, netVars, crashed, history>>

stopJoins ==
    /\ at[Main].do = "joining"
    /\ \A t \in Thread : at[t].do = "exited"
    /\ isRunning' = FALSE
    /\ Continue(Main, Doing("app", None))
    /\ UNCHANGED <<clients, context, accepts, netVars, crashed, history>>

\* The object dies with its members: a thread that was not joined ends the
\* program.
destroyed ==
    /\ InApp(Main)
    /\ crashed' = ~(~isRunning /\ \A t \in Thread : at[t].do = "exited")
    /\ Continue(Main, Doing("gone", None))
    /\ UNCHANGED <<isRunning, clients, context, accepts, netVars, history>>

\* An exception that leaves a callback leaves its thread, and ends the program.
\* A callback that calls stopServer gets one when its joins, which may wait for
\* other threads, come to its own thread.
callbackThrows(t) ==
    /\ InApp(t) \/ at[t].do = "joining"
    /\ crashed' = TRUE
    /\ UNCHANGED <<isRunning, clients, context, accepts, at, netVars, history>>

\* ioContext.run returns in a thread that has finished its handler.
runReturns(t) ==
    /\ at[t].do = "idle" /\ stopped
    /\ Continue(t, Doing("exited", None))
    /\ UNCHANGED <<isRunning, clients, context, accepts, netVars, crashed, history>>
-----------------------------------------------------------------------------
Next ==
    /\ ~crashed
    /\ \/ \E s \in Socket : remoteSends(s) \/ remoteLeaves(s)
       \/ \E t \in Thread, s \in Socket : acceptCompletes(t, s) \/ asyncRead(t, s)
       \/ \E t \in Thread :
             \/ onNewConnection(t) \/ continueAccept(t)
             \/ readPayload(t) \/ recievedMessage(t) \/ repeatRead(t)
             \/ handleDisconnection(t) \/ clearClient(t)
             \/ callbackThrows(t) \/ runReturns(t)
       \/ \E u \in Thread \cup {Main} : sendBegins(u) \/ sendEnds(u)
       \/ \E u \in Thread \cup {Main} : listenBegins(u) \/ \E type \in Type : listenEnds(u, type)
       \/ \E u \in Thread \cup {Main} : stopBegins(u) \/ stopCloses(u) \/ stopContext(u)
       \/ startServer \/ stopJoins \/ destroyed

Spec == Init /\ [][Next]_vars
-----------------------------------------------------------------------------
(* Properties. *)

\* The handlers of a socket: those that run for it, and the one to come.
Chain(s) == {t \in Thread : at[t].sock = s} \cup (IF read[s] = "none" THEN {} ELSE {Main})

\* A socket is read by one handler at a time, whatever thread runs it: no two
\* reads take pieces of one message, and no two callbacks run for one client.
OneReadPerSocket == \A s \in Socket : Cardinality(Chain(s)) <= 1

\* The io_context is stopped, or a callback is about to stop it.
Stops == stopped \/ \E t \in Thread : at[t].do \in Stopping

\* As long as the server runs and listens, one accept is outstanding or being
\* handled: failed accepts and clients that leave never end the chain of
\* accepts, nor does anything else but stopServer.
AcceptGoesOn ==
    isRunning /\ listening /\ ~Stops =>
        accepts + Cardinality({t \in Thread : at[t].do \in {"push", "accepted", "failed"}}) = 1

\* A client the server reads from is in clients, exactly once, whatever other
\* threads do to the vector: sendAllClients and stopServer find it.
ReadersAreListed ==
    \A s \in Socket :
        (read[s] # "none" \/ \E t \in Thread : at[t].sock = s /\ at[t].do \notin {"push", "failed"})
        /\ socket[s] # "unopened"
            => Cardinality({i \in DOMAIN clients : clients[i] = s}) = 1

\* Accesses to the map of listeners overlap only when a listener is added to
\* a started server, or when a message comes for which there is none: with all
\* listeners added in time, the threads only read it.
MapRacesNeedCause ==
    (\E u \in DOMAIN at : at[u].map = "raced") =>
        \/ late
        \/ \E type \in Type : msgCallbacks[type] = "empty"
        \/ \E t \in Thread : at[t].do = "lookup" /\ msgCallbacks[at[t].type] = "absent"

\* What the application is told about a client, and whether it is told now.
Within(s, dos) == \E t \in Thread : at[t].sock = s /\ at[t].do \in dos

Told(s) ==
    IF s \in disconnected THEN "disconnection"
    ELSE IF socket[s] \in {"none", "unopened"} \/ Within(s, {"push"}) THEN "nothing"
    ELSE "connection"

Turn(s) ==
    IF socket[s] = "none" \/ Within(s, {"push"}) THEN "unused"
    ELSE IF Within(s, {"accepted", "message"} \cup Stopping) THEN "callback"
    ELSE IF read[s] # "none" \/ Within(s, {"failed", "payload", "lookup", "find"}) THEN "waiting"
    ELSE "over"

Session(s) == INSTANCE ClientSession WITH told <- Told(s), turn <- Turn(s)

\* Whatever threads its handlers run on, a client is announced before its first
\* callback, its callbacks follow one another, and after onDisconnect there is
\* none, nor a second onDisconnect.
SessionsSpec ==
    /\ \A s \in Socket : Session(s)!Init
    /\ [][\A s \in Socket : UNCHANGED Session(s)!session \/ Session(s)!Next]_vars
=============================================================================
