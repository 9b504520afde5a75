----------------------------- MODULE AsioClient -----------------------------
(***************************************************************************)
(* lnet::Client of LNetLibrary (LNetClient.hpp, LNetConnection.hpp, and    *)
(* asyncRead of LNetTCP.hpp).  The program connects and disconnects on its *)
(* own thread while io threads run the read loop, which takes whatever     *)
(* connection the member holds when it reads on.  The member has no lock   *)
(* and alone owns the Connection: a handler may find it null, or use one   *)
(* that is destroyed meanwhile, which either kills the program or works as *)
(* on a closed socket.  Sends touch no state but dereference the member.   *)
(* connectedCallback calls no function of the client.  Connections are     *)
(* numbered in the order of the connect calls.                             *)
(***************************************************************************)
EXTENDS Naturals, FiniteSets

CONSTANTS
    Thread,       \* the io threads
    Main,         \* the thread of the program
    MaxConnects   \* bound: calls of connect

ASSUME ClientConstants ==
    /\ IsFiniteSet(Thread)
    /\ Main \notin Thread
    /\ MaxConnects \in Nat

Connection == 1..MaxConnects
Null == 0

VARIABLES
    connection, isConnected,  \* members of Client
    stopped,                  \* ioContext.stop was called; nothing undoes it
    socket,                   \* "none", "unopened", "open" or, destroyed, "closed"
    reads,                    \* number of outstanding async_read calls
    wire,                     \* what is readable: "nothing", "header" or "whole"
    left,                     \* whether the server has gone
    at,                       \* what each thread does
    fate,                     \* "runs", or what the program died of
    connects,                 \* number of connect calls
    loops,                    \* history: how often handleConnection was called
    ended,                    \* history: disconnect was "never" called, was
                              \* "called", or has "returned" to the program
    late                      \* history: a listener was added after connect

member == <<connection, isConnected>>
net == <<socket, reads, wire, left>>
history == <<loops, ended, late>>
vars == <<member, stopped, net, at, fate, connects, history>>

\* Io threads: the handler waits for the payload, looks for a listener, is in
\* the callbacks, or has read the member to read on.  The main thread is in
\* "app", in a part of connect, or gone.  Any of them is in a part of disconnect.
Activity ==
    [do : {"idle", "exited", "payload", "lookup", "callback", "rearm",
           "app", "dial", "connected", "refused", "gone", "disconnect", "join"},
     conn : Connection \cup {Null},
     map : {"no", "reading", "writing", "raced"}]   \* an access to msgCallbacks

Doing(do, c) == [do |-> do, conn |-> c, map |-> "no"]

TypeOK ==
    /\ connection \in Connection \cup {Null}
    /\ isConnected \in BOOLEAN /\ stopped \in BOOLEAN /\ late \in BOOLEAN
    /\ socket \in [Connection -> {"none", "unopened", "open", "closed"}]
    /\ reads \in [Connection -> 0..MaxConnects]
    /\ wire \in [Connection -> {"nothing", "header", "whole"}]
    /\ left \in [Connection -> BOOLEAN]
    /\ at \in [Thread \cup {Main} -> Activity]
    /\ fate \in {"runs", "null", "dangling", "race", "terminate"}
    /\ connects \in 0..MaxConnects /\ loops \in 0..connects
    /\ ended \in {"never", "called", "returned"}

Init ==
    /\ connection = Null
    /\ isConnected = FALSE
    /\ stopped = FALSE
    /\ socket = [c \in Connection |-> "none"]
    /\ reads = [c \in Connection |-> 0]
    /\ wire = [c \in Connection |-> "nothing"]
    /\ left = [c \in Connection |-> FALSE]
    /\ at = [t \in Thread \cup {Main} |-> Doing(IF t = Main THEN "app" ELSE "idle", Null)]
    /\ fate = "runs"
    /\ connects = 0 /\ loops = 0
    /\ ended = "never"
    /\ late = FALSE
-----------------------------------------------------------------------------
Continue(u, a) == at' = [at EXCEPT ![u] = a]

\* Thread u begins to read or to write the map of listeners: accesses that
\* overlap are raced, unless both only read.
Clash(u, how) == at[u].map # "no" /\ {at[u].map, how} # {"reading"}
Access(u, a, how) ==
    at' = [v \in DOMAIN at |->
              IF v = u
              THEN [a EXCEPT !.map = IF \E w \in DOMAIN at \ {u} : Clash(w, how)
                                     THEN "raced" ELSE how]
              ELSE [at[v] EXCEPT !.map = IF Clash(v, how) THEN "raced" ELSE @]]
Survives(u) == fate' \in IF at[u].map = "raced" THEN {"runs", "race"} ELSE {"runs"}

\* The member gets another value: the Connection it owned closes its sockets.
Assign(c) ==
    /\ connection' = c
    /\ socket' = [d \in Connection |->
                     IF d = c THEN "unopened" ELSE IF d = connection THEN "closed" ELSE socket[d]]

\* asyncRead of connection c, for its thread u to go on to a.
ReadOn(u, c, a) ==
    \/ c = Null /\ fate' = "null" /\ UNCHANGED <<reads, at>>
    \/ c # Null /\ socket[c] = "closed" /\ fate' = "dangling" /\ UNCHANGED <<reads, at>>
    \/ /\ c # Null
       /\ reads' = [reads EXCEPT ![c] = @ + 1]
       /\ Continue(u, a)
       /\ UNCHANGED fate
-----------------------------------------------------------------------------
(* The server. *)

remoteSends(c) ==
    /\ socket[c] = "open" /\ ~left[c]
    /\ \E w \in {<<"nothing", "header">>, <<"header", "whole">>} :
          wire[c] = w[1] /\ wire' = [wire EXCEPT ![c] = w[2]]
    /\ UNCHANGED <<member, stopped, socket, reads, left, at, fate, connects, history>>

remoteLeaves(c) ==
    /\ socket[c] = "open" /\ ~left[c]
    /\ left' = [left EXCEPT ![c] = TRUE]
    /\ UNCHANGED <<member, stopped, socket, reads, wire, at, fate, connects, history>>
-----------------------------------------------------------------------------
(* The read loop. *)

\* Handlers that have read a header of c and wait for the payload.
Waiting(c) == {t \in Thread : at[t].do = "payload" /\ at[t].conn = c}

Fails(c) == socket[c] # "open" \/ left[c]

\* async_read of the header is finished.  A second read of the socket may get
\* the bytes of a payload that another handler waits for.
asyncRead(t, c) ==
    /\ at[t].do = "idle" /\ ~stopped
    /\ reads[c] > 0
    /\ reads' = [reads EXCEPT ![c] = @ - 1]
    /\ \/ /\ socket[c] = "open"
          /\ IF Waiting(c) = {} THEN wire[c] # "nothing" ELSE wire[c] = "whole"
          /\ Continue(t, Doing("payload", c))
       \/ /\ Fails(c)
          /\ Continue(t, Doing("callback", c))
    /\ UNCHANGED <<member, stopped, socket, wire, left, fate, connects, history>>

\* find of the map only reads it.
lookup == "reading"

\* The handler waits for the payload, and holds its thread as long.
readPayload(t) ==
    LET c == at[t].conn IN
    /\ at[t].do = "payload"
    /\ \/ /\ wire[c] = "whole" /\ socket[c] = "open"
          /\ Access(t, Doing("lookup", c), lookup)
          /\ wire' = [wire EXCEPT ![c] = "nothing"]
          /\ UNCHANGED fate
       \/ /\ Fails(c)
          /\ fate' \in IF socket[c] = "closed" THEN {"runs", "dangling"} ELSE {"runs"}
          /\ Continue(t, Doing("callback", c))
          /\ UNCHANGED wire
    /\ UNCHANGED <<member, stopped, socket, reads, left, connects, history>>

\* onRead has looked for the listener and calls it, and readCallback.
onRead(t) ==
    /\ at[t].do = "lookup"
    /\ Continue(t, Doing("callback", at[t].conn))
    /\ Survives(t)
    /\ UNCHANGED <<member, stopped, net, connects, history>>

\* Slip: the loop is started anew whenever a callback returns.
repeatReadTCPTwice(t) ==
    /\ at[t].do = "callback" /\ at[t].map = "no"
    /\ connection # Null
    /\ reads' = [reads EXCEPT ![connection] = @ + 1]
    /\ Continue(t, Doing("rearm", connection))
    /\ UNCHANGED <<member, stopped, socket, wire, left, fate, connects, history>>

\* Slip: only the first message is read.
repeatReadTCPOnce(t) ==
    /\ at[t].do = "callback" /\ at[t].map = "no"
    /\ Continue(t, Doing("idle", Null))
    /\ UNCHANGED <<member, stopped, net, fate, connects, history>>

\* Slip: the connection is dropped when the server has gone.
repeatReadTCPDrops(t) ==
    /\ at[t].do = "callback" /\ at[t].map = "no"
    /\ IF left[at[t].conn] THEN Assign(Null) ELSE UNCHANGED <<connection, socket>>
    /\ Continue(t, Doing("rearm", connection'))
    /\ UNCHANGED <<isConnected, stopped, reads, wire, left, fate, connects, history>>

\* The callbacks return, and the loop goes on whatever ec was, on what the
\* member holds now.
repeatReadTCP(t) ==
    /\ at[t].do = "callback" /\ at[t].map = "no"
    /\ Continue(t, Doing("rearm", connection))
    /\ UNCHANGED <<member, stopped, net, fate, connects, history>>

rearm(t) ==
    /\ at[t].do = "rearm"
    /\ ReadOn(t, at[t].conn, Doing("idle", Null))
    /\ UNCHANGED <<member, stopped, socket, wire, left, connects, history>>

\* ioContext.run returns in a thread that has finished its handler.
runReturns(t) ==
    /\ at[t].do = "idle" /\ stopped
    /\ Continue(t, Doing("exited", Null))
    /\ UNCHANGED <<member, stopped, net, fate, connects, history>>
-----------------------------------------------------------------------------
(* connect, on the thread of the program. *)

InApp(u) == at[u].map = "no" /\ at[u].do = IF u = Main THEN "app" ELSE "callback"

connect ==
    /\ InApp(Main)
    /\ connects < MaxConnects
    /\ connects' = connects + 1
    /\ Assign(connects')
    /\ Continue(Main, Doing("dial", connects'))
    /\ UNCHANGED <<isConnected, stopped, reads, wire, left, fate, history>>

\* tcpSocket.connect has returned.  A handler may have destroyed the socket.
dialed ==
    LET c == at[Main].conn IN
    /\ at[Main].do = "dial"
    /\ \/ /\ socket[c] = "unopened"
          /\ socket' = [socket EXCEPT ![c] = "open"]
          /\ Continue(Main, Doing("connected", c))
          /\ UNCHANGED fate
       \/ /\ Continue(Main, Doing("refused", c))
          /\ fate' \in IF socket[c] = "closed" THEN {"runs", "dangling"} ELSE {"runs"}
          /\ UNCHANGED socket
    /\ UNCHANGED <<member, stopped, reads, wire, left, connects, history>>

\* Slip: isConnected is set before it is known whether there is a connection.
refusedConnected ==
    /\ at[Main].do = "refused"
    /\ Assign(Null)
    /\ isConnected' = TRUE
    /\ Continue(Main, Doing("app", Null))
    /\ UNCHANGED <<stopped, reads, wire, left, fate, connects, history>>

\* connectedCallback, then nullptr and an exception for the program, which
\* goes on.  isConnected stays.
refused ==
    /\ at[Main].do = "refused"
    /\ Assign(Null)
    /\ Continue(Main, Doing("app", Null))
    /\ UNCHANGED <<isConnected, stopped, reads, wire, left, fate, connects, history>>

\* connectedCallback, then the first read.
handleConnection ==
    /\ at[Main].do = "connected"
    /\ isConnected' = TRUE
    /\ loops' = loops + 1
    /\ ReadOn(Main, connection, Doing("app", Null))
    /\ UNCHANGED <<connection, stopped, socket, wire, left, connects, ended, late>>
-----------------------------------------------------------------------------
(* The other functions, called by the program and by callbacks. *)

\* sendTCP and sendUDP.
send(u) ==
    /\ InApp(u)
    /\ connection = Null
    /\ fate' = "null"
    /\ UNCHANGED <<member, stopped, net, at, connects, history>>

addMsgListenerBegins(u) ==
    /\ InApp(u)
    /\ Access(u, at[u], "writing")
    /\ late' = (late \/ connects > 0)
    /\ UNCHANGED <<member, stopped, net, fate, connects, loops, ended>>

addMsgListenerEnds(u) ==
    /\ at[u].do \in {"app", "callback"} /\ at[u].map # "no"
    /\ Continue(u, [at[u] EXCEPT !.map = "no"])
    /\ Survives(u)
    /\ UNCHANGED <<member, stopped, net, connects, history>>

\* The Connection is destroyed first.
disconnect(u) ==
    /\ InApp(u)
    /\ Assign(Null)
    /\ ended' = "called"
    /\ Continue(u, Doing("disconnect", Null))
    /\ UNCHANGED <<isConnected, stopped, reads, wire, left, fate, connects, loops, late>>

\* Slip: only the work guard is reset, which lets handlers go on.
stopContextResets(u) ==
    /\ at[u].do = "disconnect"
    /\ isConnected' = FALSE
    /\ Continue(u, Doing("join", Null))
    /\ UNCHANGED <<connection, stopped, net, fate, connects, history>>

stopContext(u) ==
    /\ at[u].do = "disconnect"
    /\ isConnected' = FALSE
    /\ stopped' = TRUE
    /\ Continue(u, Doing("join", Null))
    /\ UNCHANGED <<connection, net, fate, connects, history>>

\* The threads are joined; one that joins itself gets an exception, which
\* leaves the thread and ends the program.
joins(u) ==
    /\ at[u].do = "join"
    /\ \/ /\ u = Main /\ \A t \in Thread : at[t].do = "exited"
          /\ ended' = "returned"
          /\ Continue(u, Doing("app", Null))
          /\ UNCHANGED fate
       \/ u # Main /\ fate' = "terminate" /\ UNCHANGED <<at, ended>>
    /\ UNCHANGED <<member, stopped, net, connects, loops, late>>

\* A callback that throws ends the program.
callbackThrows(t) ==
    /\ t # Main /\ InApp(t)
    /\ fate' = "terminate"
    /\ UNCHANGED <<member, stopped, net, at, connects, history>>

\* The object dies with its members: a thread that was not joined ends the
\* program.
destroyed ==
    /\ InApp(Main)
    /\ IF ended = "returned" \/ Thread = {} THEN UNCHANGED fate ELSE fate' = "terminate"
    /\ Continue(Main, Doing("gone", Null))
    /\ UNCHANGED <<member, stopped, net, connects, history>>
-----------------------------------------------------------------------------
\* What a thread does once it has begun.
io(t) ==
    \/ \E c \in Connection : asyncRead(t, c)
    \/ readPayload(t) \/ onRead(t) \/ repeatReadTCP(t) \/ rearm(t) \/ runReturns(t)
inside(u) == addMsgListenerEnds(u) \/ stopContext(u) \/ joins(u)
connecting == dialed \/ refused \/ handleConnection

Next ==
    /\ fate = "runs"
    /\ \/ \E c \in Connection : remoteSends(c) \/ remoteLeaves(c)
       \/ \E t \in Thread : io(t) \/ callbackThrows(t)
       \/ \E u \in Thread \cup {Main} :
             inside(u) \/ send(u) \/ addMsgListenerBegins(u) \/ disconnect(u)
       \/ connecting \/ connect \/ destroyed

\* The system runs every thread, and functions and callbacks return.
Fairness ==
    /\ \A t \in Thread : /\ WF_vars(fate = "runs" /\ (io(t) \/ inside(t)))
                         /\ SF_vars(fate = "runs" /\ repeatReadTCP(t))
    /\ WF_vars(fate = "runs" /\ (connecting \/ inside(Main)))

Spec == Init /\ [][Next]_vars /\ Fairness
-----------------------------------------------------------------------------
(* Properties. *)

\* Every connection that is made starts one read loop, and the loops neither
\* fork nor end, whatever fails: after a second connect there are two.
InLoop == {t \in Thread : at[t].do \notin {"idle", "exited"}}
Outstanding == UNION {{c} \X (1..reads[c]) : c \in Connection}

LoopsAreConnects ==
    fate = "runs" => Cardinality(InLoop) + Cardinality(Outstanding) = loops

\* A program that connects once, and has connected, and never disconnects, does
\* not run into a null or destroyed connection, nor into a race for the
\* listeners unless it adds one after connect: the threads themselves only read.
Once == connects = 1 /\ loops = 1 /\ ended = "never"

OnceIsMemorySafe ==
    Once => fate \notin {"null", "dangling"} /\ (fate = "race" => late)

\* As long as connect is called once only, isConnected means that there is a
\* connection, outside disconnect.
ConnectedHasConnection ==
    connects = 1 /\ isConnected /\ (\A u \in DOMAIN at : at[u].do # "disconnect")
        => connection = 1 /\ socket[1] = "open"

\* disconnect comes to an end: the handlers it joins are woken by the end of
\* the connection.  Called by a callback it ends the program.  That closing a
\* socket ends a synchronous read of another thread is assumed (Fails); Windows
\* sockets, for which the projects build, do so, and not all others.
DisconnectEnds == ended = "called" ~> ended = "returned" \/ fate # "runs"

\* What the server sends is taken up, as long as the program does nothing but
\* connect once and its callbacks return.
MessagesAreRead ==
    Once /\ wire[1] = "whole" ~> wire[1] # "whole" \/ ~Once \/ fate # "runs" \/ left[1]
=============================================================================
