----------------------------- MODULE SampleGame -----------------------------
(***************************************************************************)
(* runServer of the sample game (sample_game.cpp), which is all that its   *)
(* main runs, on a Server of LNetLibrary: it starts the server, adds a     *)
(* listener for texts and one for the message that stops it, waits for the *)
(* flag the second one clears, and stops the server.  It sends to single   *)
(* clients only and gives no other callbacks.                              *)
(***************************************************************************)
EXTENDS AsioServer

ASSUME GameTypes == {1, 2} \subseteq Type   \* a text, and stop

VARIABLES
    pc,         \* the call of runServer that is next, or how it ended
    gameOn,     \* its flag isRunning
    shut        \* history: the clients the loop of stopServer met

game == <<pc, gameOn, shut>>
gameVars == <<vars, game>>

GameInit ==
    /\ Init
    /\ pc = "start"
    /\ gameOn = TRUE
    /\ shut = {}

Goes(from, to) == pc = from /\ pc' = to /\ UNCHANGED <<gameOn, shut>>
-----------------------------------------------------------------------------
(* runServer. *)

\* The exception of a failed listen is caught by nobody, and the threads of
\* the server are never joined.
start ==
    /\ startServer
    /\ \/ listening' /\ Goes("start", "text")
       \/ ~listening' /\ Goes("start", "thrown")

uncaught == Goes("thrown", "end") /\ destroyed

\* addMsgListener(1, ...) and addMsgListener(2, ...).
listen ==
    \/ pc \in {"text", "stop"} /\ listenBegins(Main) /\ UNCHANGED game
    \/ Goes("text", "stop") /\ listenEnds(Main, 1)
    \/ Goes("stop", "spin") /\ listenEnds(Main, 2)

spin == ~gameOn /\ Goes("spin", "stopServer") /\ stopBegins(Main)

stopping ==
    \/ /\ stopCloses(Main)
       /\ shut' = {s \in Socket : Listed(s)}
       /\ UNCHANGED <<pc, gameOn>>
    \/ stopContext(Main) /\ UNCHANGED game
    \/ stopJoins /\ Goes("stopServer", "return")

return == Goes("return", "end") /\ destroyed
-----------------------------------------------------------------------------
(* The listeners. *)

\* A message without a string in it throws.
textListener(t) ==
    /\ at[t].type = 1
    /\ callbackThrows(t) \/ repeatRead(t)
    /\ UNCHANGED game

\* Slip: the flag of the server is meant to be cleared.
stopListenerNoFlag(t) ==
    /\ at[t].type = 2
    /\ repeatRead(t)
    /\ UNCHANGED game

stopListener(t) ==
    /\ at[t].type = 2
    /\ repeatRead(t)
    /\ gameOn' = FALSE
    /\ UNCHANGED <<pc, shut>>

noListener(t) == at[t].type = NoType /\ repeatRead(t) /\ UNCHANGED game
-----------------------------------------------------------------------------
io(t) ==
    \/ textListener(t) \/ stopListener(t) \/ noListener(t)
    \/ /\ \/ \E s \in Socket : asyncRead(t, s) \/ acceptCompletes(t, s)
          \/ onNewConnection(t) \/ continueAccept(t)
          \/ readPayload(t) \/ recievedMessage(t)
          \/ handleDisconnection(t) \/ clearClient(t) \/ runReturns(t)
       /\ UNCHANGED game

runServer == start \/ uncaught \/ listen \/ spin \/ stopping \/ return

remote(s) == (remoteSends(s) \/ remoteLeaves(s)) /\ UNCHANGED game

GameNext ==
    /\ ~crashed
    /\ runServer \/ (\E t \in Thread : io(t)) \/ (\E s \in Socket : remote(s))

\* The system runs every thread.  Nothing is assumed of the clients.
GameSpec ==
    /\ GameInit /\ [][GameNext]_gameVars
    /\ WF_gameVars(~crashed /\ runServer)
    /\ \A t \in Thread : WF_gameVars(~crashed /\ io(t))
-----------------------------------------------------------------------------
(* Properties. *)

\* A program that could listen does not die of its end: when stopServer has
\* returned, the server has no thread left to destroy.
EndsCleanly == pc = "end" /\ listening => ~crashed

\* A handler waits for the payload of a client that the loop of stopServer did
\* not meet, because it was stored afterwards.
HeldUp ==
    \E t \in Thread : at[t].do = "payload" /\ at[t].sock \notin shut

\* When a stop message is looked up and its listener was added, the program
\* ends, whatever the clients and the other threads do, unless it dies in a
\* race or of a text that has no string and throws in its listener, or a late
\* client that sends no payload holds it up.
StopEndsGame ==
    (\E t \in Thread : at[t].do = "lookup" /\ at[t].type = 2 /\ pc = "spin")
        ~> pc = "end" \/ crashed \/ (at[Main].do = "joining" /\ HeldUp)
=============================================================================
