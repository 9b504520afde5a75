---------------------------- MODULE ClientSession ----------------------------
(***************************************************************************)
(* What an application on a server of LNetLibrary is told about a client,  *)
(* with no threads, sockets or vector: first of its connection, then of    *)
(* its messages and errors, one callback at a time, at last and once of    *)
(* its end.  A client whose accept failed has callbacks for its errors,    *)
(* though nobody was told of it.  The end of a client may be missed, and   *)
(* then nothing more is told of it.  The callback of a write is not part   *)
(* of this: it may run at any time.                                        *)
(***************************************************************************)
VARIABLES
    told,   \* "nothing", "connection" or "disconnection": the last of these
    turn    \* "unused", "callback" while one runs, "waiting" for the next, "over"

session == <<told, turn>>

Init == session = <<"nothing", "unused">>

\* onNewConnection.
Connect == session = <<"nothing", "unused">> /\ session' = <<"connection", "callback">>

Fail == session = <<"nothing", "unused">> /\ session' = <<"nothing", "waiting">>

\* The callbacks for a message or an error.
Call == turn = "waiting" /\ turn' = "callback" /\ UNCHANGED told

Return == turn = "callback" /\ turn' = "waiting" /\ UNCHANGED told

\* onDisconnect.
Disconnect == session = <<"connection", "waiting">> /\ session' = <<"disconnection", "over">>

Miss == session = <<"connection", "waiting">> /\ session' = <<"connection", "over">>

Next == Connect \/ Fail \/ Call \/ Return \/ Disconnect \/ Miss

Spec == Init /\ [][Next]_session
=============================================================================
