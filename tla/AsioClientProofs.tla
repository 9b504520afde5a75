-------------------------- MODULE AsioClientProofs --------------------------
(***************************************************************************)
(* The invariants of AsioClient for any threads and any number of connect  *)
(* calls: how many read loops there are, and which programs need no lock   *)
(* for the member that owns the Connection.                                *)
(***************************************************************************)
EXTENDS AsioClient, FiniteSetTheorems, TLAPS

Actor == Thread \cup {Main}
Idle == {"idle", "exited"}
Leaving == {"disconnect", "join"}
InConnect == {"dial", "connected", "refused"}
-----------------------------------------------------------------------------
(* The inductive invariant. *)

\* The types, but for the bound of reads, which takes the count of the loops.
Types ==
    /\ connection \in Connection \cup {Null}
    /\ isConnected \in BOOLEAN /\ stopped \in BOOLEAN /\ late \in BOOLEAN
    /\ socket \in [Connection -> {"none", "unopened", "open", "closed"}]
    /\ reads \in [Connection -> Nat]
    /\ wire \in [Connection -> {"nothing", "header", "whole"}]
    /\ left \in [Connection -> BOOLEAN]
    /\ at \in [Actor -> Activity]
    /\ fate \in {"runs", "null", "dangling", "race", "terminate"}
    /\ connects \in 0..MaxConnects /\ loops \in Nat
    /\ ended \in {"never", "called", "returned"}

\* A thread in a handler has a connection; an idle one does not use the map.
ThreadOK(t) ==
    /\ at[t].do \in Idle \cup Leaving \cup {"payload", "lookup", "callback", "rearm"}
    /\ at[t].do \in {"payload", "lookup", "callback"} => at[t].conn \in Connection
    /\ at[t].map # "no" => at[t].do \in {"lookup", "callback"}

ProgramOK ==
    /\ at[Main].do \in Leaving \cup InConnect \cup {"app", "gone"}
    /\ at[Main].do = "dial" => at[Main].conn \in Connection

Handlers == (\A t \in Thread : ThreadOK(t)) /\ ProgramOK

\* Only connections that connect has made are owned, read or handled.
Numbered ==
    /\ connection <= connects
    /\ \A c \in Connection : reads[c] > 0 => c <= connects
    /\ \A t \in Thread : at[t].conn <= connects

\* The loops are counted, and each was started by a connect of its own.
LoopCount ==
    /\ loops <= connects
    /\ IsFiniteSet(Outstanding) /\ Cardinality(Outstanding) <= connects
    /\ fate = "runs" /\ at[Main].do \in InConnect => loops < connects
    /\ fate = "runs" => Cardinality(InLoop) + Cardinality(Outstanding) = loops

\* Before the first loop nothing is read and nothing is handled.
NoLoopYet ==
    loops = 0 =>
        /\ ~isConnected
        /\ \A t \in Thread : at[t].do \in Idle
        /\ \A c \in Connection : reads[c] = 0

\* The only connection of a program that has connected once: it is owned until
\* disconnect, or until connect refuses it.
FirstConnection ==
    connects = 1 =>
        /\ fate = "runs" /\ at[Main].do = "dial" =>
              connection = 1 /\ socket[1] = "unopened" /\ at[Main].conn = 1
        /\ fate = "runs" /\ at[Main].do = "connected" => connection = 1 /\ socket[1] = "open"
        /\ isConnected /\ (\A u \in Actor : at[u].do # "disconnect") =>
              connection = 1 /\ socket[1] = "open"
        /\ loops = 1 /\ ended = "never" =>
              /\ connection = 1 /\ socket[1] = "open"
              /\ \A t \in Thread : at[t].do = "rearm" => at[t].conn = 1
              /\ fate \notin {"null", "dangling"}

\* Listeners that are all added before connect are only read from then on.
MapUse ==
    ~late =>
        /\ \A t \in Thread : at[t].map # "no" => at[t].do = "lookup" /\ at[t].map = "reading"
        /\ at[Main].map # "no" => connects = 0 /\ at[Main].map = "writing"
        /\ fate # "race"

Inv ==
    /\ Types /\ Handlers /\ Numbered /\ LoopCount /\ NoLoopYet /\ FirstConnection /\ MapUse
-----------------------------------------------------------------------------
(* How a step moves the threads, and the types. *)

\* Thread u goes on to one of dos with connection c, and lets go of the map.
Moves(u, dos, c) ==
    /\ at' \in [Actor -> Activity]
    /\ at'[u].do \in dos /\ at'[u].conn = c /\ at'[u].map = "no"
    /\ \A v \in Actor \ {u} : at'[v] = at[v]

LEMMA DoingMoves ==
    ASSUME Types, NEW u \in Actor, NEW c \in Connection \cup {Null},
           NEW do \in Idle \cup Leaving \cup InConnect
                        \cup {"payload", "lookup", "callback", "rearm", "app", "gone"},
           Continue(u, Doing(do, c))
    PROVE  Moves(u, {do}, c)
<1>1. Doing(do, c) \in Activity
  BY DEF Doing, Activity, Idle, Leaving, InConnect
<1>2. at' \in [Actor -> Activity] /\ at'[u] = Doing(do, c) /\ \A v \in Actor \ {u} : at'[v] = at[v]
  BY <1>1 DEF Types, Continue
<1>. QED
  BY <1>2 DEF Moves, Doing

\* What v does and its connection stay; so does its use of the map, except that
\* it may turn into a race.
Same(v) ==
    /\ at'[v].do = at[v].do /\ at'[v].conn = at[v].conn
    /\ at'[v].map = "no" <=> at[v].map = "no"

LEMMA AccessStep ==
    ASSUME Types, NEW u \in Actor, NEW a \in Activity, NEW how \in {"reading", "writing"},
           Access(u, a, how)
    PROVE  /\ at' \in [Actor -> Activity]
           /\ at'[u].do = a.do /\ at'[u].conn = a.conn
           /\ at'[u].map = IF \E v \in Actor \ {u} : Clash(v, how) THEN "raced" ELSE how
           /\ \A v \in Actor \ {u} :
                 Same(v) /\ at'[v].map = IF Clash(v, how) THEN "raced" ELSE at[v].map
<1>1. \A v \in Actor : at[v] \in Activity
  BY DEF Types
<1>2. ASSUME NEW v \in Actor \ {u}
      PROVE  /\ at'[v] \in Activity /\ Same(v)
             /\ at'[v].map = IF Clash(v, how) THEN "raced" ELSE at[v].map
  <2>1. at'[v] = [at[v] EXCEPT !.map = IF Clash(v, how) THEN "raced" ELSE @]
    BY DEF Access, Types
  <2>. QED
    BY <1>1, <2>1 DEF Activity, Same, Clash
<1>3. at'[u] = [a EXCEPT !.map = IF \E v \in Actor \ {u} : Clash(v, how) THEN "raced" ELSE how]
  BY DEF Access, Types
<1>4. /\ at'[u].do = a.do /\ at'[u].conn = a.conn /\ at'[u] \in Activity
      /\ at'[u].map = IF \E v \in Actor \ {u} : Clash(v, how) THEN "raced" ELSE how
  BY <1>3 DEF Activity
<1>5. at' = [v \in Actor |-> at'[v]]
  BY DEF Access, Types
<1>. QED
  BY <1>2, <1>4, <1>5

\* The member gets a connection or none, and sockets stay sockets.
LEMMA AssignStep ==
    ASSUME Types, NEW c \in Connection \cup {Null}, Assign(c)
    PROVE  /\ connection' = c
           /\ socket' \in [Connection -> {"none", "unopened", "open", "closed"}]
           /\ c \in Connection => socket'[c] = "unopened"
<1>1. ASSUME NEW d \in Connection
      PROVE  (IF d = c THEN "unopened" ELSE IF d = connection THEN "closed" ELSE socket[d])
                \in {"none", "unopened", "open", "closed"}
  BY DEF Types
<1>. QED
  BY <1>1 DEF Assign

LEMMA ReadOnStep ==
    ASSUME Types, NEW u \in Actor, NEW c \in Connection \cup {Null},
           NEW do \in {"idle", "app"}, ReadOn(u, c, Doing(do, Null))
    PROVE  \/ /\ fate' = "null" /\ c = Null /\ UNCHANGED <<reads, at>>
           \/ /\ fate' = "dangling" /\ c \in Connection /\ socket[c] = "closed"
              /\ UNCHANGED <<reads, at>>
           \/ /\ c \in Connection /\ UNCHANGED fate
              /\ reads' = [reads EXCEPT ![c] = reads[c] + 1]
              /\ Moves(u, {do}, Null)
<1>1. CASE Continue(u, Doing(do, Null))
  <2>1. Moves(u, {do}, Null)
    BY <1>1, DoingMoves DEF Idle
  <2>. QED
    BY <2>1 DEF ReadOn
<1>. QED
  BY <1>1 DEF ReadOn

LEMMA asyncReadTypes ==
    ASSUME Types, NEW t \in Thread, NEW c \in Connection, asyncRead(t, c)
    PROVE  Types' /\ Moves(t, {"payload", "callback"}, c)
<1>1. Moves(t, {"payload"}, c) \/ Moves(t, {"callback"}, c)
  BY DoingMoves DEF asyncRead, Actor
<1>2. Moves(t, {"payload", "callback"}, c)
  BY <1>1 DEF Moves
<1>3. reads' \in [Connection -> Nat]
  BY DEF asyncRead, Types
<1>. QED
  BY <1>2, <1>3 DEF Moves, Types, asyncRead, member, history

LEMMA readPayloadTypes ==
    ASSUME Types, Handlers, NEW t \in Thread, readPayload(t)
    PROVE  /\ Types' /\ at[t].conn \in Connection
           /\ \/ /\ Moves(t, {"callback"}, at[t].conn)
                 /\ fate' = "dangling" => socket[at[t].conn] = "closed"
                 /\ fate' \in {"runs", "dangling"}
              \/ /\ UNCHANGED fate
                 /\ at'[t].do = "lookup" /\ at'[t].conn = at[t].conn
                 /\ at'[t].map = IF \E v \in Actor \ {t} : Clash(v, "reading") THEN "raced" ELSE "reading"
                 /\ \A v \in Actor \ {t} :
                       Same(v) /\ at'[v].map = IF Clash(v, "reading") THEN "raced" ELSE at[v].map
<1>1. at[t].conn \in Connection /\ t \in Actor
  BY DEF readPayload, Handlers, ThreadOK, Actor
<1>2. CASE Continue(t, Doing("callback", at[t].conn)) /\ UNCHANGED wire
           /\ fate' \in IF socket[at[t].conn] = "closed" THEN {"runs", "dangling"} ELSE {"runs"}
  <2>1. Moves(t, {"callback"}, at[t].conn)
    BY <1>1, <1>2, DoingMoves
  <2>. QED
    BY <1>1, <1>2, <2>1 DEF Moves, Types, readPayload, member, history
<1>3. CASE Access(t, Doing("lookup", at[t].conn), "reading") /\ UNCHANGED fate
           /\ wire' = [wire EXCEPT ![at[t].conn] = "nothing"]
  <2>1. Doing("lookup", at[t].conn) \in Activity
    BY <1>1 DEF Doing, Activity
  <2>2. Doing("lookup", at[t].conn).do = "lookup" /\ Doing("lookup", at[t].conn).conn = at[t].conn
    BY DEF Doing
  <2>3. /\ at' \in [Actor -> Activity]
        /\ at'[t].do = "lookup" /\ at'[t].conn = at[t].conn
        /\ at'[t].map = IF \E v \in Actor \ {t} : Clash(v, "reading") THEN "raced" ELSE "reading"
        /\ \A v \in Actor \ {t} :
              Same(v) /\ at'[v].map = IF Clash(v, "reading") THEN "raced" ELSE at[v].map
    BY <1>1, <1>3, <2>1, <2>2, AccessStep
  <2>. QED
    BY <1>1, <1>3, <2>3 DEF Types, readPayload, member, history
<1>. QED
  BY <1>2, <1>3 DEF readPayload, lookup

\* The other steps of a thread, which end in one activity.
LEMMA threadTypes ==
    ASSUME Types, Handlers, NEW t \in Thread
    PROVE  /\ onRead(t) => Types' /\ Moves(t, {"callback"}, at[t].conn)
           /\ repeatReadTCP(t) => Types' /\ Moves(t, {"rearm"}, connection)
           /\ runReturns(t) => Types' /\ Moves(t, {"exited"}, Null)
           /\ callbackThrows(t) => Types' /\ UNCHANGED at
<1>1. t \in Actor /\ at[t].conn \in Connection \cup {Null} /\ connection \in Connection \cup {Null}
  BY DEF Types, Activity, Actor
<1>2. ASSUME onRead(t) PROVE Types' /\ Moves(t, {"callback"}, at[t].conn)
  <2>1. Moves(t, {"callback"}, at[t].conn)
    BY <1>1, <1>2, DoingMoves DEF onRead
  <2>. QED
    BY <1>2, <2>1 DEF Moves, Types, onRead, Survives, member, net, history
<1>3. ASSUME repeatReadTCP(t) PROVE Types' /\ Moves(t, {"rearm"}, connection)
  <2>1. Moves(t, {"rearm"}, connection)
    BY <1>1, <1>3, DoingMoves DEF repeatReadTCP
  <2>. QED
    BY <1>3, <2>1 DEF Moves, Types, repeatReadTCP, member, net, history
<1>4. ASSUME runReturns(t) PROVE Types' /\ Moves(t, {"exited"}, Null)
  <2>1. Moves(t, {"exited"}, Null)
    BY <1>1, <1>4, DoingMoves DEF runReturns, Idle
  <2>. QED
    BY <1>4, <2>1 DEF Moves, Types, runReturns, member, net, history
<1>5. ASSUME callbackThrows(t) PROVE Types' /\ UNCHANGED at
  BY <1>5 DEF Types, callbackThrows, member, net, history
<1>. QED
  BY <1>2, <1>3, <1>4, <1>5

LEMMA rearmTypes ==
    ASSUME Types, NEW t \in Thread, rearm(t)
    PROVE  /\ Types'
           /\ LET c == at[t].conn IN
              \/ /\ fate' = "null" /\ c = Null /\ UNCHANGED <<reads, at>>
              \/ /\ fate' = "dangling" /\ c \in Connection /\ socket[c] = "closed"
                 /\ UNCHANGED <<reads, at>>
              \/ /\ c \in Connection /\ UNCHANGED fate
                 /\ reads' = [reads EXCEPT ![c] = reads[c] + 1]
                 /\ Moves(t, {"idle"}, Null)
<1>1. at[t].conn \in Connection \cup {Null} /\ t \in Actor
  BY DEF Types, Activity, Actor
<1>2. LET c == at[t].conn IN
      \/ /\ fate' = "null" /\ c = Null /\ UNCHANGED <<reads, at>>
      \/ /\ fate' = "dangling" /\ c \in Connection /\ socket[c] = "closed"
         /\ UNCHANGED <<reads, at>>
      \/ /\ c \in Connection /\ UNCHANGED fate
         /\ reads' = [reads EXCEPT ![c] = reads[c] + 1]
         /\ Moves(t, {"idle"}, Null)
  BY <1>1, ReadOnStep DEF rearm
<1>3. reads' \in [Connection -> Nat] /\ at' \in [Actor -> Activity] /\ fate' \in {"runs", "null", "dangling", "race", "terminate"}
  BY <1>2 DEF Moves, Types
<1>. QED
  BY <1>2, <1>3 DEF Types, rearm, member, history

\* The functions of the client.
LEMMA addBeginsTypes ==
    ASSUME Types, NEW u \in Actor, addMsgListenerBegins(u)
    PROVE  /\ Types'
           /\ at'[u].map = IF \E v \in Actor \ {u} : Clash(v, "writing") THEN "raced" ELSE "writing"
           /\ \A v \in Actor : at'[v].do = at[v].do /\ at'[v].conn = at[v].conn
           /\ \A v \in Actor \ {u} :
                 Same(v) /\ at'[v].map = IF Clash(v, "writing") THEN "raced" ELSE at[v].map
<1>1. at[u] \in Activity /\ Access(u, at[u], "writing")
  BY DEF Types, addMsgListenerBegins
<1>2. /\ at' \in [Actor -> Activity]
      /\ at'[u].do = at[u].do /\ at'[u].conn = at[u].conn
      /\ at'[u].map = IF \E v \in Actor \ {u} : Clash(v, "writing") THEN "raced" ELSE "writing"
      /\ \A v \in Actor \ {u} :
            Same(v) /\ at'[v].map = IF Clash(v, "writing") THEN "raced" ELSE at[v].map
  BY <1>1, AccessStep
<1>3. late' \in BOOLEAN
  BY Zenon DEF Types, addMsgListenerBegins
<1>4. Types'
  BY <1>2, <1>3 DEF Types, addMsgListenerBegins, member, net
<1>. QED
  BY <1>2, <1>4 DEF Same

LEMMA addEndsTypes ==
    ASSUME Types, NEW u \in Actor, addMsgListenerEnds(u)
    PROVE  /\ Types' /\ at'[u].map = "no"
           /\ at'[u].do = at[u].do /\ at'[u].conn = at[u].conn
           /\ \A v \in Actor \ {u} : at'[v] = at[v]
<1> DEFINE a == [at[u] EXCEPT !.map = "no"]
<1>1. at[u] \in Activity
  BY DEF Types
<1>2. a \in Activity /\ a.do = at[u].do /\ a.conn = at[u].conn /\ a.map = "no"
  BY <1>1 DEF Activity
<1>3. at' = [at EXCEPT ![u] = a]
  BY DEF addMsgListenerEnds, Continue
<1> HIDE DEF a
<1>4. at' \in [Actor -> Activity] /\ at'[u] = a /\ \A v \in Actor \ {u} : at'[v] = at[v]
  BY <1>2, <1>3 DEF Types
<1>5. fate' \in {"runs", "race"}
  BY DEF addMsgListenerEnds, Survives
<1>6. Types'
  BY <1>4, <1>5 DEF Types, addMsgListenerEnds, member, net, history
<1>. QED
  BY <1>2, <1>4, <1>6

LEMMA leaveTypes ==
    ASSUME Types, NEW u \in Actor
    PROVE  /\ disconnect(u) => Types' /\ Moves(u, {"disconnect"}, Null) /\ connection' = Null
           /\ stopContext(u) => Types' /\ Moves(u, {"join"}, Null)
           /\ joins(u) => /\ Types'
                          /\ \/ u = Main /\ Moves(u, {"app"}, Null) /\ UNCHANGED fate
                             \/ fate' = "terminate" /\ UNCHANGED <<at, ended>>
           /\ send(u) => Types' /\ UNCHANGED at
<1>1. ASSUME disconnect(u) PROVE Types' /\ Moves(u, {"disconnect"}, Null) /\ connection' = Null
  <2>1. Moves(u, {"disconnect"}, Null)
    BY <1>1, DoingMoves DEF disconnect, Leaving
  <2>2. connection' = Null /\ socket' \in [Connection -> {"none", "unopened", "open", "closed"}]
    BY <1>1, AssignStep DEF disconnect
  <2>. QED
    BY <1>1, <2>1, <2>2 DEF Moves, Types, disconnect
<1>2. ASSUME stopContext(u) PROVE Types' /\ Moves(u, {"join"}, Null)
  <2>1. Moves(u, {"join"}, Null)
    BY <1>2, DoingMoves DEF stopContext, Leaving
  <2>. QED
    BY <1>2, <2>1 DEF Moves, Types, stopContext, net, history
<1>3. ASSUME joins(u)
      PROVE  /\ Types'
             /\ \/ u = Main /\ Moves(u, {"app"}, Null) /\ UNCHANGED fate
                \/ fate' = "terminate" /\ UNCHANGED <<at, ended>>
  <2>1. CASE /\ u = Main /\ ended' = "returned" /\ Continue(u, Doing("app", Null)) /\ UNCHANGED fate
    <3>1. Moves(u, {"app"}, Null)
      BY <2>1, DoingMoves
    <3>. QED
      BY <1>3, <2>1, <3>1 DEF Moves, Types, joins, member, net
  <2>2. CASE fate' = "terminate" /\ UNCHANGED <<at, ended>>
    BY <1>3, <2>2 DEF Types, joins, member, net
  <2>. QED
    BY <1>3, <2>1, <2>2 DEF joins
<1>4. ASSUME send(u) PROVE Types' /\ UNCHANGED at
  BY <1>4 DEF Types, send, member, net, history
<1>. QED
  BY <1>1, <1>2, <1>3, <1>4

\* The steps of connect.
LEMMA connectTypes ==
    ASSUME Types, connect
    PROVE  /\ Types' /\ Moves(Main, {"dial"}, connects')
           /\ connects' = connects + 1 /\ connects' \in Connection
           /\ connection' = connects' /\ socket'[connects'] = "unopened"
<1>1. connects' = connects + 1 /\ connects' \in Connection /\ connects' \in 0..MaxConnects
  BY ClientConstants DEF connect, Types, Connection
<1>2. Moves(Main, {"dial"}, connects')
  BY <1>1, DoingMoves DEF connect, Actor, InConnect
<1>3. /\ connection' = connects'
      /\ socket' \in [Connection -> {"none", "unopened", "open", "closed"}]
      /\ socket'[connects'] = "unopened"
  BY <1>1, AssignStep DEF connect
<1>. QED
  BY <1>1, <1>2, <1>3 DEF Moves, Types, connect, history

LEMMA dialedTypes ==
    ASSUME Types, Handlers, dialed
    PROVE  /\ Types' /\ at[Main].conn \in Connection
           /\ \/ /\ Moves(Main, {"connected"}, at[Main].conn)
                 /\ socket' = [socket EXCEPT ![at[Main].conn] = "open"]
                 /\ UNCHANGED fate
              \/ Moves(Main, {"refused"}, at[Main].conn) /\ UNCHANGED socket
           /\ fate' \in {fate, "runs", "dangling"}
<1>1. at[Main].conn \in Connection /\ Main \in Actor
  BY DEF dialed, Handlers, ProgramOK, Actor
<1>2. CASE /\ socket' = [socket EXCEPT ![at[Main].conn] = "open"]
           /\ Continue(Main, Doing("connected", at[Main].conn)) /\ UNCHANGED fate
  <2>1. Moves(Main, {"connected"}, at[Main].conn)
    BY <1>1, <1>2, DoingMoves DEF InConnect
  <2>. QED
    BY <1>1, <1>2, <2>1 DEF Moves, Types, dialed, member, history
<1>3. CASE /\ Continue(Main, Doing("refused", at[Main].conn)) /\ UNCHANGED socket
           /\ fate' \in IF socket[at[Main].conn] = "closed" THEN {"runs", "dangling"} ELSE {"runs"}
  <2>1. Moves(Main, {"refused"}, at[Main].conn)
    BY <1>1, <1>3, DoingMoves DEF InConnect
  <2>. QED
    BY <1>1, <1>3, <2>1 DEF Moves, Types, dialed, member, history
<1>. QED
  BY <1>2, <1>3 DEF dialed

LEMMA refusedTypes ==
    ASSUME Types, refused
    PROVE  Types' /\ Moves(Main, {"app"}, Null) /\ connection' = Null
<1>1. Moves(Main, {"app"}, Null)
  BY DoingMoves DEF refused, Actor
<1>2. connection' = Null /\ socket' \in [Connection -> {"none", "unopened", "open", "closed"}]
  BY AssignStep DEF refused
<1>. QED
  BY <1>1, <1>2 DEF Moves, Types, refused, history

LEMMA handleConnectionTypes ==
    ASSUME Types, handleConnection
    PROVE  /\ Types'
           /\ \/ fate' = "null" /\ connection = Null /\ UNCHANGED <<reads, at>>
              \/ /\ fate' = "dangling" /\ connection \in Connection /\ socket[connection] = "closed"
                 /\ UNCHANGED <<reads, at>>
              \/ /\ connection \in Connection /\ UNCHANGED fate
                 /\ reads' = [reads EXCEPT ![connection] = reads[connection] + 1]
                 /\ Moves(Main, {"app"}, Null)
<1>1. connection \in Connection \cup {Null} /\ Main \in Actor
  BY DEF Types, Actor
<1>2. \/ fate' = "null" /\ connection = Null /\ UNCHANGED <<reads, at>>
      \/ /\ fate' = "dangling" /\ connection \in Connection /\ socket[connection] = "closed"
         /\ UNCHANGED <<reads, at>>
      \/ /\ connection \in Connection /\ UNCHANGED fate
         /\ reads' = [reads EXCEPT ![connection] = reads[connection] + 1]
         /\ Moves(Main, {"app"}, Null)
  BY <1>1, ReadOnStep DEF handleConnection
<1>3. reads' \in [Connection -> Nat] /\ at' \in [Actor -> Activity]
      /\ fate' \in {"runs", "null", "dangling", "race", "terminate"}
  BY <1>2 DEF Moves, Types
<1>. QED
  BY <1>2, <1>3 DEF Types, handleConnection

LEMMA goneTypes ==
    ASSUME Types, destroyed
    PROVE  Types' /\ Moves(Main, {"gone"}, Null)
<1>1. Moves(Main, {"gone"}, Null)
  BY DoingMoves DEF destroyed, Actor
<1>. QED
  BY <1>1 DEF Moves, Types, destroyed, member, net, history

LEMMA remoteTypes ==
    ASSUME Types, NEW c \in Connection, remoteSends(c) \/ remoteLeaves(c)
    PROVE  Types' /\ UNCHANGED at
<1>1. CASE remoteSends(c)
  <2>1. wire' \in [Connection -> {"nothing", "header", "whole"}]
    <3>1. PICK w \in {<<"nothing", "header">>, <<"header", "whole">>} :
              wire' = [wire EXCEPT ![c] = w[2]]
      BY <1>1 DEF remoteSends
    <3>2. w[2] \in {"header", "whole"}
      OBVIOUS
    <3>. QED
      BY <3>1, <3>2 DEF Types
  <2>. QED
    BY <1>1, <2>1 DEF Types, remoteSends, member, history
<1>2. CASE remoteLeaves(c)
  BY <1>2 DEF Types, remoteLeaves, member, history
<1>. QED
  BY <1>1, <1>2
-----------------------------------------------------------------------------
(* Steps as one list of cases, and the invariants that describe the threads. *)

ThreadStep(t) ==
    \/ \E c \in Connection : asyncRead(t, c)
    \/ readPayload(t) \/ onRead(t) \/ repeatReadTCP(t) \/ rearm(t) \/ runReturns(t)
    \/ callbackThrows(t)

CallStep(u) ==
    \/ addMsgListenerBegins(u) \/ addMsgListenerEnds(u)
    \/ disconnect(u) \/ stopContext(u) \/ joins(u) \/ send(u)

ConnectStep == connect \/ dialed \/ refused \/ handleConnection \/ destroyed

RemoteStep == \E c \in Connection : remoteSends(c) \/ remoteLeaves(c)

LEMMA NextCases ==
    ASSUME [Next]_vars
    PROVE  \/ /\ fate = "runs"
              /\ \/ \E t \in Thread : ThreadStep(t)
                 \/ \E u \in Actor : CallStep(u)
                 \/ ConnectStep \/ RemoteStep
           \/ UNCHANGED vars
BY DEF Next, io, inside, connecting, ThreadStep, CallStep, ConnectStep, RemoteStep, Actor

LEMMA NextTypes == ASSUME Types, Handlers, [Next]_vars PROVE Types'
<1>1. ASSUME NEW t \in Thread, ThreadStep(t) PROVE Types'
  BY <1>1, asyncReadTypes, readPayloadTypes, threadTypes, rearmTypes DEF ThreadStep
<1>2. ASSUME NEW u \in Actor, CallStep(u) PROVE Types'
  BY <1>2, addBeginsTypes, addEndsTypes, leaveTypes DEF CallStep
<1>3. CASE ConnectStep
  BY <1>3, connectTypes, dialedTypes, refusedTypes, handleConnectionTypes, goneTypes DEF ConnectStep
<1>4. CASE RemoteStep
  BY <1>4, remoteTypes DEF RemoteStep
<1>5. CASE UNCHANGED vars
  BY <1>5 DEF Types, vars, member, net, history
<1>. QED
  BY <1>1, <1>2, <1>3, <1>4, <1>5, NextCases

LEMMA HandlersStep == ASSUME Types, Handlers, [Next]_vars PROVE Handlers'
<1> USE ClientConstants
<1>1. \A v \in Thread : at'[v] = at[v] => ThreadOK(v)'
  BY DEF Handlers, ThreadOK
<1>2. at'[Main] = at[Main] => ProgramOK'
  BY DEF Handlers, ProgramOK
<1>3. at' = at => Handlers'
  BY <1>1, <1>2 DEF Handlers
<1>4. ASSUME NEW t \in Thread, NEW c \in Connection \cup {Null},
             NEW dos \in SUBSET (Idle \cup Leaving \cup {"payload", "lookup", "callback", "rearm"}),
             Moves(t, dos, c), c \in Connection \/ dos \cap {"payload", "lookup", "callback"} = {}
      PROVE  Handlers'
  <2>1. ThreadOK(t)'
    BY <1>4 DEF ThreadOK, Moves
  <2>. QED
    BY <1>1, <1>2, <1>4, <2>1 DEF Moves, Handlers, Actor
<1>5. ASSUME NEW c \in Connection \cup {Null},
             NEW dos \in SUBSET (Leaving \cup InConnect \cup {"app", "gone"}),
             Moves(Main, dos, c), c \in Connection \/ "dial" \notin dos
      PROVE  Handlers'
  <2>1. ProgramOK'
    BY <1>5 DEF ProgramOK, Moves
  <2>. QED
    BY <1>1, <1>5, <2>1 DEF Moves, Handlers, Actor
<1>6. ASSUME NEW t \in Thread, ThreadStep(t) PROVE Handlers'
  <2>1. ASSUME NEW c \in Connection, asyncRead(t, c) PROVE Handlers'
    <3>1. Moves(t, {"payload", "callback"}, c)
      BY <2>1, asyncReadTypes
    <3>. QED
      BY <3>1, <1>4
  <2>2. CASE readPayload(t)
    <3>1. CASE Moves(t, {"callback"}, at[t].conn) /\ at[t].conn \in Connection
      BY <3>1, <1>4
    <3>2. CASE /\ at'[t].do = "lookup" /\ at'[t].conn = at[t].conn /\ at[t].conn \in Connection
               /\ \A v \in Actor \ {t} : Same(v)
      <4>1. ThreadOK(t)'
        BY <3>2 DEF ThreadOK, Idle, Leaving
      <4>2. \A v \in Thread \ {t} : ThreadOK(v)'
        BY <3>2 DEF Handlers, ThreadOK, Same, Actor
      <4>3. ProgramOK'
        BY <3>2 DEF Handlers, ProgramOK, Same, Actor
      <4>. QED
        BY <4>1, <4>2, <4>3 DEF Handlers
    <3>. QED
      BY <2>2, <3>1, <3>2, readPayloadTypes
  <2>3. CASE onRead(t)
    <3>1. Moves(t, {"callback"}, at[t].conn) /\ at[t].conn \in Connection
      BY <2>3, threadTypes DEF onRead, Handlers, ThreadOK
    <3>. QED
      BY <3>1, <1>4
  <2>4. CASE repeatReadTCP(t)
    <3>1. Moves(t, {"rearm"}, connection) /\ connection \in Connection \cup {Null}
      BY <2>4, threadTypes DEF Types
    <3>. QED
      BY <3>1, <1>4
  <2>5. CASE rearm(t) \/ runReturns(t)
    <3>1. Moves(t, {"idle"}, Null) \/ Moves(t, {"exited"}, Null) \/ UNCHANGED at
      BY <2>5, rearmTypes, threadTypes
    <3>2. ASSUME NEW dos \in {{"idle"}, {"exited"}}, Moves(t, dos, Null) PROVE Handlers'
      BY <3>2, <1>4 DEF Idle
    <3>. QED
      BY <3>1, <3>2, <1>3
  <2>6. CASE callbackThrows(t)
    BY <2>6, threadTypes, <1>3
  <2>. QED
    BY <1>6, <2>1, <2>2, <2>3, <2>4, <2>5, <2>6 DEF ThreadStep
<1>7. ASSUME NEW u \in Actor, CallStep(u) PROVE Handlers'
  <2>1. CASE addMsgListenerBegins(u)
    <3>1. u \in Thread => at[u].do = "callback"
      BY <2>1 DEF addMsgListenerBegins, InApp
    <3>2. /\ \A v \in Actor : at'[v].do = at[v].do /\ at'[v].conn = at[v].conn
          /\ \A v \in Actor \ {u} : Same(v)
      BY <2>1, addBeginsTypes
    <3>3. \A v \in Thread : ThreadOK(v)'
      BY <3>1, <3>2 DEF Handlers, ThreadOK, Same, Actor
    <3>. QED
      BY <3>2, <3>3 DEF Handlers, ProgramOK, Actor
  <2>2. CASE addMsgListenerEnds(u)
    <3>1. /\ at'[u].map = "no" /\ at'[u].do = at[u].do /\ at'[u].conn = at[u].conn
          /\ \A v \in Actor \ {u} : at'[v] = at[v]
      BY <2>2, addEndsTypes
    <3>. QED
      BY <3>1 DEF Handlers, ThreadOK, ProgramOK, Actor
  <2>3. CASE disconnect(u) \/ stopContext(u)
    <3>1. Moves(u, Leaving, Null)
      BY <2>3, leaveTypes DEF Moves, Leaving
    <3>2. CASE u = Main
      BY <3>1, <3>2, <1>5 DEF Leaving
    <3>3. CASE u \in Thread
      BY <3>1, <3>3, <1>4 DEF Leaving
    <3>. QED
      BY <3>2, <3>3 DEF Actor
  <2>4. CASE joins(u) \/ send(u)
    <3>1. (u = Main /\ Moves(u, {"app"}, Null)) \/ UNCHANGED at
      BY <2>4, leaveTypes
    <3>. QED
      BY <3>1, <1>3, <1>5
  <2>. QED
    BY <1>7, <2>1, <2>2, <2>3, <2>4 DEF CallStep
<1>8. CASE ConnectStep
  <2>1. CASE connect
    <3>1. Moves(Main, {"dial"}, connects') /\ connects' \in Connection
      BY <2>1, connectTypes
    <3>. QED
      BY <3>1, <1>5 DEF InConnect
  <2>2. CASE dialed
    <3>1. Moves(Main, {"connected", "refused"}, at[Main].conn) /\ at[Main].conn \in Connection
      BY <2>2, dialedTypes DEF Moves
    <3>. QED
      BY <3>1, <1>5 DEF InConnect
  <2>3. CASE refused \/ handleConnection \/ destroyed
    <3>1. Moves(Main, {"app", "gone"}, Null) \/ UNCHANGED at
      BY <2>3, refusedTypes, handleConnectionTypes, goneTypes DEF Moves
    <3>. QED
      BY <3>1, <1>3, <1>5
  <2>. QED
    BY <1>8, <2>1, <2>2, <2>3 DEF ConnectStep
<1>9. CASE RemoteStep
  BY <1>9, remoteTypes, <1>3 DEF RemoteStep
<1>10. CASE UNCHANGED vars
  BY <1>10, <1>3 DEF vars
<1>. QED
  BY <1>6, <1>7, <1>8, <1>9, <1>10, NextCases

\* The number of the connection that is made is the number of the connect call.
LEMMA NumberedStep == ASSUME Types, Handlers, Numbered, [Next]_vars PROVE Numbered'
<1> USE ClientConstants DEF Null
<1>1. /\ connection \in Nat /\ connects \in Nat /\ Connection \subseteq Nat
      /\ \A t \in Thread : at[t].conn \in Nat
  BY DEF Types, Connection, Actor, Activity
<1>2. connects' = connects \/ connects' = connects + 1
  BY connectTypes, NextCases
     DEF ThreadStep, CallStep, ConnectStep, RemoteStep, asyncRead, readPayload, onRead, repeatReadTCP,
         rearm, runReturns, callbackThrows, addMsgListenerBegins, addMsgListenerEnds, disconnect,
         stopContext, joins, send, dialed, refused, handleConnection, destroyed, remoteSends,
         remoteLeaves, vars
<1>3. connects' >= connects
  BY <1>1, <1>2
<1>4. connection' \in {connection, Null, connects'}
  <2>1. disconnect(Main) \/ refused \/ connect \/ (\E t \in Thread : disconnect(t)) \/ connection' = connection
    BY NextCases, Zenon
       DEF ThreadStep, CallStep, ConnectStep, RemoteStep, asyncRead, readPayload, onRead, repeatReadTCP,
           rearm, runReturns, callbackThrows, addMsgListenerBegins, addMsgListenerEnds, stopContext,
           joins, send, dialed, handleConnection, destroyed, remoteSends, remoteLeaves, vars, member,
           Actor
  <2>. QED
    BY <2>1, leaveTypes, refusedTypes, connectTypes DEF Actor
<1>5. \A c \in Connection : reads'[c] > 0 => c <= connects
  <2>1. ASSUME NEW d \in Connection, d <= connects,
               reads' = [reads EXCEPT ![d] = reads[d] + 1], NEW c \in Connection, reads'[c] > 0
        PROVE  c <= connects
    BY <2>1 DEF Types, Numbered
  <2>2. ASSUME NEW t \in Thread, rearm(t), NEW c \in Connection, reads'[c] > 0 PROVE c <= connects
    BY <2>1, <2>2, rearmTypes DEF Numbered
  <2>3. ASSUME handleConnection, NEW c \in Connection, reads'[c] > 0 PROVE c <= connects
    BY <2>1, <2>3, handleConnectionTypes DEF Numbered
  <2>4. ASSUME NEW t \in Thread, NEW d \in Connection, asyncRead(t, d), NEW c \in Connection, reads'[c] > 0
        PROVE  c <= connects
    <3>1. reads[c] > 0
      BY <2>4 DEF asyncRead, Types
    <3>. QED
      BY <3>1 DEF Numbered
  <2>5. \/ \E t \in Thread : rearm(t) \/ \E d \in Connection : asyncRead(t, d)
        \/ handleConnection
        \/ reads' = reads
    BY NextCases, Zenon
       DEF ThreadStep, CallStep, ConnectStep, RemoteStep, readPayload, onRead, repeatReadTCP,
           runReturns, callbackThrows, addMsgListenerBegins, addMsgListenerEnds, disconnect,
           stopContext, joins, send, connect, dialed, refused, destroyed, remoteSends, remoteLeaves,
           vars, net
  <2>. QED
    BY <2>2, <2>3, <2>4, <2>5 DEF Numbered
<1>6. \A t \in Thread : at'[t].conn <= connects
  <2>1. ASSUME NEW u \in Actor, NEW c \in {Null, at[u].conn, connection} \cup {d \in Connection : reads[d] > 0},
               NEW do, Moves(u, do, c), u \in Thread \/ c = Null
        PROVE  \A t \in Thread : at'[t].conn <= connects
    <3>1. u \in Thread => c <= connects
      BY <1>1, <2>1 DEF Numbered
    <3>2. \A t \in Thread \ {u} : at'[t] = at[t]
      BY <2>1 DEF Moves, Actor
    <3>. QED
      BY <2>1, <3>1, <3>2 DEF Moves, Numbered
  <2>2. ASSUME \A t \in Thread : at'[t].conn = at[t].conn
        PROVE  \A t \in Thread : at'[t].conn <= connects
    BY <2>2 DEF Numbered
  <2>3. ASSUME NEW t \in Thread, ThreadStep(t)
        PROVE  \A v \in Thread : at'[v].conn <= connects
    <3>1. ASSUME NEW c \in Connection, asyncRead(t, c) PROVE \A v \in Thread : at'[v].conn <= connects
      BY <2>1, <3>1, asyncReadTypes DEF asyncRead, Actor
    <3>2. CASE readPayload(t)
      BY <2>1, <2>2, <3>2, readPayloadTypes DEF Actor, Same
    <3>3. CASE onRead(t) \/ repeatReadTCP(t) \/ runReturns(t)
      BY <2>1, <3>3, threadTypes DEF Actor
    <3>4. CASE rearm(t)
      <4>1. Moves(t, {"idle"}, Null) \/ UNCHANGED at
        BY <3>4, rearmTypes
      <4>. QED
        BY <2>1, <2>2, <4>1 DEF Actor
    <3>5. CASE callbackThrows(t)
      BY <2>2, <3>5, threadTypes
    <3>. QED
      BY <2>3, <3>1, <3>2, <3>3, <3>4, <3>5 DEF ThreadStep
  <2>4. ASSUME NEW u \in Actor, CallStep(u)
        PROVE  \A v \in Thread : at'[v].conn <= connects
    <3>1. CASE addMsgListenerBegins(u)
      BY <2>2, <3>1, addBeginsTypes DEF Actor
    <3>2. CASE addMsgListenerEnds(u)
      BY <2>2, <3>2, addEndsTypes DEF Actor
    <3>3. CASE disconnect(u) \/ stopContext(u)
      BY <2>1, <3>3, leaveTypes
    <3>4. CASE joins(u) \/ send(u)
      BY <2>1, <2>2, <3>4, leaveTypes
    <3>. QED
      BY <2>4, <3>1, <3>2, <3>3, <3>4 DEF CallStep
  <2>5. ASSUME ConnectStep PROVE \A t \in Thread : at'[t] = at[t]
    BY <2>5, connectTypes, dialedTypes, refusedTypes, handleConnectionTypes, goneTypes
       DEF ConnectStep, Moves, Actor
  <2>6. CASE RemoteStep \/ UNCHANGED vars
    BY <2>2, <2>6, remoteTypes DEF RemoteStep, vars
  <2>. QED
    BY <2>2, <2>3, <2>4, <2>5, <2>6, NextCases
<1>7. connection' <= connects'
  <2>1. connects' \in Nat
    BY <1>1, <1>2
  <2>. QED
    BY <1>1, <1>3, <1>4, <2>1 DEF Numbered
<1>8. \A c \in Connection : reads'[c] > 0 => c <= connects'
  BY <1>1, <1>2, <1>5
<1>9. \A t \in Thread : at'[t].conn \in Nat
  <2>1. Types'
    BY NextTypes
  <2>. QED
    BY <2>1 DEF Types, Actor, Activity, Connection
<1>. QED
  BY <1>1, <1>2, <1>6, <1>7, <1>8, <1>9 DEF Numbered
-----------------------------------------------------------------------------
(* The count of the loops. *)

\* An outstanding read is a pair of its connection and a number.
LEMMA OutstandingPairs ==
    \A x : x \in Outstanding <=> \E c \in Connection : \E i \in 1..reads[c] : x = <<c, i>>
<1>. SUFFICES ASSUME NEW x
              PROVE  x \in Outstanding <=> \E d \in Connection : \E i \in 1..reads[d] : x = <<d, i>>
  OBVIOUS
<1>1. ASSUME x \in Outstanding PROVE \E d \in Connection : \E i \in 1..reads[d] : x = <<d, i>>
  <2>1. PICK d \in Connection : x \in {d} \X (1..reads[d])
    BY <1>1, Zenon DEF Outstanding
  <2>. QED
    BY <2>1
<1>2. ASSUME NEW d \in Connection, NEW i \in 1..reads[d], x = <<d, i>> PROVE x \in Outstanding
  <2>1. x \in {d} \X (1..reads[d])
    BY <1>2
  <2>. QED
    BY <2>1, Zenon DEF Outstanding
<1>. QED
  BY <1>1, <1>2

LEMMA InLoopFinite == IsFiniteSet(InLoop) /\ Cardinality(InLoop) \in Nat
<1>1. IsFiniteSet(Thread) /\ InLoop \subseteq Thread
  BY ClientConstants DEF InLoop
<1>. QED
  BY <1>1, FS_Subset, FS_CardinalityType

\* One read more of a connection is one outstanding read more.
LEMMA ReadMore ==
    ASSUME Types, IsFiniteSet(Outstanding), NEW c \in Connection,
           reads' = [reads EXCEPT ![c] = reads[c] + 1]
    PROVE  IsFiniteSet(Outstanding') /\ Cardinality(Outstanding') = Cardinality(Outstanding) + 1
<1> DEFINE new == <<c, reads[c] + 1>>
<1>1. /\ reads[c] \in Nat /\ reads'[c] = reads[c] + 1
      /\ \A d \in Connection \ {c} : reads'[d] = reads[d]
  BY DEF Types
<1>2. new \notin Outstanding
  BY <1>1, OutstandingPairs
<1>3. \A x : x \in Outstanding' <=> \E d \in Connection : \E i \in 1..reads'[d] : x = <<d, i>>
  BY DEF Outstanding
<1>4. new \in Outstanding'
  BY <1>1, <1>3
<1>5. ASSUME NEW x \in Outstanding PROVE x \in Outstanding'
  <2>1. PICK d \in Connection : \E i \in 1..reads[d] : x = <<d, i>>
    BY <1>5, OutstandingPairs
  <2>2. PICK i \in 1..reads[d] : x = <<d, i>>
    BY <2>1
  <2>3. i \in 1..reads'[d]
    BY <1>1, <2>2
  <2>. QED
    BY <1>3, <2>2, <2>3
<1>6. ASSUME NEW x \in Outstanding', x # new PROVE x \in Outstanding
  <2>1. PICK d \in Connection : \E i \in 1..reads'[d] : x = <<d, i>>
    BY <1>3, <1>6
  <2>2. PICK i \in 1..reads'[d] : x = <<d, i>>
    BY <2>1
  <2>3. i \in 1..reads[d]
    BY <1>1, <1>6, <2>2
  <2>. QED
    BY <2>2, <2>3, OutstandingPairs
<1> HIDE DEF new
<1>7. Outstanding' = Outstanding \cup {new}
  BY <1>4, <1>5, <1>6
<1>. QED
  BY <1>2, <1>7, FS_AddElement

\* One read less of a connection is one outstanding read less.
LEMMA ReadLess ==
    ASSUME Types, IsFiniteSet(Outstanding), NEW c \in Connection, reads[c] > 0,
           reads' = [reads EXCEPT ![c] = reads[c] - 1]
    PROVE  IsFiniteSet(Outstanding') /\ Cardinality(Outstanding') = Cardinality(Outstanding) - 1
<1> DEFINE old == <<c, reads[c]>>
<1>1. /\ reads[c] \in Nat /\ reads'[c] = reads[c] - 1
      /\ \A d \in Connection \ {c} : reads'[d] = reads[d]
  BY DEF Types
<1>2. old \in Outstanding
  <2>1. reads[c] \in 1..reads[c]
    BY <1>1
  <2>. QED
    BY <2>1, OutstandingPairs
<1>3. \A x : x \in Outstanding' <=> \E d \in Connection : \E i \in 1..reads'[d] : x = <<d, i>>
  BY DEF Outstanding
<1>4. old \notin Outstanding'
  BY <1>1, <1>3
<1>5. ASSUME NEW x \in Outstanding' PROVE x \in Outstanding
  <2>1. PICK d \in Connection : \E i \in 1..reads'[d] : x = <<d, i>>
    BY <1>3, <1>5
  <2>2. PICK i \in 1..reads'[d] : x = <<d, i>>
    BY <2>1
  <2>3. i \in 1..reads[d]
    BY <1>1, <2>2
  <2>. QED
    BY <2>2, <2>3, OutstandingPairs
<1>6. ASSUME NEW x \in Outstanding, x # old PROVE x \in Outstanding'
  <2>1. PICK d \in Connection : \E i \in 1..reads[d] : x = <<d, i>>
    BY <1>6, OutstandingPairs
  <2>2. PICK i \in 1..reads[d] : x = <<d, i>>
    BY <2>1
  <2>3. i \in 1..reads'[d]
    BY <1>1, <1>6, <2>2
  <2>. QED
    BY <1>3, <2>2, <2>3
<1> HIDE DEF old
<1>7. Outstanding' = Outstanding \ {old}
  BY <1>4, <1>5, <1>6
<1>. QED
  BY <1>2, <1>7, FS_RemoveElement

\* A connection is read at most as often as there are outstanding reads.
LEMMA ReadsBound ==
    ASSUME Types, IsFiniteSet(Outstanding), NEW c \in Connection
    PROVE  reads[c] <= Cardinality(Outstanding)
<1> DEFINE n == reads[c]
<1>1. n \in Nat
  BY DEF Types
<1>2. {c} \X (1..n) \subseteq Outstanding
  BY DEF Outstanding
<1>3. IsFiniteSet(1..n) /\ Cardinality(1..n) = n
  BY <1>1, FS_Interval
<1>4. IsFiniteSet({c}) /\ Cardinality({c}) = 1
  BY FS_Singleton
<1>5. Cardinality({c} \X (1..n)) = 1 * n
  BY <1>3, <1>4, FS_Product
<1>6. Cardinality({c} \X (1..n)) <= Cardinality(Outstanding)
  BY <1>2, FS_Subset
<1>. QED
  BY <1>1, <1>5, <1>6

\* A step that leaves the reads alone, and every thread in or out of the loop,
\* changes no count.
LEMMA CountStays ==
    ASSUME UNCHANGED reads, \A t \in Thread : at'[t].do \in Idle <=> at[t].do \in Idle
    PROVE  Outstanding' = Outstanding /\ InLoop' = InLoop
BY DEF Outstanding, InLoop, Idle

LEMMA EntersLoop ==
    ASSUME NEW t \in Thread, at[t].do \in Idle, at'[t].do \notin Idle,
           \A v \in Thread \ {t} : at'[v] = at[v]
    PROVE  Cardinality(InLoop') = Cardinality(InLoop) + 1
<1>1. t \notin InLoop /\ InLoop' = InLoop \cup {t}
  BY DEF InLoop, Idle
<1>. QED
  BY <1>1, InLoopFinite, FS_AddElement

LEMMA LeavesLoop ==
    ASSUME NEW t \in Thread, at[t].do \notin Idle, at'[t].do \in Idle,
           \A v \in Thread \ {t} : at'[v] = at[v]
    PROVE  Cardinality(InLoop') = Cardinality(InLoop) - 1
<1>1. t \in InLoop /\ InLoop' = InLoop \ {t}
  BY DEF InLoop, Idle
<1>. QED
  BY <1>1, InLoopFinite, FS_RemoveElement

\* The steps that neither take up nor start a read.
LEMMA OtherSteps ==
    ASSUME Types, Handlers, [Next]_vars,
           ~\E t \in Thread : rearm(t) \/ \E c \in Connection : asyncRead(t, c),
           ~handleConnection
    PROVE  /\ UNCHANGED <<reads, loops>>
           /\ \A t \in Thread : at'[t].do \in Idle <=> at[t].do \in Idle
           /\ \/ at'[Main].do \notin InConnect
              \/ at[Main].do \in InConnect /\ connects' = connects
              \/ connects' = connects + 1
<1> USE ClientConstants
<1> DEFINE Main_ ==
             \/ at'[Main].do \notin InConnect
             \/ at[Main].do \in InConnect /\ connects' = connects
             \/ connects' = connects + 1
           Threads_ == \A v \in Thread : at'[v].do \in Idle <=> at[v].do \in Idle
<1>1. UNCHANGED <<reads, loops>>
  BY NextCases, Zenon
     DEF ThreadStep, CallStep, ConnectStep, RemoteStep, readPayload, onRead, repeatReadTCP,
         runReturns, callbackThrows, addMsgListenerBegins, addMsgListenerEnds, disconnect,
         stopContext, joins, send, connect, dialed, refused, destroyed, remoteSends, remoteLeaves,
         vars, net, history
<1>2. ASSUME NEW t \in Thread, NEW dos, NEW c, Moves(t, dos, c),
             (at[t].do \in Idle /\ dos \subseteq Idle) \/ (at[t].do \notin Idle /\ dos \cap Idle = {})
      PROVE  Threads_ /\ at'[Main] = at[Main]
  BY <1>2 DEF Moves, Actor
<1>3. ASSUME NEW dos, NEW c, Moves(Main, dos, c)
      PROVE  Threads_ /\ at'[Main].do \in dos
  BY <1>3 DEF Moves, Actor
<1>4. ASSUME connects' = connects, at'[Main].do = at[Main].do
      PROVE  Main_
  BY <1>4
<1>5. ASSUME NEW t \in Thread, ThreadStep(t)
      PROVE  Threads_ /\ Main_
  <2>1. connects' = connects
    BY <1>5 DEF ThreadStep, asyncRead, readPayload, onRead, repeatReadTCP, rearm, runReturns, callbackThrows, history
  <2>2. CASE readPayload(t)
    <3>1. at[t].do = "payload"
      BY <2>2 DEF readPayload
    <3>2. CASE Moves(t, {"callback"}, at[t].conn)
      BY <2>1, <3>1, <3>2, <1>2, <1>4 DEF Idle
    <3>3. CASE at'[t].do = "lookup" /\ \A v \in Actor \ {t} : Same(v)
      <4>1. at'[Main].do = at[Main].do
        BY <3>3 DEF Same, Actor
      <4>2. Threads_
        BY <3>1, <3>3 DEF Same, Actor, Idle
      <4>. QED
        BY <2>1, <1>4, <4>1, <4>2
    <3>. QED
      BY <2>2, <3>2, <3>3, readPayloadTypes
  <2>3. CASE onRead(t) \/ repeatReadTCP(t)
    <3>1. at[t].do \in {"lookup", "callback"}
      BY <2>3 DEF onRead, repeatReadTCP
    <3>2. Moves(t, {"callback"}, at[t].conn) \/ Moves(t, {"rearm"}, connection)
      BY <2>3, threadTypes
    <3>. QED
      BY <2>1, <3>1, <3>2, <1>2, <1>4 DEF Idle
  <2>4. CASE runReturns(t)
    <3>1. at[t].do = "idle" /\ Moves(t, {"exited"}, Null)
      BY <2>4, threadTypes DEF runReturns
    <3>2. Threads_ /\ at'[Main] = at[Main]
      BY <3>1 DEF Moves, Actor, Idle
    <3>. QED
      BY <2>1, <3>2, <1>4
  <2>5. CASE callbackThrows(t)
    BY <2>1, <2>5, <1>4, threadTypes
  <2>. QED
    BY <1>5, <2>2, <2>3, <2>4, <2>5 DEF ThreadStep
<1>6. ASSUME NEW u \in Actor, CallStep(u)
      PROVE  Threads_ /\ Main_
  <2>1. connects' = connects
    BY <1>6 DEF CallStep, addMsgListenerBegins, addMsgListenerEnds, disconnect, stopContext, joins, send, history
  <2>2. CASE addMsgListenerBegins(u) \/ addMsgListenerEnds(u)
    <3>1. \A v \in Actor : at'[v].do = at[v].do
      BY <2>2, addBeginsTypes, addEndsTypes
    <3>. QED
      BY <2>1, <3>1, <1>4 DEF Actor
  <2>3. CASE disconnect(u) \/ stopContext(u)
    <3>1. Moves(u, {"disconnect"}, Null) \/ Moves(u, {"join"}, Null)
      BY <2>3, leaveTypes
    <3>2. u \in Thread => at[u].do \in {"callback", "disconnect"}
      BY <2>3 DEF disconnect, stopContext, InApp
    <3>3. CASE u = Main
      BY <3>1, <3>3, <1>3 DEF InConnect
    <3>4. CASE u \in Thread
      BY <2>1, <3>1, <3>2, <3>4, <1>2, <1>4 DEF Idle
    <3>. QED
      BY <3>3, <3>4 DEF Actor
  <2>4. CASE joins(u) \/ send(u)
    <3>1. (u = Main /\ Moves(u, {"app"}, Null)) \/ UNCHANGED at
      BY <2>4, leaveTypes
    <3>. QED
      BY <2>1, <3>1, <1>3, <1>4 DEF InConnect
  <2>. QED
    BY <1>6, <2>2, <2>3, <2>4 DEF CallStep
<1>7. ASSUME connect \/ dialed \/ refused \/ destroyed PROVE Threads_ /\ Main_
  <2>1. CASE connect
    BY <2>1, connectTypes, <1>3
  <2>2. CASE dialed
    <3>1. at[Main].do \in InConnect /\ connects' = connects
      BY <2>2 DEF dialed, InConnect
    <3>2. Moves(Main, {"connected"}, at[Main].conn) \/ Moves(Main, {"refused"}, at[Main].conn)
      BY <2>2, dialedTypes
    <3>. QED
      BY <3>1, <3>2, <1>3
  <2>3. CASE refused \/ destroyed
    <3>1. Moves(Main, {"app"}, Null) \/ Moves(Main, {"gone"}, Null)
      BY <2>3, refusedTypes, goneTypes
    <3>. QED
      BY <3>1, <1>3 DEF InConnect
  <2>. QED
    BY <1>7, <2>1, <2>2, <2>3
<1>8. ASSUME RemoteStep \/ UNCHANGED vars PROVE Threads_ /\ Main_
  <2>1. UNCHANGED at /\ connects' = connects
    BY <1>8, remoteTypes DEF RemoteStep, vars, remoteSends, remoteLeaves
  <2>. QED
    BY <2>1, <1>4
<1>9. Threads_ /\ Main_
  BY <1>5, <1>6, <1>7, <1>8, NextCases DEF ConnectStep
<1>. QED
  BY <1>1, <1>9

\* A step takes a read up in a thread that enters the loop, or lets a thread
\* leave it for a read, or starts a loop in place of the connect call.
LEMMA LoopCountStep == ASSUME Types, Handlers, LoopCount, [Next]_vars PROVE LoopCount'
<1> USE ClientConstants
<1>0. /\ Cardinality(InLoop) \in Nat /\ Cardinality(Outstanding) \in Nat
      /\ connects \in Nat /\ loops \in Nat
  BY InLoopFinite, FS_CardinalityType DEF LoopCount, Types
<1>1. ASSUME fate = "runs", NEW t \in Thread, NEW c \in Connection, asyncRead(t, c)
      PROVE  LoopCount'
  <2>1. at[t].do \in Idle /\ reads[c] > 0 /\ reads' = [reads EXCEPT ![c] = reads[c] - 1]
    BY <1>1 DEF asyncRead, Idle
  <2>2. /\ at'[t].do \notin Idle /\ at'[Main] = at[Main]
        /\ \A v \in Thread \ {t} : at'[v] = at[v]
    BY <1>1, asyncReadTypes DEF Moves, Idle, Actor
  <2>3. Cardinality(InLoop') = Cardinality(InLoop) + 1
    BY <2>1, <2>2, EntersLoop
  <2>4. IsFiniteSet(Outstanding') /\ Cardinality(Outstanding') = Cardinality(Outstanding) - 1
    BY <2>1, ReadLess DEF LoopCount
  <2>5. UNCHANGED <<fate, connects, loops>>
    BY <1>1 DEF asyncRead, history
  <2>. QED
    BY <1>0, <2>2, <2>3, <2>4, <2>5 DEF LoopCount
<1>2. ASSUME fate = "runs", NEW t \in Thread, rearm(t)
      PROVE  LoopCount'
  <2>1. UNCHANGED <<connects, loops>> /\ at[t].do \notin Idle
    BY <1>2 DEF rearm, history, Idle
  <2>2. CASE fate' # "runs" /\ UNCHANGED <<reads, at>>
    <3>1. Outstanding' = Outstanding
      BY <2>2, CountStays
    <3>. QED
      BY <2>1, <2>2, <3>1 DEF LoopCount
  <2>3. ASSUME NEW c \in Connection, reads' = [reads EXCEPT ![c] = reads[c] + 1],
               Moves(t, {"idle"}, Null), UNCHANGED fate
        PROVE  LoopCount'
    <3>1. /\ at'[t].do \in Idle /\ at'[Main] = at[Main]
          /\ \A v \in Thread \ {t} : at'[v] = at[v]
      BY <2>3 DEF Moves, Idle, Actor
    <3>2. Cardinality(InLoop') = Cardinality(InLoop) - 1
      BY <2>1, <3>1, LeavesLoop
    <3>3. IsFiniteSet(Outstanding') /\ Cardinality(Outstanding') = Cardinality(Outstanding) + 1
      BY <2>3, ReadMore DEF LoopCount
    <3>4. Cardinality(InLoop') \in Nat
      BY <3>2, InLoopFinite, FS_RemoveElement, <2>1, FS_CardinalityType, FS_Subset DEF InLoop
    <3>. QED
      BY <1>0, <1>2, <2>1, <2>3, <3>1, <3>2, <3>3, <3>4 DEF LoopCount
  <2>. QED
    BY <1>2, <2>2, <2>3, rearmTypes
<1>3. ASSUME fate = "runs", handleConnection
      PROVE  LoopCount'
  <2>1. loops < connects /\ loops' = loops + 1 /\ connects' = connects
    BY <1>3 DEF LoopCount, handleConnection, InConnect
  <2>2. CASE fate' # "runs" /\ UNCHANGED <<reads, at>>
    <3>1. Outstanding' = Outstanding
      BY <2>2, CountStays
    <3>. QED
      BY <1>0, <2>1, <2>2, <3>1 DEF LoopCount
  <2>3. CASE /\ connection \in Connection /\ UNCHANGED fate
             /\ reads' = [reads EXCEPT ![connection] = reads[connection] + 1]
             /\ Moves(Main, {"app"}, Null)
    <3>1. InLoop' = InLoop /\ at'[Main].do \notin InConnect
      BY <2>3 DEF Moves, InConnect, Actor, InLoop
    <3>2. IsFiniteSet(Outstanding') /\ Cardinality(Outstanding') = Cardinality(Outstanding) + 1
      BY <2>3, ReadMore DEF LoopCount
    <3>. QED
      BY <1>0, <1>3, <2>1, <2>3, <3>1, <3>2 DEF LoopCount
  <2>. QED
    BY <1>3, <2>2, <2>3, handleConnectionTypes
<1>4. ASSUME fate = "runs",
             ~\E t \in Thread : rearm(t) \/ \E c \in Connection : asyncRead(t, c),
             ~handleConnection
      PROVE  LoopCount'
  <2>1. /\ UNCHANGED loops /\ Outstanding' = Outstanding /\ InLoop' = InLoop
        /\ \/ at'[Main].do \notin InConnect
           \/ at[Main].do \in InConnect /\ connects' = connects
           \/ connects' = connects + 1
    BY <1>4, OtherSteps, CountStays
  <2>2. connects' = connects \/ connects' = connects + 1
    BY connectTypes, NextCases
       DEF ThreadStep, CallStep, ConnectStep, RemoteStep, asyncRead, readPayload, onRead, repeatReadTCP,
           rearm, runReturns, callbackThrows, addMsgListenerBegins, addMsgListenerEnds, disconnect,
           stopContext, joins, send, dialed, refused, handleConnection, destroyed, remoteSends,
           remoteLeaves, vars
  <2>. QED
    BY <1>0, <1>4, <2>1, <2>2 DEF LoopCount
<1>5. CASE UNCHANGED vars
  BY <1>5 DEF LoopCount, vars, net, history, Outstanding, InLoop
<1>. QED
  BY <1>1, <1>2, <1>3, <1>4, <1>5, NextCases
-----------------------------------------------------------------------------
(* What holds before the first loop, and of the only connection. *)

\* Only handleConnection counts a loop, and only it and stopContext write
\* isConnected.
LEMMA LoopsStep ==
    ASSUME [Next]_vars
    PROVE  \/ UNCHANGED loops /\ (UNCHANGED isConnected \/ isConnected' = FALSE)
           \/ fate = "runs" /\ handleConnection
BY NextCases, Zenon
   DEF ThreadStep, CallStep, ConnectStep, RemoteStep, asyncRead, readPayload, onRead, repeatReadTCP,
       rearm, runReturns, callbackThrows, addMsgListenerBegins, addMsgListenerEnds, disconnect,
       stopContext, joins, send, connect, dialed, refused, destroyed, remoteSends, remoteLeaves,
       vars, member, history

LEMMA NoLoopYetStep == ASSUME Types, Handlers, NoLoopYet, [Next]_vars PROVE NoLoopYet'
<1>1. CASE handleConnection
  <2>1. loops' # 0
    BY <1>1 DEF handleConnection, Types
  <2>. QED
    BY <2>1 DEF NoLoopYet
<1>2. CASE ~handleConnection
  <2>1. SUFFICES ASSUME loops = 0
                 PROVE  /\ ~isConnected'
                        /\ \A t \in Thread : at'[t].do \in Idle
                        /\ \A c \in Connection : reads'[c] = 0
    BY <1>2, LoopsStep DEF NoLoopYet
  <2>2. /\ ~isConnected
        /\ \A t \in Thread : at[t].do \in Idle
        /\ \A c \in Connection : reads[c] = 0
    BY <2>1 DEF NoLoopYet
  <2>3. ~\E t \in Thread : rearm(t) \/ \E c \in Connection : asyncRead(t, c)
    BY <2>2 DEF rearm, asyncRead, Idle
  <2>4. UNCHANGED reads /\ \A t \in Thread : at'[t].do \in Idle <=> at[t].do \in Idle
    BY <1>2, <2>3, OtherSteps
  <2>5. ~isConnected'
    BY <1>2, <2>2, LoopsStep
  <2>. QED
    BY <2>2, <2>4, <2>5
<1>. QED
  BY <1>1, <1>2

\* A connect call that is going on has not started its loop: if it is the first
\* one, no thread is in a handler.
LEMMA FirstCall ==
    ASSUME Types, LoopCount, NoLoopYet, fate = "runs", connects <= 1
    PROVE  /\ at[Main].do \in InConnect \/ connects = 0 => loops = 0
           /\ loops = 0 => /\ ~isConnected
                           /\ \A t \in Thread : at[t].do \in Idle
                           /\ \A c \in Connection : reads[c] = 0
BY DEF Types, LoopCount, NoLoopYet

\* What a step keeps that leaves the member, the sockets and the program alone.
LEMMA FirstFrame ==
    ASSUME Types, FirstConnection, fate = "runs",
           UNCHANGED <<connection, socket, isConnected, ended, loops, connects>>,
           at'[Main].do = at[Main].do, at'[Main].conn = at[Main].conn,
           \A u \in Actor : at[u].do = "disconnect" => at'[u].do = "disconnect",
           connects = 1 /\ loops = 1 /\ ended = "never" =>
               /\ \A t \in Thread : at'[t].do = "rearm" => at'[t].conn = 1
               /\ fate' \notin {"null", "dangling"}
    PROVE  FirstConnection'
BY DEF FirstConnection

LEMMA FirstThreadStep ==
    ASSUME Types, Types', Handlers, Numbered, FirstConnection, fate = "runs",
           NEW t \in Thread, ThreadStep(t)
    PROVE  FirstConnection'
<1> USE ClientConstants
<1>1. UNCHANGED <<connection, socket, isConnected, ended, loops, connects>>
  BY DEF ThreadStep, asyncRead, readPayload, onRead, repeatReadTCP, rearm, runReturns,
         callbackThrows, member, net, history
<1> DEFINE live == connects = 1 /\ loops = 1 /\ ended = "never"
           keep == \A v \in Thread \ {t} : at'[v].do = at[v].do /\ at'[v].conn = at[v].conn
<1>2. live => /\ connection = 1 /\ socket[1] = "open"
              /\ \A v \in Thread : at[v].do = "rearm" => at[v].conn = 1
  BY DEF FirstConnection
<1>3. connects = 1 /\ at[t].conn \in Connection => at[t].conn = 1
  BY DEF Numbered, Connection
<1>4. ASSUME keep, at'[Main].do = at[Main].do, at'[Main].conn = at[Main].conn,
             at[t].do # "disconnect" \/ at'[t].do = "disconnect",
             live => /\ at'[t].do = "rearm" => at'[t].conn = 1
                     /\ fate' \notin {"null", "dangling"}
      PROVE  FirstConnection'
  <2>1. \A u \in Actor : at[u].do = "disconnect" => at'[u].do = "disconnect"
    BY <1>4 DEF Actor
  <2>2. live => /\ \A v \in Thread : at'[v].do = "rearm" => at'[v].conn = 1
                /\ fate' \notin {"null", "dangling"}
    BY <1>2, <1>4
  <2>. QED
    BY <1>1, <1>4, <2>1, <2>2, FirstFrame
<1>5. ASSUME NEW dos, NEW c, Moves(t, dos, c)
      PROVE  /\ keep /\ at'[Main].do = at[Main].do /\ at'[Main].conn = at[Main].conn
             /\ at'[t].do \in dos /\ at'[t].conn = c
  BY <1>5 DEF Moves, Actor
<1> HIDE DEF keep
<1>6. ASSUME NEW c \in Connection, asyncRead(t, c) PROVE FirstConnection'
  <2>1. at[t].do = "idle" /\ fate' = "runs" /\ Moves(t, {"payload", "callback"}, c)
    BY <1>6, asyncReadTypes DEF asyncRead
  <2>2. at'[t].do \in {"payload", "callback"}
    BY <2>1, <1>5
  <2>. QED
    BY <2>1, <2>2, <1>4, <1>5
<1>7. CASE readPayload(t)
  <2>1. at[t].do = "payload" /\ at[t].conn \in Connection
    BY <1>7, readPayloadTypes DEF readPayload
  <2>2. CASE /\ Moves(t, {"callback"}, at[t].conn) /\ fate' \in {"runs", "dangling"}
             /\ fate' = "dangling" => socket[at[t].conn] = "closed"
    <3>1. live => fate' \notin {"null", "dangling"}
      BY <2>1, <2>2, <1>2, <1>3
    <3>2. at'[t].do = "callback"
      BY <2>2, <1>5
    <3>. QED
      BY <2>1, <2>2, <3>1, <3>2, <1>4, <1>5
  <2>3. CASE UNCHANGED fate /\ at'[t].do = "lookup" /\ \A v \in Actor \ {t} : Same(v)
    <3>1. keep /\ at'[Main].do = at[Main].do /\ at'[Main].conn = at[Main].conn
      BY <2>3 DEF Same, Actor, keep
    <3>. QED
      BY <2>1, <2>3, <3>1, <1>4
  <2>. QED
    BY <1>7, <2>2, <2>3, readPayloadTypes
<1>8. CASE onRead(t)
  <2>1. at[t].do = "lookup" /\ fate' \in {"runs", "race"} /\ Moves(t, {"callback"}, at[t].conn)
    BY <1>8, threadTypes DEF onRead, Survives
  <2>2. at'[t].do = "callback"
    BY <2>1, <1>5
  <2>. QED
    BY <2>1, <2>2, <1>4, <1>5
<1>9. CASE repeatReadTCP(t)
  <2>1. at[t].do = "callback" /\ fate' = "runs" /\ Moves(t, {"rearm"}, connection)
    BY <1>9, threadTypes DEF repeatReadTCP
  <2>2. at'[t].conn = connection
    BY <2>1, <1>5
  <2>. QED
    BY <2>1, <2>2, <1>2, <1>4, <1>5
<1>10. CASE rearm(t)
  <2>1. at[t].do = "rearm"
    BY <1>10 DEF rearm
  <2>2. live => at[t].conn = 1 /\ socket[at[t].conn] # "closed" /\ at[t].conn # Null
    BY <2>1, <1>2 DEF Null
  <2>3. live => fate' \notin {"null", "dangling"}
    BY <1>10, <2>2, rearmTypes
  <2>4. CASE Moves(t, {"idle"}, Null)
    <3>1. at'[t].do = "idle"
      BY <2>4, <1>5
    <3>. QED
      BY <2>1, <2>3, <2>4, <3>1, <1>4, <1>5
  <2>5. CASE UNCHANGED at
    BY <2>2, <2>3, <2>5, <1>4 DEF keep
  <2>. QED
    BY <1>10, <2>4, <2>5, rearmTypes
<1>11. CASE runReturns(t)
  <2>1. at[t].do = "idle" /\ fate' = "runs" /\ Moves(t, {"exited"}, Null)
    BY <1>11, threadTypes DEF runReturns
  <2>2. at'[t].do = "exited"
    BY <2>1, <1>5
  <2>. QED
    BY <2>1, <2>2, <1>4, <1>5
<1>12. CASE callbackThrows(t)
  <2>1. UNCHANGED at /\ fate' = "terminate"
    BY <1>12, threadTypes DEF callbackThrows
  <2>. QED
    BY <2>1, <1>2, <1>4 DEF keep
<1>. QED
  BY <1>6, <1>7, <1>8, <1>9, <1>10, <1>11, <1>12 DEF ThreadStep

LEMMA FirstCallStep ==
    ASSUME Types, Handlers, LoopCount, NoLoopYet, FirstConnection, fate = "runs",
           NEW u \in Actor, CallStep(u)
    PROVE  FirstConnection'
<1> USE ClientConstants
<1> DEFINE live == connects = 1 /\ loops = 1 /\ ended = "never"
<1>1. live => /\ connection = 1
              /\ \A v \in Thread : at[v].do = "rearm" => at[v].conn = 1
  BY DEF FirstConnection
<1>2. UNCHANGED <<connects, loops>>
  BY DEF CallStep, addMsgListenerBegins, addMsgListenerEnds, disconnect, stopContext, joins, send,
         history
<1>3. CASE addMsgListenerBegins(u) \/ addMsgListenerEnds(u)
  <2>1. \A v \in Actor : at'[v].do = at[v].do /\ at'[v].conn = at[v].conn
    BY <1>3, addBeginsTypes, addEndsTypes
  <2>2. fate' \in {"runs", "race"} /\ UNCHANGED <<connection, socket, isConnected, ended>>
    BY <1>3 DEF addMsgListenerBegins, addMsgListenerEnds, Survives, member, net, history
  <2>3. at'[Main].do = at[Main].do /\ at'[Main].conn = at[Main].conn
    BY <2>1 DEF Actor
  <2>4. \A t \in Thread : at'[t].do = at[t].do /\ at'[t].conn = at[t].conn
    BY <2>1 DEF Actor
  <2>. QED
    BY <1>1, <1>2, <2>1, <2>2, <2>3, <2>4, FirstFrame
<1>4. CASE disconnect(u)
  <2>1. Moves(u, {"disconnect"}, Null) /\ ended' = "called"
    BY <1>4, leaveTypes DEF disconnect
  <2>2. at'[u].do = "disconnect"
    BY <2>1 DEF Moves
  <2>3. connects = 1 => at'[Main].do \notin {"dial", "connected"}
    <3>1. CASE u = Main
      BY <2>2, <3>1
    <3>2. CASE u # Main
      <4>1. u \in Thread /\ at[u].do = "callback" /\ at'[Main] = at[Main]
        BY <1>4, <2>1, <3>2 DEF disconnect, InApp, Moves, Actor
      <4>2. connects = 1 => loops # 0
        BY <4>1, FirstCall DEF Idle
      <4>. QED
        BY <4>1, <4>2, FirstCall DEF InConnect
    <3>. QED
      BY <3>1, <3>2
  <2>. QED
    BY <1>2, <2>1, <2>2, <2>3 DEF FirstConnection
<1>5. CASE stopContext(u)
  <2>1. Moves(u, {"join"}, Null)
    BY <1>5, leaveTypes
  <2>2. /\ ~isConnected' /\ UNCHANGED <<connection, socket, ended, fate>>
        /\ u = Main \/ at'[Main] = at[Main]
        /\ u = Main => at'[Main].do = "join"
        /\ \A v \in Thread : at'[v].do = "rearm" => at'[v] = at[v]
    BY <1>5, <2>1 DEF stopContext, Moves, net, history, Actor
  <2>. QED
    BY <1>2, <2>2 DEF FirstConnection
<1>6. CASE joins(u)
  <2>1. CASE u = Main /\ Moves(u, {"app"}, Null) /\ ended' = "returned"
    <3>1. /\ at'[Main].do = "app" /\ at[Main].do = "join" /\ UNCHANGED <<connection, socket, isConnected>>
          /\ \A v \in Thread : at'[v] = at[v]
      BY <1>6, <2>1 DEF joins, Moves, member, net, Actor
    <3>2. \A v \in Actor : at[v].do = "disconnect" => at'[v].do = "disconnect"
      BY <3>1 DEF Actor
    <3>. QED
      BY <1>2, <2>1, <3>1, <3>2 DEF FirstConnection
  <2>2. CASE fate' = "terminate" /\ UNCHANGED <<at, ended>>
    <3>1. UNCHANGED <<connection, socket, isConnected>>
      BY <1>6 DEF joins, member, net
    <3>. QED
      BY <1>1, <1>2, <2>2, <3>1, FirstFrame
  <2>3. fate' = "terminate" \/ ended' = "returned"
    BY <1>6 DEF joins
  <2>. QED
    BY <1>6, <2>1, <2>2, <2>3, leaveTypes DEF joins
<1>7. CASE send(u)
  <2>1. /\ connection = Null
        /\ UNCHANGED <<connection, socket, isConnected, ended, at>>
    BY <1>7 DEF send, member, net, history
  <2>2. ~live
    BY <1>1, <2>1 DEF Null
  <2>. QED
    BY <1>1, <1>2, <2>1, <2>2, FirstFrame
<1>. QED
  BY <1>3, <1>4, <1>5, <1>6, <1>7 DEF CallStep

LEMMA FirstConnectStep ==
    ASSUME Types, Types', Handlers, LoopCount, NoLoopYet, FirstConnection, fate = "runs",
           ConnectStep
    PROVE  FirstConnection'
<1> USE ClientConstants
<1>1. CASE connect
  <2>1. /\ Moves(Main, {"dial"}, connects') /\ connects' = connects + 1
        /\ connection' = connects' /\ socket'[connects'] = "unopened"
        /\ UNCHANGED <<isConnected, loops>>
    BY <1>1, connectTypes DEF connect, history
  <2>2. at'[Main].do = "dial" /\ at'[Main].conn = connects'
    BY <2>1 DEF Moves
  <2>3. connects' = 1 => connects = 0
    BY <2>1 DEF Types
  <2>4. connects' = 1 => loops' = 0 /\ ~isConnected'
    BY <2>1, <2>3, FirstCall
  <2>. QED
    BY <2>1, <2>2, <2>4 DEF FirstConnection
<1>2. CASE dialed
  <2>1. /\ at[Main].do = "dial" /\ at[Main].conn \in Connection
        /\ UNCHANGED <<connection, isConnected, loops, connects>>
    BY <1>2, dialedTypes DEF dialed, member, history
  <2>2. SUFFICES ASSUME connects = 1 PROVE FirstConnection'
    BY <2>1 DEF FirstConnection
  <2>3. loops' = 0 /\ ~isConnected'
    BY <2>1, <2>2, FirstCall DEF InConnect
  <2>4. connection = 1 /\ at[Main].conn = 1
    BY <2>1, <2>2 DEF FirstConnection
  <2>5. CASE /\ Moves(Main, {"connected"}, at[Main].conn)
             /\ socket' = [socket EXCEPT ![at[Main].conn] = "open"]
    <3>1. at'[Main].do = "connected" /\ socket'[1] = "open"
      BY <2>1, <2>4, <2>5 DEF Moves, Types
    <3>. QED
      BY <2>1, <2>3, <2>4, <3>1 DEF FirstConnection
  <2>6. CASE Moves(Main, {"refused"}, at[Main].conn)
    <3>1. at'[Main].do = "refused"
      BY <2>6 DEF Moves
    <3>. QED
      BY <2>1, <2>3, <3>1 DEF FirstConnection
  <2>. QED
    BY <1>2, <2>5, <2>6, dialedTypes
<1>3. CASE refused
  <2>1. /\ at[Main].do = "refused" /\ Moves(Main, {"app"}, Null)
        /\ UNCHANGED <<isConnected, loops, connects>>
    BY <1>3, refusedTypes DEF refused, history
  <2>2. connects = 1 => loops' = 0 /\ ~isConnected'
    BY <2>1, FirstCall DEF InConnect
  <2>3. at'[Main].do = "app"
    BY <2>1 DEF Moves
  <2>. QED
    BY <2>1, <2>2, <2>3 DEF FirstConnection
<1>4. CASE handleConnection
  <2>1. at[Main].do = "connected" /\ UNCHANGED <<connection, socket, connects, ended>>
    BY <1>4 DEF handleConnection
  <2>2. SUFFICES ASSUME connects = 1 PROVE FirstConnection'
    BY <2>1 DEF FirstConnection
  <2>3. connection = 1 /\ socket[1] = "open"
    BY <2>1, <2>2 DEF FirstConnection
  <2>4. Moves(Main, {"app"}, Null) /\ fate' = "runs"
    BY <1>4, <2>3, handleConnectionTypes DEF Null
  <2>5. \A t \in Thread : at[t].do \in Idle
    BY <2>1, <2>2, FirstCall DEF InConnect
  <2>6. at'[Main].do = "app" /\ \A t \in Thread : at'[t].do # "rearm"
    BY <2>4, <2>5 DEF Moves, Actor, Idle
  <2>. QED
    BY <2>1, <2>3, <2>4, <2>6 DEF FirstConnection
<1>5. CASE destroyed
  <2>1. /\ Moves(Main, {"gone"}, Null) /\ fate' \in {"runs", "terminate"} /\ at[Main].do = "app"
        /\ UNCHANGED <<connection, socket, isConnected, ended, loops, connects>>
    BY <1>5, goneTypes DEF destroyed, InApp, member, net, history
  <2>2. /\ at'[Main].do = "gone"
        /\ \A t \in Thread : at'[t] = at[t]
        /\ \A u \in Actor : at[u].do = "disconnect" => at'[u].do = "disconnect"
    BY <2>1 DEF Moves, Actor
  <2>. QED
    BY <2>1, <2>2 DEF FirstConnection
<1>. QED
  BY <1>1, <1>2, <1>3, <1>4, <1>5 DEF ConnectStep

LEMMA FirstConnectionStep ==
    ASSUME Types, Handlers, Numbered, LoopCount, NoLoopYet, FirstConnection, [Next]_vars
    PROVE  FirstConnection'
<1>1. Types'
  BY NextTypes
<1>2. ASSUME fate = "runs", RemoteStep PROVE FirstConnection'
  <2>1. UNCHANGED <<connection, socket, isConnected, ended, loops, connects, at, fate>>
    BY <1>2 DEF RemoteStep, remoteSends, remoteLeaves, member, history
  <2>. QED
    BY <2>1 DEF FirstConnection
<1>3. CASE UNCHANGED vars
  BY <1>3 DEF FirstConnection, vars, member, net, history
<1>. QED
  BY <1>1, <1>2, <1>3, NextCases, FirstThreadStep, FirstCallStep, FirstConnectStep

\* A listener is added before connect, while no thread is in a handler; from
\* then on only handlers use the map, and they look listeners up.
LEMMA MapUseStep ==
    ASSUME Types, Handlers, LoopCount, NoLoopYet, MapUse, [Next]_vars
    PROVE  MapUse'
<1> USE ClientConstants
<1>1. ~late' => ~late
  BY NextCases, Zenon
     DEF ThreadStep, CallStep, ConnectStep, RemoteStep, asyncRead, readPayload, onRead, repeatReadTCP,
         rearm, runReturns, callbackThrows, addMsgListenerBegins, addMsgListenerEnds, disconnect,
         stopContext, joins, send, connect, dialed, refused, handleConnection, destroyed,
         remoteSends, remoteLeaves, vars, history
<1>2. SUFFICES ASSUME ~late' PROVE MapUse'
  BY DEF MapUse
<1>3. /\ \A t \in Thread : at[t].map # "no" => at[t].do = "lookup" /\ at[t].map = "reading"
      /\ at[Main].map # "no" => connects = 0 /\ at[Main].map = "writing"
      /\ fate # "race"
  BY <1>1, <1>2 DEF MapUse
<1>4. fate = "runs" /\ connects = 0 => \A t \in Thread : at[t].do \in Idle /\ at[t].map = "no"
  <2>1. fate = "runs" /\ connects = 0 => \A t \in Thread : at[t].do \in Idle
    BY FirstCall
  <2>. QED
    BY <2>1 DEF Handlers, ThreadOK, Idle
<1>5. ASSUME NEW u \in Actor, NEW dos, NEW c, Moves(u, dos, c), fate' # "race",
             connects' = connects \/ at[Main].map = "no"
      PROVE  MapUse'
  <2>1. at'[u].map = "no" /\ \A v \in Actor \ {u} : at'[v] = at[v]
    BY <1>5 DEF Moves
  <2>. QED
    BY <1>3, <1>5, <2>1 DEF MapUse, Actor
<1>6. ASSUME UNCHANGED <<at, connects>>, fate' # "race" PROVE MapUse'
  BY <1>3, <1>6 DEF MapUse
<1>7. ASSUME fate = "runs", NEW t \in Thread, ThreadStep(t) PROVE MapUse'
  <2>1. connects' = connects /\ t \in Actor
    BY <1>7 DEF ThreadStep, asyncRead, readPayload, onRead, repeatReadTCP, rearm, runReturns,
               callbackThrows, history, Actor
  <2>2. CASE readPayload(t)
    <3>1. CASE Moves(t, {"callback"}, at[t].conn) /\ fate' \in {"runs", "dangling"}
      BY <2>1, <3>1, <1>5
    <3>2. CASE /\ UNCHANGED fate /\ at'[t].do = "lookup"
               /\ at'[t].map = IF \E v \in Actor \ {t} : Clash(v, "reading") THEN "raced" ELSE "reading"
               /\ \A v \in Actor \ {t} :
                     Same(v) /\ at'[v].map = IF Clash(v, "reading") THEN "raced" ELSE at[v].map
      <4>1. connects # 0
        BY <1>4, <1>7, <2>2 DEF readPayload, Idle
      <4>2. \A v \in Actor : ~Clash(v, "reading")
        BY <1>3, <4>1 DEF Clash, Actor
      <4>3. at'[t].map = "reading"
        BY <3>2, <4>2
      <4>4. \A v \in Thread \ {t} : at'[v].map = at[v].map /\ at'[v].do = at[v].do
        BY <3>2, <4>2 DEF Same, Actor
      <4>5. at'[Main].map = "no"
        BY <1>3, <3>2, <4>1 DEF Same, Actor
      <4>. QED
        BY <1>3, <3>2, <4>3, <4>4, <4>5 DEF MapUse
    <3>. QED
      BY <2>2, <3>1, <3>2, readPayloadTypes
  <2>3. CASE onRead(t)
    <3>1. Moves(t, {"callback"}, at[t].conn) /\ fate' = "runs"
      BY <1>3, <2>3, threadTypes DEF onRead, Survives
    <3>. QED
      BY <2>1, <3>1, <1>5
  <2>4. ASSUME NEW c \in Connection, asyncRead(t, c) PROVE MapUse'
    <3>1. Moves(t, {"payload", "callback"}, c) /\ fate' = "runs"
      BY <1>7, <2>4, asyncReadTypes DEF asyncRead
    <3>. QED
      BY <2>1, <3>1, <1>5
  <2>5. CASE repeatReadTCP(t) \/ runReturns(t)
    <3>1. Moves(t, {"rearm"}, connection) \/ Moves(t, {"exited"}, Null)
      BY <2>5, threadTypes
    <3>2. fate' = "runs"
      BY <1>7, <2>5 DEF repeatReadTCP, runReturns
    <3>. QED
      BY <2>1, <3>1, <3>2, <1>5
  <2>6. CASE rearm(t)
    <3>1. Moves(t, {"idle"}, Null) \/ UNCHANGED at
      BY <2>6, rearmTypes
    <3>2. fate' \in {"runs", "null", "dangling"}
      BY <1>7, <2>6, rearmTypes
    <3>. QED
      BY <2>1, <3>1, <3>2, <1>5, <1>6
  <2>7. CASE callbackThrows(t)
    BY <2>1, <2>7, threadTypes, <1>6 DEF callbackThrows
  <2>. QED
    BY <1>7, <2>2, <2>3, <2>4, <2>5, <2>6, <2>7 DEF ThreadStep
<1>8. ASSUME fate = "runs", NEW u \in Actor, CallStep(u) PROVE MapUse'
  <2>1. connects' = connects
    BY <1>8 DEF CallStep, addMsgListenerBegins, addMsgListenerEnds, disconnect, stopContext, joins,
               send, history
  <2>2. CASE addMsgListenerBegins(u)
    <3>1. connects = 0
      <4>1. ~(connects > 0)
        BY <1>2, <2>2, Zenon DEF addMsgListenerBegins
      <4>. QED
        BY <4>1 DEF Types
    <3>2. u = Main /\ at[Main].map = "no"
      BY <1>4, <1>8, <2>2, <3>1 DEF addMsgListenerBegins, InApp, Idle, Actor
    <3>3. \A v \in Actor : ~Clash(v, "writing")
      BY <1>4, <1>8, <3>1, <3>2 DEF Clash, Actor
    <3>4. at'[Main].map = "writing" /\ \A t \in Thread : at'[t].map = at[t].map
      BY <2>2, <3>2, <3>3, addBeginsTypes DEF Actor
    <3>5. fate' = "runs"
      BY <1>8, <2>2 DEF addMsgListenerBegins
    <3>. QED
      BY <1>4, <1>8, <2>1, <3>1, <3>4, <3>5 DEF MapUse
  <2>3. CASE addMsgListenerEnds(u)
    <3>1. at[u].map # "raced" /\ fate' = "runs"
      BY <1>3, <2>3 DEF addMsgListenerEnds, Survives, Actor
    <3>2. at'[u].map = "no" /\ \A v \in Actor \ {u} : at'[v] = at[v]
      BY <2>3, addEndsTypes
    <3>. QED
      BY <1>3, <2>1, <3>1, <3>2 DEF MapUse, Actor
  <2>4. CASE disconnect(u) \/ stopContext(u)
    <3>1. Moves(u, {"disconnect"}, Null) \/ Moves(u, {"join"}, Null)
      BY <2>4, leaveTypes
    <3>2. fate' = "runs"
      BY <1>8, <2>4 DEF disconnect, stopContext
    <3>. QED
      BY <2>1, <3>1, <3>2, <1>5
  <2>5. CASE joins(u) \/ send(u)
    <3>1. (u = Main /\ Moves(u, {"app"}, Null)) \/ UNCHANGED at
      BY <2>5, leaveTypes
    <3>2. fate' # "race"
      BY <1>8, <2>5 DEF joins, send
    <3>. QED
      BY <2>1, <3>1, <3>2, <1>5, <1>6
  <2>. QED
    BY <1>8, <2>2, <2>3, <2>4, <2>5 DEF CallStep
<1>9. ASSUME fate = "runs", ConnectStep PROVE MapUse'
  <2>1. Main \in Actor
    BY DEF Actor
  <2>2. CASE connect
    <3>1. Moves(Main, {"dial"}, connects') /\ at[Main].map = "no" /\ fate' = "runs"
      BY <1>9, <2>2, connectTypes DEF connect, InApp
    <3>. QED
      BY <2>1, <3>1, <1>5
  <2>3. CASE dialed
    <3>1. Moves(Main, {"connected"}, at[Main].conn) \/ Moves(Main, {"refused"}, at[Main].conn)
      BY <2>3, dialedTypes
    <3>2. fate' # "race" /\ connects' = connects
      BY <1>9, <2>3, dialedTypes DEF dialed
    <3>. QED
      BY <2>1, <3>1, <3>2, <1>5
  <2>4. CASE refused \/ destroyed
    <3>1. Moves(Main, {"app"}, Null) \/ Moves(Main, {"gone"}, Null)
      BY <2>4, refusedTypes, goneTypes
    <3>2. fate' # "race" /\ connects' = connects
      BY <1>9, <2>4 DEF refused, destroyed, history
    <3>. QED
      BY <2>1, <3>1, <3>2, <1>5
  <2>5. CASE handleConnection
    <3>1. Moves(Main, {"app"}, Null) \/ UNCHANGED at
      BY <2>5, handleConnectionTypes
    <3>2. fate' # "race" /\ connects' = connects
      BY <1>9, <2>5, handleConnectionTypes DEF handleConnection
    <3>. QED
      BY <2>1, <3>1, <3>2, <1>5, <1>6
  <2>. QED
    BY <1>9, <2>2, <2>3, <2>4, <2>5 DEF ConnectStep
<1>10. CASE RemoteStep \/ UNCHANGED vars
  <2>1. UNCHANGED <<at, connects, fate>>
    BY <1>10 DEF RemoteStep, remoteSends, remoteLeaves, vars
  <2>. QED
    BY <1>3, <2>1, <1>6
<1>. QED
  BY <1>7, <1>8, <1>9, <1>10, NextCases
-----------------------------------------------------------------------------
(* The invariant holds, and what follows from it. *)

LEMMA InitInv == Init => Inv
<1> USE ClientConstants
<1> SUFFICES ASSUME Init PROVE Inv
  OBVIOUS
<1>1. /\ \A u \in Actor : at[u] = Doing(IF u = Main THEN "app" ELSE "idle", Null)
      /\ at \in [Actor -> Activity]
  <2>1. \A u \in Actor : Doing(IF u = Main THEN "app" ELSE "idle", Null) \in Activity
    BY DEF Doing, Activity
  <2>. QED
    BY <2>1 DEF Init, Actor
<1>2. /\ at[Main].do = "app" /\ at[Main].map = "no"
      /\ \A t \in Thread : at[t].do = "idle" /\ at[t].map = "no" /\ at[t].conn = Null
  <2>1. at[Main] = Doing("app", Null) /\ \A t \in Thread : at[t] = Doing("idle", Null)
    BY <1>1 DEF Actor
  <2>. QED
    BY <2>1 DEF Doing
<1>3. Types
  <2>1. isConnected \in BOOLEAN /\ stopped \in BOOLEAN /\ late \in BOOLEAN
    BY Zenon DEF Init
  <2>2. left \in [Connection -> BOOLEAN]
    BY DEF Init
  <2>3. connects \in 0..MaxConnects /\ loops \in Nat
    BY DEF Init
  <2>4. /\ socket \in [Connection -> {"none", "unopened", "open", "closed"}]
        /\ wire \in [Connection -> {"nothing", "header", "whole"}]
        /\ reads \in [Connection -> Nat]
    BY DEF Init
  <2>. QED
    BY <1>1, <2>1, <2>2, <2>3, <2>4 DEF Init, Types
<1>4. Handlers
  BY <1>2 DEF Handlers, ThreadOK, ProgramOK, Idle
<1>5. Numbered
  BY <1>2 DEF Init, Numbered, Null
<1>6. LoopCount
  <2>1. Outstanding = {} /\ InLoop = {}
    <3>1. \A c \in Connection : reads[c] = 0
      BY DEF Init
    <3>2. \A x : x \notin Outstanding
      BY <3>1, OutstandingPairs
    <3>. QED
      BY <1>2, <3>2 DEF InLoop
  <2>. QED
    BY <1>2, <2>1, FS_EmptySet DEF Init, LoopCount, InConnect
<1>7. NoLoopYet /\ FirstConnection /\ MapUse
  BY <1>2 DEF Init, NoLoopYet, FirstConnection, MapUse, Idle
<1>. QED
  BY <1>3, <1>4, <1>5, <1>6, <1>7 DEF Inv

LEMMA NextInv == Inv /\ [Next]_vars => Inv'
BY NextTypes, HandlersStep, NumberedStep, LoopCountStep, NoLoopYetStep, FirstConnectionStep, MapUseStep
   DEF Inv

LEMMA SpecInv == Spec => []Inv
BY InitInv, NextInv, PTL DEF Spec

\* Every variable of the client keeps its type; no connection is read more
\* often at a time than connect was called.
THEOREM ClientTypeCorrect == Spec => []TypeOK
<1>1. ASSUME Inv PROVE TypeOK
  <2>1. \A c \in Connection : reads[c] \in 0..MaxConnects
    <3>1. Cardinality(Outstanding) <= connects /\ Cardinality(Outstanding) \in Nat
      BY <1>1, FS_CardinalityType DEF Inv, LoopCount
    <3>. QED
      BY <1>1, <3>1, ReadsBound, ClientConstants DEF Inv, LoopCount, Types
  <2>2. reads \in [Connection -> 0..MaxConnects]
    BY <1>1, <2>1 DEF Inv, Types
  <2>. QED
    BY <1>1, <2>2 DEF Inv, Types, LoopCount, TypeOK, Actor
<1>. QED
  BY <1>1, SpecInv, PTL

\* For any threads there are always as many read loops, in a handler or waiting
\* for one, as connections were made.
THEOREM LoopsAlwaysAreConnects == Spec => []LoopsAreConnects
<1>1. Inv => LoopsAreConnects
  BY DEF Inv, LoopCount, LoopsAreConnects
<1>. QED
  BY <1>1, SpecInv, PTL

\* A program that connects once and never disconnects is never brought down by
\* the member that owns the Connection, nor by the map of listeners unless it
\* adds one late, however many io threads run.
THEOREM OnceAlwaysMemorySafe == Spec => []OnceIsMemorySafe
<1>1. Inv => OnceIsMemorySafe
  BY DEF Inv, FirstConnection, MapUse, Once, OnceIsMemorySafe
<1>. QED
  BY <1>1, SpecInv, PTL

\* isConnected never outlives the only connection, outside disconnect.
THEOREM ConnectedAlwaysHasConnection == Spec => []ConnectedHasConnection
<1>1. Inv => ConnectedHasConnection
  BY DEF Inv, Types, FirstConnection, ConnectedHasConnection, Actor
<1>. QED
  BY <1>1, SpecInv, PTL
=============================================================================
