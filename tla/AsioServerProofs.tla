-------------------------- MODULE AsioServerProofs --------------------------
(***************************************************************************)
(* The invariants of AsioServer for any threads, sockets and types: what   *)
(* the handlers of one socket and of the acceptor may rely on without a    *)
(* lock.  The last section is about the sample game, which runs a server:  *)
(* nothing before it depends on it or on the types it uses.                *)
(***************************************************************************)
EXTENDS SampleGame, FiniteSetTheorems, TLAPS

Actor == Thread \cup {Main}
Idle == {"idle", "exited"}
Accepting == {t \in Thread : at[t].do \in {"push", "accepted", "failed"}}

-----------------------------------------------------------------------------
(* The inductive invariant. *)

\* The types, but for the bound of accepts, which takes the whole invariant.
Types ==
    /\ isRunning \in BOOLEAN /\ stopped \in BOOLEAN /\ crashed \in BOOLEAN
    /\ clients \in Seq(Socket \cup {None})
    /\ listening \in BOOLEAN /\ late \in BOOLEAN
    /\ msgCallbacks \in [Type -> {"absent", "empty", "set"}]
    /\ accepts \in Nat
    /\ at \in [Actor -> Activity]
    /\ socket \in [Socket -> {"none", "unopened", "open", "closed"}]
    /\ read \in [Socket -> {"none", "first", "repeat"}]
    /\ wire \in [Socket -> {"nothing", "header", "whole"}]
    /\ left \in [Socket -> BOOLEAN]
    /\ starts \in 0..MaxStarts
    /\ disconnected \subseteq Socket

\* A thread in a handler has a socket, and a type while it has a message; an
\* idle one has nothing.  Only callbacks and the look up use the map.
Handlers ==
    /\ \A t \in Thread :
          /\ at[t].do \in Handler \cup Idle \cup Stopping
          /\ at[t].do \in Idle <=> at[t].sock = None
          /\ at[t].do \in Idle => at[t].vec = "no" /\ at[t].map = "no"
          /\ at[t].do \in {"payload", "lookup"} => at[t].type \in Type
          /\ at[t].map # "no" => at[t].do \in {"lookup", "accepted", "message"}
    /\ at[Main].do \notin Handler \cup Idle
    /\ at[Main].do = "joining" => stopped

\* A socket is unused, or read by one operation, or handled by one thread.
OneHandler ==
    /\ \A t, u \in Thread : at[t].sock \in Socket /\ at[t].sock = at[u].sock => t = u
    /\ \A t \in Thread :
          at[t].sock \in Socket =>
              /\ read[at[t].sock] = "none"
              /\ socket[at[t].sock] # "none"
    /\ \A s \in Socket : socket[s] = "none" => read[s] = "none"
    /\ \A s \in disconnected : socket[s] # "none"

\* A client is listed from its push_back until it is cleared, once.
ListedOnce ==
    /\ \A i, j \in DOMAIN clients : clients[i] = clients[j] /\ clients[i] # None => i = j
    /\ \A s \in Socket : Listed(s) => socket[s] \in {"open", "closed"}
    /\ \A s \in Socket : read[s] # "none" /\ socket[s] # "unopened" => Listed(s)
    /\ \A t \in Thread :
          /\ at[t].do = "push" => socket[at[t].sock] = "open" /\ ~Listed(at[t].sock)
          /\ at[t].do = "failed" => socket[at[t].sock] = "unopened"
          /\ at[t].do \notin {"push", "failed"} \cup Idle /\ socket[at[t].sock] # "unopened"
                => Listed(at[t].sock)

\* After onDisconnect no callback of that client runs and nothing is read from it.
DisconnectIsFinal ==
    \A s \in disconnected :
        /\ read[s] = "none"
        /\ \A t \in Thread : at[t].sock = s => at[t].do = "null"

\* The accepts come from startServer, one for each call that could listen, and
\* a callback that calls stopServer takes one away.
OneAccept ==
    /\ accepts + Cardinality(Accepting) <= starts
    /\ ~stopped => /\ listening => isRunning
                   /\ accepts + Cardinality(Accepting) <= IF listening THEN 1 ELSE 0
    /\ ~Stops /\ listening => accepts + Cardinality(Accepting) = 1

\* Nothing happens to a server before it is started.
NotStarted ==
    starts = 0 =>
        /\ ~isRunning /\ ~stopped /\ accepts = 0
        /\ at[Main].do \in {"app", "gone"}
        /\ \A t \in Thread : at[t].do = "idle"
        /\ \A s \in Socket : read[s] = "none"
        /\ \A type \in Type : msgCallbacks[type] # "empty"

\* What excuses a race on the map of listeners.
Cause ==
    \/ late
    \/ \E type \in Type : msgCallbacks[type] = "empty"
    \/ \E t \in Thread : at[t].do = "lookup" /\ msgCallbacks[at[t].type] = "absent"

\* Without it, the map is written before the start, by the program alone.
MapUse ==
    /\ ~late => \A u \in Thread : at[u].map # "no" => at[u].do = "lookup"
    /\ ~late /\ at[Main].map # "no" => starts = 0 /\ at[Main].map = "writing"
    /\ ~Cause => \A t \in Thread : at[t].map \in {"no", "reading"}

Inv ==
    /\ Types /\ Handlers /\ OneHandler /\ ListedOnce /\ DisconnectIsFinal
    /\ OneAccept /\ NotStarted /\ MapUse
-----------------------------------------------------------------------------
(* How a step moves the threads. *)

\* What u does, for whom and about which message, does not change.
Same(u) == at'[u].do = at[u].do /\ at'[u].sock = at[u].sock /\ at'[u].type = at[u].type

\* Nor whether it is using the vector or the map, nor that it is in a race.
Keeps(u) ==
    /\ Same(u)
    /\ at'[u].vec = "no" <=> at[u].vec = "no"
    /\ at'[u].map = at[u].map

LEMMA ActivityUpdate ==
    ASSUME NEW a \in Activity, NEW v \in {"no", "reading", "raced"},
           NEW m \in {"no", "reading", "writing", "raced"}, NEW type \in Type \cup {NoType},
           NEW first \in BOOLEAN
    PROVE  /\ [a EXCEPT !.vec = v] \in Activity
           /\ [a EXCEPT !.map = m] \in Activity
           /\ [a EXCEPT !.type = type] \in Activity
           /\ [a EXCEPT !.first = first, !.type = type] \in Activity
<1> DEFINE dos == Handler \cup Stopping \cup {"idle", "exited", "app", "gone"}
           socks == Socket \cup {None}
           types == Type \cup {NoType}
           vecs == {"no", "reading", "raced"}
           maps == {"no", "reading", "writing", "raced"}
<1>1. Activity = [do : dos, sock : socks, type : types, first : BOOLEAN, vec : vecs, map : maps]
  BY DEF Activity
<1>2. v \in vecs /\ m \in maps /\ type \in types
  OBVIOUS
<1> HIDE DEF dos, socks, types, vecs, maps
<1>3. [a EXCEPT !.vec = v] \in Activity
  BY <1>1, <1>2
<1>4. [a EXCEPT !.map = m] \in Activity
  BY <1>1, <1>2
<1>5. [a EXCEPT !.type = type] \in Activity
  BY <1>1, <1>2
<1>6. [a EXCEPT !.first = first, !.type = type] \in Activity
  BY <1>1, <1>2
<1>. QED
  BY <1>3, <1>4, <1>5, <1>6

LEMMA ContinueStep ==
    ASSUME Types, NEW t \in Actor, NEW a \in Activity, Continue(t, a)
    PROVE  /\ at' \in [Actor -> Activity] /\ at'[t] = a
           /\ \A u \in Actor \ {t} : Keeps(u) /\ at'[u] = at[u]
BY DEF Types, Continue, Keeps, Same

LEMMA WriteStep ==
    ASSUME Types, NEW t \in Actor, NEW a \in Activity, NEW spared, Write(t, a, spared)
    PROVE  /\ at' \in [Actor -> Activity] /\ at'[t] = a
           /\ \A u \in Actor \ {t} : Keeps(u)
<1>1. \A u \in Actor : at[u] \in Activity
  BY DEF Types
<1>2. ASSUME NEW u \in Actor \ {t}
      PROVE  at'[u] \in Activity /\ Keeps(u)
  <2>1. \/ at'[u] = at[u]
        \/ at[u].vec # "no" /\ at'[u] = [at[u] EXCEPT !.vec = "raced"]
    BY DEF Write, Types
  <2>. QED
    BY <1>1, <2>1 DEF Activity, Keeps, Same
<1>3. at' = [u \in Actor |-> at'[u]] /\ at'[t] = a
  BY DEF Write, Types
<1>. QED
  BY <1>2, <1>3

LEMMA AccessStep ==
    ASSUME Types, NEW t \in Actor, NEW a \in Activity, NEW how \in {"reading", "writing"},
           Access(t, a, how)
    PROVE  /\ at' \in [Actor -> Activity]
           /\ at'[t].do = a.do /\ at'[t].sock = a.sock /\ at'[t].type = a.type
           /\ at'[t].vec = a.vec
           /\ at'[t].map = IF \E v \in Actor \ {t} : Clash(v, how) THEN "raced" ELSE how
           /\ \A u \in Actor \ {t} :
                 /\ Same(u) /\ at'[u].vec = at[u].vec
                 /\ at'[u].map = IF Clash(u, how) THEN "raced" ELSE at[u].map
<1>1. \A u \in Actor : at[u] \in Activity
  BY DEF Types
<1>2. ASSUME NEW u \in Actor \ {t}
      PROVE  /\ at'[u] \in Activity /\ Same(u) /\ at'[u].vec = at[u].vec
             /\ at'[u].map = IF Clash(u, how) THEN "raced" ELSE at[u].map
  <2>1. at'[u] = [at[u] EXCEPT !.map = IF Clash(u, how) THEN "raced" ELSE @]
    BY DEF Access, Types
  <2>. QED
    BY <1>1, <2>1 DEF Activity, Same
<1>3. at'[t] = [a EXCEPT !.map = IF \E v \in Actor \ {t} : Clash(v, how)
                                THEN "raced" ELSE how]
  BY DEF Access, Types
<1>4. /\ at'[t].do = a.do /\ at'[t].sock = a.sock /\ at'[t].type = a.type
      /\ at'[t].vec = a.vec /\ at'[t] \in Activity
      /\ at'[t].map = IF \E v \in Actor \ {t} : Clash(v, how) THEN "raced" ELSE how
  BY <1>3 DEF Activity
<1>5. at' = [u \in Actor |-> at'[u]]
  BY DEF Access, Types
<1>. QED
  BY <1>2, <1>4, <1>5

LEMMA DoingType ==
    ASSUME NEW do \in Handler \cup Stopping \cup {"idle", "exited", "app", "gone"},
           NEW s \in Socket \cup {None}
    PROVE  Doing(do, s) \in Activity
BY DEF Doing, Activity
-----------------------------------------------------------------------------
(* The types, and where each action takes its thread. *)

\* Thread t goes on to one of dos, for socket s, and lets go of the map.
Moves(t, dos, s) ==
    /\ at' \in [Actor -> Activity]
    /\ at'[t].do \in dos /\ at'[t].sock = s /\ at'[t].map = "no"
    /\ at'[t].do \in Idle => at'[t].vec = "no"
    /\ \A u \in Actor \ {t} : Keeps(u)

LEMMA DoingMoves ==
    ASSUME Types, NEW t \in Actor, NEW do \in Handler \cup Idle, NEW s \in Socket \cup {None},
           NEW spared, Continue(t, Doing(do, s)) \/ Write(t, Doing(do, s), spared)
    PROVE  Moves(t, {do}, s)
<1>1. Doing(do, s) \in Activity
  BY DoingType DEF Idle
<1>2. at' \in [Actor -> Activity] /\ at'[t] = Doing(do, s)
      /\ \A u \in Actor \ {t} : Keeps(u)
  BY <1>1, ContinueStep, WriteStep
<1>. QED
  BY <1>2 DEF Moves, Doing

LEMMA acceptTypes ==
    ASSUME Types, NEW t \in Thread, NEW s \in Socket, acceptCompletes(t, s)
    PROVE  Types' /\ Moves(t, {"push", "failed"}, s)
<1>1. Moves(t, {"push"}, s) \/ Moves(t, {"failed"}, s)
  BY DoingMoves DEF acceptCompletes, Actor, Handler, Idle
<1>2. Moves(t, {"push", "failed"}, s)
  BY <1>1 DEF Moves
<1>. QED
  BY <1>2 DEF Moves, Types, acceptCompletes, context, history

LEMMA pushTypes ==
    ASSUME Types, Handlers, NEW t \in Thread, onNewConnection(t)
    PROVE  Types' /\ Moves(t, {"accepted"}, at[t].sock)
<1>1. at[t].sock \in Socket \cup {None}
  BY DEF Types, Activity, Actor
<1>2. Moves(t, {"accepted"}, at[t].sock)
  BY <1>1, DoingMoves DEF onNewConnection, Actor, Handler
<1>3. clients' \in Seq(Socket \cup {None})
  BY <1>1 DEF Types, onNewConnection
<1>. QED
  BY <1>2, <1>3 DEF Moves, Types, onNewConnection, context, history, netVars

LEMMA idleTypes ==
    ASSUME Types, Handlers, NEW t \in Thread,
           continueAccept(t) \/ repeatRead(t) \/ clearClient(t)
    PROVE  Types' /\ Moves(t, {"idle"}, None)
<1>1. Moves(t, {"idle"}, None)
  BY DoingMoves DEF continueAccept, repeatRead, clearClient, Actor, Idle
<1>2. at[t].sock \in Socket /\ at[t].sock # None
  BY AsioConstants DEF Handlers, Idle, Types, Actor, Activity, continueAccept, repeatRead, clearClient
<1>3. CASE continueAccept(t)
  BY <1>1, <1>2, <1>3 DEF Moves, Types, continueAccept, context, history
<1>4. CASE repeatRead(t)
  BY <1>1, <1>2, <1>4 DEF Moves, Types, repeatRead, context, history
<1>5. CASE clearClient(t)
  <2>1. clients' \in Seq(Socket \cup {None})
    BY <1>5 DEF clearClient, Types
  <2>2. crashed' \in BOOLEAN
    BY <1>5 DEF clearClient, Survives
  <2>. QED
    BY <1>1, <2>1, <2>2, <1>5 DEF Moves, Types, clearClient, context, history, netVars
<1>. QED
  BY <1>3, <1>4, <1>5

\* What a failed read leads to.
LEMMA failTypes ==
    ASSUME Types, NEW t \in Thread, NEW s \in Socket, NEW first \in BOOLEAN,
           NEW ended \in BOOLEAN, Continue(t, AfterRead(s, first, ended))
    PROVE  Moves(t, {"find", "message"}, s)
<1> DEFINE a == AfterRead(s, first, ended)
<1>1. a \in Activity /\ a.do \in {"find", "message"} /\ a.sock = s /\ a.map = "no"
  <2>1. Doing("find", s) \in Activity /\ Doing("message", s) \in Activity
    BY DoingType DEF Handler
  <2>2. View \in {"no", "reading", "raced"}
    BY DEF View
  <2>. QED
    BY <2>1, <2>2, ActivityUpdate DEF AfterRead, Doing
<1>2. Continue(t, a)
  OBVIOUS
<1> HIDE DEF a
<1>3. at' \in [Actor -> Activity] /\ at'[t] = a /\ \A u \in Actor \ {t} : Keeps(u)
  BY <1>1, <1>2, ContinueStep DEF Actor
<1>. QED
  BY <1>1, <1>3 DEF Moves, Idle

LEMMA asyncReadTypes ==
    ASSUME Types, NEW t \in Thread, NEW s \in Socket, asyncRead(t, s)
    PROVE  /\ Types' /\ Moves(t, {"payload", "find", "message"}, s)
           /\ at'[t].do = "payload" => at'[t].type \in Type
<1>1. CASE \E type \in Type :
              Continue(t, [Doing("payload", s) EXCEPT !.first = (read[s] = "first"), !.type = type])
  <2>1. PICK type \in Type :
            Continue(t, [Doing("payload", s) EXCEPT !.first = (read[s] = "first"), !.type = type])
    BY <1>1
  <2>2. Doing("payload", s) \in Activity
    BY DoingType DEF Handler
  <2> DEFINE a == [Doing("payload", s) EXCEPT !.first = (read[s] = "first"), !.type = type]
  <2>3. a \in Activity /\ a.do = "payload" /\ a.sock = s /\ a.map = "no" /\ a.type = type
    BY <2>2, ActivityUpdate DEF Doing
  <2> HIDE DEF a
  <2>4. Continue(t, a)
    BY <2>1 DEF a
  <2>5. at' \in [Actor -> Activity] /\ at'[t] = a /\ \A u \in Actor \ {t} : Keeps(u)
    BY <2>3, <2>4, ContinueStep DEF Actor
  <2>6. Moves(t, {"payload", "find", "message"}, s) /\ at'[t].type \in Type
    BY <2>3, <2>5 DEF Moves, Idle
  <2>. QED
    BY <2>6 DEF Moves, Types, asyncRead, context, history
<1>2. CASE \E ended \in BOOLEAN : Continue(t, AfterRead(s, read[s] = "first", ended))
  <2>1. Moves(t, {"find", "message"}, s)
    BY <1>2, failTypes
  <2>. QED
    BY <2>1 DEF Moves, Types, asyncRead, context, history
<1>. QED
  BY <1>1, <1>2 DEF asyncRead

\* The message is looked up, or the read has failed.
LEMMA readPayloadTypes ==
    ASSUME Types, Handlers, NEW t \in Thread, readPayload(t)
    PROVE  /\ Types' /\ at[t].sock \in Socket
           /\ \/ Moves(t, {"find", "message"}, at[t].sock)
              \/ /\ at'[t].do = "lookup" /\ at'[t].sock = at[t].sock
                 /\ at'[t].type = at[t].type /\ at[t].type \in Type
                 /\ LET how == LookUp(at[t].type) IN
                       /\ at'[t].map = IF \E v \in Actor \ {t} : Clash(v, how) THEN "raced" ELSE how
                       /\ \A u \in Actor \ {t} :
                             /\ Same(u) /\ at'[u].vec = at[u].vec
                             /\ at'[u].map = IF Clash(u, how) THEN "raced" ELSE at[u].map
<1>1. at[t].sock \in Socket /\ at[t].type \in Type /\ at[t].first \in BOOLEAN /\ t \in Actor
  BY AsioConstants DEF Handlers, Idle, Types, Actor, Activity, readPayload
<1>2. CASE \E ended \in BOOLEAN : Continue(t, AfterRead(at[t].sock, at[t].first, ended))
  <2>1. Moves(t, {"find", "message"}, at[t].sock)
    BY <1>1, <1>2, failTypes
  <2>. QED
    BY <1>1, <2>1 DEF Moves, Types, readPayload, context, history
<1>3. CASE Access(t, [Doing("lookup", at[t].sock) EXCEPT !.type = at[t].type], LookUp(at[t].type))
  <2> DEFINE a == [Doing("lookup", at[t].sock) EXCEPT !.type = at[t].type]
             how == LookUp(at[t].type)
  <2>1. Doing("lookup", at[t].sock) \in Activity
    BY <1>1, DoingType DEF Handler
  <2>2. a \in Activity /\ a.do = "lookup" /\ a.sock = at[t].sock /\ a.type = at[t].type
    BY <1>1, <2>1, ActivityUpdate DEF Doing
  <2>3. how \in {"reading", "writing"}
    BY DEF LookUp
  <2>4. Access(t, a, how)
    BY <1>3
  <2> HIDE DEF a, how
  <2>5. /\ at' \in [Actor -> Activity]
        /\ at'[t].do = a.do /\ at'[t].sock = a.sock /\ at'[t].type = a.type
        /\ at'[t].map = IF \E v \in Actor \ {t} : Clash(v, how) THEN "raced" ELSE how
        /\ \A u \in Actor \ {t} :
              /\ Same(u) /\ at'[u].vec = at[u].vec
              /\ at'[u].map = IF Clash(u, how) THEN "raced" ELSE at[u].map
    BY <1>1, <2>2, <2>3, <2>4, AccessStep
  <2>6. Types'
    BY <1>1, <2>5 DEF Types, readPayload, context, history
  <2>. QED
    BY <1>1, <2>2, <2>5, <2>6 DEF how
<1>. QED
  BY <1>2, <1>3 DEF readPayload

LEMMA messageTypes ==
    ASSUME Types, Handlers, NEW t \in Thread, recievedMessage(t)
    PROVE  Types' /\ Moves(t, {"message"}, at[t].sock) /\ at[t].type \in Type
<1>1. at[t].sock \in Socket \cup {None} /\ at[t].type \in Type /\ t \in Actor
  BY DEF Types, Activity, Handlers, recievedMessage, Actor
<1> DEFINE type == IF msgCallbacks[at[t].type] = "set" THEN at[t].type ELSE NoType
           a == [Doing("message", at[t].sock) EXCEPT !.type = type]
<1>2. Doing("message", at[t].sock) \in Activity
  BY <1>1, DoingType DEF Handler
<1>3. a \in Activity /\ a.do = "message" /\ a.sock = at[t].sock /\ a.map = "no"
  BY <1>1, <1>2, ActivityUpdate DEF Doing
<1>4. Continue(t, a)
  BY DEF recievedMessage
<1> HIDE DEF a
<1>5. at' \in [Actor -> Activity] /\ at'[t] = a /\ \A u \in Actor \ {t} : Keeps(u)
  BY <1>1, <1>3, <1>4, ContinueStep
<1>6. Moves(t, {"message"}, at[t].sock)
  BY <1>3, <1>5 DEF Moves, Idle
<1>7. crashed' \in BOOLEAN
  BY DEF recievedMessage, Survives
<1>. QED
  BY <1>1, <1>6, <1>7 DEF Moves, Types, recievedMessage, history, netVars

LEMMA disconnectTypes ==
    ASSUME Types, Handlers, NEW t \in Thread, handleDisconnection(t)
    PROVE  /\ Types' /\ at[t].sock \in Socket
           /\ \/ /\ Moves(t, {"null"}, at[t].sock) /\ Listed(at[t].sock)
                 /\ disconnected' = disconnected \cup {at[t].sock}
                 /\ socket' = [socket EXCEPT ![at[t].sock] = "closed"]
              \/ /\ Moves(t, {"idle"}, None)
                 /\ UNCHANGED <<socket, disconnected>>
<1>1. at[t].sock \in Socket /\ t \in Actor
  BY AsioConstants DEF Handlers, Idle, Types, Actor, Activity, handleDisconnection
<1>2. crashed' \in BOOLEAN
  BY DEF handleDisconnection, Survives
<1> DEFINE a == [Doing("null", at[t].sock) EXCEPT !.vec = at[t].vec]
<1>3. CASE Continue(t, a) /\ Listed(at[t].sock)
           /\ disconnected' = disconnected \cup {at[t].sock}
           /\ socket' = [socket EXCEPT ![at[t].sock] = "closed"]
  <2>1. Doing("null", at[t].sock) \in Activity /\ at[t].vec \in {"no", "reading", "raced"}
    BY <1>1, DoingType DEF Handler, Types, Activity
  <2>2. a \in Activity /\ a.do = "null" /\ a.sock = at[t].sock /\ a.map = "no"
    BY <2>1, ActivityUpdate DEF Doing
  <2>3. Continue(t, a)
    BY <1>3
  <2> HIDE DEF a
  <2>4. at' \in [Actor -> Activity] /\ at'[t] = a /\ \A u \in Actor \ {t} : Keeps(u)
    BY <1>1, <2>2, <2>3, ContinueStep
  <2>5. Moves(t, {"null"}, at[t].sock)
    BY <2>2, <2>4 DEF Moves, Idle
  <2>. QED
    BY <1>1, <1>2, <1>3, <2>5 DEF Moves, Types, handleDisconnection, context
<1>4. CASE Continue(t, Doing("idle", None)) /\ UNCHANGED <<socket, disconnected>>
  <2>1. Moves(t, {"idle"}, None)
    BY <1>1, <1>4, DoingMoves DEF Idle
  <2>. QED
    BY <1>1, <1>2, <1>4, <2>1 DEF Moves, Types, handleDisconnection, context
<1>. QED
  BY <1>3, <1>4 DEF handleDisconnection

\* A loop over the clients leaves everybody with what he did.
LEMMA sendTypes ==
    ASSUME Types, NEW u \in Actor, sendBegins(u) \/ sendEnds(u)
    PROVE  /\ Types' /\ \A v \in Actor : Same(v) /\ at'[v].map = at[v].map
           /\ \A v \in Actor : at'[v].vec # "no" => at[v].vec # "no" \/ v = u
<1> DEFINE vec == IF sendBegins(u) THEN View ELSE "no"
           a == [at[u] EXCEPT !.vec = vec]
<1>1. vec \in {"no", "reading", "raced"} /\ at[u] \in Activity
  BY DEF View, Types
<1>2. Continue(u, a)
  BY DEF sendBegins, sendEnds
<1> HIDE DEF vec
<1>3. /\ a \in Activity /\ a.do = at[u].do /\ a.sock = at[u].sock /\ a.type = at[u].type
      /\ a.map = at[u].map
  BY <1>1 DEF Activity
<1> HIDE DEF a
<1>4. at' \in [Actor -> Activity] /\ at'[u] = a /\ \A v \in Actor \ {u} : Keeps(v) /\ at'[v] = at[v]
  BY <1>2, <1>3, ContinueStep
<1>5. crashed' \in BOOLEAN
  BY DEF sendBegins, sendEnds, Survives, Types
<1>6. Types'
  BY <1>4, <1>5 DEF Types, sendBegins, sendEnds, context, history, netVars
<1>. QED
  BY <1>3, <1>4, <1>6 DEF Same, Keeps

\* A listener is added by someone who goes on with what he did.
LEMMA listenBeginsTypes ==
    ASSUME Types, NEW u \in Actor, listenBegins(u)
    PROVE  /\ Types'
           /\ at'[u].map = IF \E v \in Actor \ {u} : Clash(v, "writing") THEN "raced" ELSE "writing"
           /\ \A v \in Actor : Same(v) /\ at'[v].vec = at[v].vec
           /\ \A v \in Actor \ {u} :
                 at'[v].map = IF Clash(v, "writing") THEN "raced" ELSE at[v].map
<1>1. at[u] \in Activity /\ Access(u, at[u], "writing")
  BY DEF Types, listenBegins
<1>2. /\ at' \in [Actor -> Activity]
      /\ at'[u].do = at[u].do /\ at'[u].sock = at[u].sock /\ at'[u].type = at[u].type
      /\ at'[u].vec = at[u].vec
      /\ at'[u].map = IF \E v \in Actor \ {u} : Clash(v, "writing") THEN "raced" ELSE "writing"
      /\ \A v \in Actor \ {u} :
            /\ Same(v) /\ at'[v].vec = at[v].vec
            /\ at'[v].map = IF Clash(v, "writing") THEN "raced" ELSE at[v].map
  BY <1>1, AccessStep
<1>3. Types'
  BY <1>2 DEF Types, listenBegins, context, netVars
<1>. QED
  BY <1>2, <1>3 DEF Same

LEMMA listenEndsTypes ==
    ASSUME Types, NEW u \in Actor, NEW type \in Type, listenEnds(u, type)
    PROVE  /\ Types' /\ at'[u].map = "no" /\ at'[u].vec = at[u].vec
           /\ \A v \in Actor : Same(v)
           /\ \A v \in Actor \ {u} : Keeps(v)
<1> DEFINE a == [at[u] EXCEPT !.map = "no"]
<1>1. at[u] \in Activity
  BY DEF Types
<1>2. /\ a \in Activity /\ a.do = at[u].do /\ a.sock = at[u].sock /\ a.type = at[u].type
      /\ a.map = "no" /\ a.vec = at[u].vec
  BY <1>1 DEF Activity
<1>3. Continue(u, a)
  BY DEF listenEnds
<1> HIDE DEF a
<1>4. at' \in [Actor -> Activity] /\ at'[u] = a /\ \A v \in Actor \ {u} : Keeps(v)
  BY <1>2, <1>3, ContinueStep
<1>5. crashed' \in BOOLEAN
  BY DEF listenEnds, Survives
<1>6. Types'
  BY <1>4, <1>5 DEF Types, listenEnds, history, netVars
<1>. QED
  BY <1>2, <1>4, <1>6 DEF Same, Keeps

\* Whoever calls stopServer keeps its socket and what it holds of the map; the
\* others go on.
LEMMA stopTypes ==
    ASSUME Types, NEW u \in Actor, stopBegins(u) \/ stopCloses(u) \/ stopContext(u)
    PROVE  /\ Types' /\ \A v \in Actor \ {u} : Keeps(v)
           /\ at'[u].sock = at[u].sock /\ at'[u].type = at[u].type /\ at'[u].map = at[u].map
           /\ at'[u].do \in Stopping
           /\ \/ at[u].do \in Stopping
              \/ at[u].map = "no" /\ at[u].do \in IF u = Main THEN {"app"} ELSE {"accepted", "message"}
           /\ at'[u].do = "joining" => stopped'
<1>1. at[u] \in Activity /\ View \in {"no", "reading", "raced"}
  BY DEF Types, View
<1>2. ASSUME NEW do \in Stopping, NEW vec \in {"no", "reading", "raced"},
             Continue(u, [at[u] EXCEPT !.do = do, !.vec = vec]),
             do = "joining" => stopped', socket' \in [Socket -> {"none", "unopened", "open", "closed"}],
             crashed' \in BOOLEAN, stopped' \in BOOLEAN,
             UNCHANGED <<isRunning, clients, listening, msgCallbacks, accepts, read, wire, left, history>>
      PROVE  /\ Types' /\ \A v \in Actor \ {u} : Keeps(v)
             /\ at'[u].sock = at[u].sock /\ at'[u].type = at[u].type /\ at'[u].map = at[u].map
             /\ at'[u].do \in Stopping /\ (at'[u].do = "joining" => stopped')
  <2> DEFINE a == [at[u] EXCEPT !.do = do, !.vec = vec]
  <2>1. /\ a \in Activity /\ a.do = do /\ a.sock = at[u].sock /\ a.type = at[u].type
        /\ a.map = at[u].map
    BY <1>1 DEF Activity, Stopping
  <2>2. Continue(u, a)
    BY <1>2
  <2> HIDE DEF a
  <2>3. at' \in [Actor -> Activity] /\ at'[u] = a /\ \A v \in Actor \ {u} : Keeps(v)
    BY <2>1, <2>2, ContinueStep
  <2>. QED
    BY <1>2, <2>1, <2>3 DEF Types, history
<1>3. CASE stopBegins(u)
  <2>1. /\ Continue(u, [at[u] EXCEPT !.do = "closing", !.vec = View])
        /\ UNCHANGED <<isRunning, clients, listening, msgCallbacks, accepts, read, wire, left, history>>
        /\ UNCHANGED <<socket, crashed, stopped>>
    BY <1>3, Zenon DEF stopBegins, context, netVars
  <2>2. /\ at[u].map = "no" /\ at[u].do \in IF u = Main THEN {"app"} ELSE {"accepted", "message"}
    BY <1>3 DEF stopBegins, InApp
  <2>. QED
    BY <1>1, <1>2, <2>1, <2>2 DEF Types, Stopping
<1>4. CASE stopCloses(u)
  <2>1. /\ Continue(u, [at[u] EXCEPT !.do = "stopping", !.vec = "no"])
        /\ UNCHANGED <<isRunning, clients, listening, msgCallbacks, accepts, read, wire, left, history>>
        /\ UNCHANGED stopped /\ at[u].do \in Stopping
    BY <1>4, Zenon DEF stopCloses, context, Stopping
  <2>2. crashed' \in BOOLEAN /\ socket' \in [Socket -> {"none", "unopened", "open", "closed"}]
    BY <1>4 DEF stopCloses, Survives, Types
  <2>. QED
    BY <1>1, <1>2, <2>1, <2>2 DEF Types, Stopping
<1>5. CASE stopContext(u)
  <2>1. /\ Continue(u, [at[u] EXCEPT !.do = "joining"])
        /\ UNCHANGED <<isRunning, clients, listening, msgCallbacks, accepts, read, wire, left, history>>
        /\ UNCHANGED <<socket, crashed>> /\ stopped' = TRUE /\ at[u].do \in Stopping
    BY <1>5, Zenon DEF stopContext, netVars, Stopping
  <2>2. [at[u] EXCEPT !.do = "joining"] = [at[u] EXCEPT !.do = "joining", !.vec = at[u].vec]
        /\ at[u].vec \in {"no", "reading", "raced"}
    BY <1>1 DEF Activity
  <2>3. Continue(u, [at[u] EXCEPT !.do = "joining", !.vec = at[u].vec])
    BY <2>1, <2>2
  <2>. QED
    BY <1>1, <1>2, <2>1, <2>2, <2>3 DEF Types, Stopping
<1>. QED
  BY <1>3, <1>4, <1>5

\* The program has stopped the server or lets it go; the threads go on.
LEMMA endTypes ==
    ASSUME Types, stopJoins \/ destroyed
    PROVE  /\ Types' /\ \A t \in Thread : Keeps(t)
           /\ at'[Main].map = "no" /\ at'[Main].do \in {"app", "gone"}
<1> DEFINE do == IF stopJoins THEN "app" ELSE "gone"
           a == Doing(do, None)
<1>1. a \in Activity /\ a.map = "no" /\ a.do \in {"app", "gone"}
  <2>1. do \in {"app", "gone"} /\ None \in Socket \cup {None}
    OBVIOUS
  <2> HIDE DEF do
  <2>. QED
    BY <2>1, DoingType DEF Doing
<1>2. Continue(Main, a)
  BY DEF stopJoins, destroyed
<1> HIDE DEF a, do
<1>3. /\ at' \in [Actor -> Activity] /\ at'[Main] = a
      /\ \A v \in Actor \ {Main} : Keeps(v)
  BY <1>1, <1>2, ContinueStep DEF Actor
<1>4. crashed' \in BOOLEAN /\ isRunning' \in BOOLEAN
  BY DEF Types, stopJoins, destroyed
<1>5. Types'
  BY <1>3, <1>4 DEF Types, stopJoins, destroyed, context, history, netVars
<1>. QED
  BY <1>1, <1>3, <1>5, AsioConstants DEF Actor

LEMMA runReturnsTypes ==
    ASSUME Types, NEW t \in Thread, runReturns(t)
    PROVE  Types' /\ Moves(t, {"exited"}, None)
<1>1. Moves(t, {"exited"}, None)
  BY DoingMoves DEF runReturns, Actor, Idle
<1>. QED
  BY <1>1 DEF Moves, Types, runReturns, context, history, netVars

\* The other ends, the start of the server and an exception move no thread.
LEMMA quietTypes ==
    ASSUME Types,
           \/ \E s \in Socket : remoteSends(s) \/ remoteLeaves(s)
           \/ \E t \in Thread : callbackThrows(t)
           \/ startServer
    PROVE  Types' /\ UNCHANGED at
<1>1. ASSUME NEW s \in Socket, remoteSends(s) \/ remoteLeaves(s) PROVE Types' /\ UNCHANGED at
  <2>1. CASE remoteSends(s)
    <3>1. wire' \in [Socket -> {"nothing", "header", "whole"}]
      <4>1. PICK w \in {<<"nothing", "header">>, <<"header", "whole">>} :
                wire' = [wire EXCEPT ![s] = w[2]]
        BY <2>1 DEF remoteSends
      <4>2. w[2] \in {"header", "whole"}
        OBVIOUS
      <4>. QED
        BY <4>1, <4>2 DEF Types
    <3>. QED
      BY <2>1, <3>1 DEF Types, remoteSends, context, history
  <2>2. CASE remoteLeaves(s)
    BY <2>2 DEF Types, remoteLeaves, context, history
  <2>. QED
    BY <1>1, <2>1, <2>2
<1>2. ASSUME NEW t \in Thread, callbackThrows(t) PROVE Types' /\ UNCHANGED at
  BY <1>2 DEF Types, callbackThrows, context, history, netVars
<1>3. CASE startServer
  <2>1. starts' \in 0..MaxStarts
    BY <1>3, AsioConstants DEF Types, startServer
  <2>2. isRunning' \in BOOLEAN /\ listening' \in BOOLEAN
    BY <1>3, Zenon DEF Types, startServer
  <2>3. accepts' = accepts \/ accepts' = accepts + 1
    BY <1>3, Zenon DEF startServer
  <2>4. accepts' \in Nat
    BY <2>3 DEF Types
  <2>. QED
    BY <1>3, <2>1, <2>2, <2>4 DEF Types, startServer, netVars
<1>. QED
  BY <1>1, <1>2, <1>3
-----------------------------------------------------------------------------
(* The actions that leave the handlers and what they read alone. *)

\* A thread does what it did, or its callback is in stopServer.
Alike(t) ==
    /\ at'[t].sock = at[t].sock /\ at'[t].type = at[t].type
    /\ \/ at'[t].do = at[t].do
       \/ at[t].do \in {"accepted", "message"} \cup Stopping /\ at'[t].do \in Stopping

Undisturbed ==
    /\ \A t \in Thread : Alike(t)
    /\ UNCHANGED <<clients, read, disconnected>>
    /\ \A s \in Socket : socket'[s] = socket[s] \/ (Listed(s) /\ socket'[s] = "closed")

Beside ==
    \/ \E s \in Socket : remoteSends(s) \/ remoteLeaves(s)
    \/ \E t \in Thread : callbackThrows(t)
    \/ \E u \in Actor : sendBegins(u) \/ sendEnds(u)
    \/ \E u \in Actor : listenBegins(u) \/ \E type \in Type : listenEnds(u, type)
    \/ \E u \in Actor : stopBegins(u) \/ stopCloses(u) \/ stopContext(u)
    \/ startServer \/ stopJoins \/ destroyed

LEMMA BesideUndisturbed ==
    ASSUME Types, Beside PROVE Types' /\ Undisturbed
<1>0. \A t \in Thread : Same(t) => Alike(t)
  BY DEF Same, Alike
<1>1. ASSUME NEW s \in Socket, remoteSends(s) \/ remoteLeaves(s) PROVE Types' /\ Undisturbed
  BY <1>0, <1>1, quietTypes DEF Undisturbed, Same, remoteSends, remoteLeaves, history
<1>2. ASSUME NEW t \in Thread, callbackThrows(t) PROVE Types' /\ Undisturbed
  BY <1>0, <1>2, quietTypes DEF Undisturbed, Same, callbackThrows, history, netVars
<1>3. ASSUME NEW u \in Actor, sendBegins(u) \/ sendEnds(u) PROVE Types' /\ Undisturbed
  BY <1>0, <1>3, sendTypes DEF Undisturbed, Actor, sendBegins, sendEnds, history, netVars
<1>4. ASSUME NEW u \in Actor, listenBegins(u) PROVE Types' /\ Undisturbed
  BY <1>0, <1>4, listenBeginsTypes DEF Undisturbed, Actor, listenBegins, netVars
<1>5. ASSUME NEW u \in Actor, NEW type \in Type, listenEnds(u, type) PROVE Types' /\ Undisturbed
  BY <1>0, <1>5, listenEndsTypes DEF Undisturbed, Actor, listenEnds, netVars, history
<1>6. CASE startServer
  BY <1>0, <1>6, quietTypes DEF Undisturbed, Same, startServer, netVars
<1>7. ASSUME NEW u \in Actor, stopBegins(u) \/ stopCloses(u) \/ stopContext(u)
      PROVE  Types' /\ Undisturbed
  <2>1. Types' /\ \A v \in Actor \ {u} : Same(v)
    BY <1>7, stopTypes DEF Keeps
  <2>2. u \in Thread => Alike(u)
    BY <1>7, stopTypes, AsioConstants DEF Alike
  <2>3. \A t \in Thread : Alike(t)
    BY <1>0, <2>1, <2>2 DEF Actor
  <2>4. CASE stopCloses(u)
    BY <2>1, <2>3, <2>4 DEF Undisturbed, stopCloses, history
  <2>5. CASE stopBegins(u) \/ stopContext(u)
    BY <2>1, <2>3, <2>5 DEF Undisturbed, stopBegins, stopContext, history, netVars
  <2>. QED
    BY <1>7, <2>4, <2>5
<1>8. CASE stopJoins \/ destroyed
  BY <1>0, <1>8, endTypes DEF Keeps, Undisturbed, stopJoins, destroyed, history, netVars
<1>. QED
  BY <1>1, <1>2, <1>3, <1>4, <1>5, <1>6, <1>7, <1>8 DEF Beside

\* Next, with what is done beside the handlers apart.
LEMMA NextCases ==
    ASSUME [Next]_vars
    PROVE  \/ Beside
           \/ \E t \in Thread, s \in Socket : acceptCompletes(t, s) \/ asyncRead(t, s)
           \/ \E t \in Thread :
                 \/ onNewConnection(t) \/ continueAccept(t)
                 \/ readPayload(t) \/ recievedMessage(t) \/ repeatRead(t)
                 \/ handleDisconnection(t) \/ clearClient(t) \/ runReturns(t)
           \/ UNCHANGED vars
BY DEF Next, Beside, Actor

LEMMA NextTypes == ASSUME Types, Handlers, [Next]_vars PROVE Types'
<1>1. CASE Beside
  BY <1>1, BesideUndisturbed
<1>2. ASSUME NEW t \in Thread, NEW s \in Socket, acceptCompletes(t, s) \/ asyncRead(t, s)
      PROVE  Types'
  BY <1>2, acceptTypes, asyncReadTypes
<1>3. ASSUME NEW t \in Thread,
             \/ onNewConnection(t) \/ continueAccept(t)
             \/ readPayload(t) \/ recievedMessage(t) \/ repeatRead(t)
             \/ handleDisconnection(t) \/ clearClient(t) \/ runReturns(t)
      PROVE  Types'
  BY <1>3, pushTypes, idleTypes, readPayloadTypes, messageTypes, disconnectTypes, runReturnsTypes
<1>4. CASE UNCHANGED vars
  BY <1>4 DEF Types, vars, context, netVars, history
<1>. QED
  BY <1>1, <1>2, <1>3, <1>4, NextCases
-----------------------------------------------------------------------------
(* The handlers. *)

\* What Handlers says of one thread, and of the program.
ThreadOK(t) ==
    /\ at[t].do \in Handler \cup Idle \cup Stopping
    /\ at[t].do \in Idle <=> at[t].sock = None
    /\ at[t].do \in Idle => at[t].vec = "no" /\ at[t].map = "no"
    /\ at[t].do \in {"payload", "lookup"} => at[t].type \in Type
    /\ at[t].map # "no" => at[t].do \in {"lookup", "accepted", "message"}

ProgramOK ==
    /\ at[Main].do \notin Handler \cup Idle
    /\ at[Main].do = "joining" => stopped

LEMMA HandlersStep == ASSUME Types, Handlers, [Next]_vars PROVE Handlers'
<1> USE AsioConstants
<1>1. \A u \in Thread : ThreadOK(u)
  BY DEF Handlers, ThreadOK
<1>2. \A u \in Thread : Keeps(u) => ThreadOK(u)'
  BY <1>1 DEF Keeps, Same, ThreadOK
<1>3. Keeps(Main) /\ (stopped => stopped') => ProgramOK'
  BY DEF Handlers, ProgramOK, Keeps, Same
<1>4. SUFFICES (\A u \in Thread : ThreadOK(u)') /\ ProgramOK'
  BY DEF Handlers, ThreadOK, ProgramOK
<1>5. ASSUME NEW t \in Thread, NEW dos \in SUBSET (Handler \cup Idle), NEW s \in Socket \cup {None},
             Moves(t, dos, s), stopped => stopped',
             at'[t].do \in {"payload", "lookup"} => at'[t].type \in Type,
             at'[t].do \in Idle <=> s = None
      PROVE  (\A u \in Thread : ThreadOK(u)') /\ ProgramOK'
  <2>1. ThreadOK(t)'
    BY <1>5 DEF Moves, ThreadOK
  <2>. QED
    BY <2>1, <1>2, <1>3, <1>5 DEF Moves, Actor
<1>6. ASSUME NEW t \in Thread, NEW s \in Socket, acceptCompletes(t, s) \/ asyncRead(t, s)
      PROVE  (\A u \in Thread : ThreadOK(u)') /\ ProgramOK'
  <2>1. Moves(t, {"payload", "find", "message", "push", "failed"}, s)
        /\ (at'[t].do = "payload" => at'[t].type \in Type)
    BY <1>6, acceptTypes, asyncReadTypes DEF Moves
  <2>2. UNCHANGED stopped
    BY <1>6 DEF acceptCompletes, asyncRead, context
  <2>3. at'[t].do \in {"payload", "find", "message", "push", "failed"}
    BY <2>1 DEF Moves
  <2>. QED
    BY <1>5, <2>1, <2>2, <2>3 DEF Handler, Idle
<1>7. ASSUME NEW t \in Thread,
             continueAccept(t) \/ repeatRead(t) \/ clearClient(t) \/ runReturns(t)
      PROVE  (\A u \in Thread : ThreadOK(u)') /\ ProgramOK'
  <2>1. Moves(t, Idle, None)
    BY <1>7, idleTypes, runReturnsTypes DEF Moves, Idle
  <2>2. UNCHANGED stopped
    BY <1>7 DEF continueAccept, repeatRead, clearClient, runReturns, context
  <2>. QED
    BY <1>5, <2>1, <2>2 DEF Moves, Idle
<1>8. ASSUME NEW t \in Thread, onNewConnection(t) \/ recievedMessage(t)
      PROVE  (\A u \in Thread : ThreadOK(u)') /\ ProgramOK'
  <2>1. Moves(t, {"accepted", "message"}, at[t].sock)
    BY <1>8, pushTypes, messageTypes DEF Moves
  <2>2. UNCHANGED stopped
    BY <1>8 DEF onNewConnection, recievedMessage, context
  <2>3. at[t].sock \in Socket
    BY <1>8 DEF Types, Actor, Activity, Handlers, Idle, onNewConnection, recievedMessage
  <2>. QED
    BY <1>5, <2>1, <2>2, <2>3 DEF Moves, Handler, Idle
<1>9. ASSUME NEW t \in Thread, readPayload(t)
      PROVE  (\A u \in Thread : ThreadOK(u)') /\ ProgramOK'
  <2>1. UNCHANGED stopped /\ at[t].sock \in Socket
    BY <1>9, readPayloadTypes DEF readPayload, context
  <2>2. CASE Moves(t, {"find", "message"}, at[t].sock)
    BY <1>5, <2>1, <2>2 DEF Moves, Handler, Idle
  <2>3. CASE ~Moves(t, {"find", "message"}, at[t].sock)
    <3>1. /\ at'[t].do = "lookup" /\ at'[t].sock = at[t].sock /\ at'[t].type \in Type
          /\ \A u \in Actor \ {t} : Same(u) /\ at'[u].vec = at[u].vec
          /\ \A u \in Actor \ {t} : at'[u].map = at[u].map \/ at[u].map # "no"
      BY <1>9, <2>3, readPayloadTypes DEF Clash
    <3>2. ThreadOK(t)'
      BY <2>1, <3>1 DEF ThreadOK, Handler, Idle
    <3>3. \A u \in Thread \ {t} : ThreadOK(u)'
      BY <1>1, <3>1 DEF ThreadOK, Same, Actor
    <3>4. ProgramOK'
      BY <2>1, <3>1 DEF ProgramOK, Handlers, Same, Actor
    <3>. QED
      BY <3>2, <3>3, <3>4
  <2>. QED
    BY <2>2, <2>3
<1>10. ASSUME NEW t \in Thread, handleDisconnection(t)
       PROVE  (\A u \in Thread : ThreadOK(u)') /\ ProgramOK'
  <2>1. UNCHANGED stopped /\ at[t].sock \in Socket
    BY <1>10, disconnectTypes DEF handleDisconnection, context
  <2>2. Moves(t, {"null"}, at[t].sock) \/ Moves(t, {"idle"}, None)
    BY <1>10, disconnectTypes
  <2>. QED
    BY <1>5, <2>1, <2>2 DEF Moves, Handler, Idle
<1>11. ASSUME NEW u \in Actor, sendBegins(u) \/ sendEnds(u)
       PROVE  (\A v \in Thread : ThreadOK(v)') /\ ProgramOK'
  <2>1. UNCHANGED stopped /\ at[u].do \in {"app", "accepted", "message"}
    BY <1>11 DEF sendBegins, sendEnds, context, InApp
  <2>2. /\ \A v \in Actor : Same(v) /\ at'[v].map = at[v].map
        /\ \A v \in Actor : at'[v].vec # "no" => at[v].vec # "no" \/ v = u
    BY <1>11, sendTypes
  <2>3. \A v \in Thread : ThreadOK(v)'
    BY <1>1, <2>1, <2>2 DEF ThreadOK, Same, Actor, Idle
  <2>4. ProgramOK'
    BY <2>1, <2>2 DEF ProgramOK, Handlers, Same, Actor
  <2>. QED
    BY <2>3, <2>4
<1>12. ASSUME NEW u \in Actor, listenBegins(u)
       PROVE  (\A v \in Thread : ThreadOK(v)') /\ ProgramOK'
  <2>1. UNCHANGED stopped /\ (u \in Thread => at[u].do \in {"accepted", "message"})
    BY <1>12 DEF listenBegins, context, InApp
  <2>2. /\ \A v \in Actor : Same(v) /\ at'[v].vec = at[v].vec
        /\ \A v \in Actor \ {u} : at'[v].map = at[v].map \/ at[v].map # "no"
    BY <1>12, listenBeginsTypes DEF Clash
  <2>3. \A v \in Thread : ThreadOK(v)'
    BY <1>1, <2>1, <2>2 DEF ThreadOK, Same, Actor, Idle
  <2>4. ProgramOK'
    BY <2>1, <2>2 DEF ProgramOK, Handlers, Same, Actor
  <2>. QED
    BY <2>3, <2>4
<1>13. ASSUME NEW u \in Actor, NEW type \in Type, listenEnds(u, type)
       PROVE  (\A v \in Thread : ThreadOK(v)') /\ ProgramOK'
  <2>1. UNCHANGED stopped
    BY <1>13 DEF listenEnds
  <2>2. /\ at'[u].map = "no" /\ at'[u].vec = at[u].vec /\ \A v \in Actor : Same(v)
        /\ \A v \in Actor \ {u} : Keeps(v)
    BY <1>13, listenEndsTypes
  <2>3. \A v \in Thread : ThreadOK(v)'
    BY <1>1, <1>2, <2>2 DEF ThreadOK, Same, Actor
  <2>4. ProgramOK'
    BY <2>1, <2>2 DEF ProgramOK, Handlers, Same, Actor
  <2>. QED
    BY <2>3, <2>4
<1>14. ASSUME NEW u \in Actor, stopBegins(u) \/ stopCloses(u) \/ stopContext(u)
       PROVE  (\A v \in Thread : ThreadOK(v)') /\ ProgramOK'
  <2>1. /\ \A v \in Actor \ {u} : Keeps(v)
        /\ at'[u].sock = at[u].sock /\ at'[u].map = at[u].map
        /\ at'[u].do \in Stopping
        /\ \/ at[u].do \in Stopping
           \/ at[u].map = "no" /\ at[u].do \in IF u = Main THEN {"app"} ELSE {"accepted", "message"}
        /\ at'[u].do = "joining" => stopped'
    BY <1>14, stopTypes
  <2>2. stopped => stopped'
    BY <1>14 DEF stopBegins, stopCloses, stopContext, context
  <2>3. u \in Thread => ThreadOK(u)'
    <3>1. ASSUME u \in Thread PROVE at[u].map = "no" /\ at[u].do \notin Idle
      BY <1>1, <2>1, <3>1 DEF ThreadOK, Stopping, Idle
    <3>2. ASSUME u \in Thread PROVE at[u].sock # None
      BY <1>1, <3>1, <3>2 DEF ThreadOK
    <3>. QED
      BY <2>1, <3>1, <3>2 DEF ThreadOK, Stopping, Idle
  <2>4. u = Main => ProgramOK'
    BY <2>1 DEF ProgramOK, Stopping, Handler, Idle
  <2>. QED
    BY <1>2, <1>3, <2>1, <2>2, <2>3, <2>4 DEF Actor
<1>14a. CASE stopJoins \/ destroyed
  <2>1. (\A t \in Thread : Keeps(t)) /\ at'[Main].do \in {"app", "gone"}
    BY <1>14a, endTypes
  <2>. QED
    BY <1>2, <2>1 DEF ProgramOK, Handler, Idle
<1>15. CASE (\E s \in Socket : remoteSends(s) \/ remoteLeaves(s))
            \/ (\E t \in Thread : callbackThrows(t)) \/ startServer
  <2>1. UNCHANGED <<at, stopped>>
    BY <1>15, quietTypes DEF remoteSends, remoteLeaves, callbackThrows, startServer, context
  <2>. QED
    BY <2>1, <1>2, <1>3 DEF Keeps, Same
<1>16. CASE UNCHANGED vars
  BY <1>16, <1>2, <1>3 DEF Keeps, Same, vars, context
<1>. QED
  BY <1>6, <1>7, <1>8, <1>9, <1>10, <1>11, <1>12, <1>13, <1>14, <1>14a, <1>15, <1>16,
     NextCases DEF Beside
-----------------------------------------------------------------------------
(* One handler for a socket. *)

Serves == Types /\ Handlers /\ OneHandler /\ ListedOnce /\ DisconnectIsFinal

LEMMA OneHandlerBeside == ASSUME Serves, Undisturbed PROVE OneHandler'
<1>1. \A s \in Socket : socket'[s] = "none" <=> socket[s] = "none"
  BY DEF Serves, Undisturbed, ListedOnce
<1>2. \A t \in Thread : at'[t].sock = at[t].sock
  BY DEF Undisturbed, Alike
<1>. QED
  BY <1>1, <1>2 DEF Serves, Types, Undisturbed, OneHandler

LEMMA FinalBeside == ASSUME Serves, Undisturbed PROVE DisconnectIsFinal'
BY DEF Serves, Undisturbed, DisconnectIsFinal, Alike, Stopping, Types

LEMMA ListedBeside == ASSUME Serves, Undisturbed PROVE ListedOnce'
<1>1. \A s \in Socket : Listed(s)' <=> Listed(s)
  BY DEF Undisturbed, Listed
<1>. QED
  BY <1>1 DEF Serves, Types, Undisturbed, ListedOnce, OneHandler, Alike, Handlers, Idle, Stopping,
              Actor, Activity

\* A thread that handles something has a socket, which nobody else reads or handles.
LEMMA Holds ==
    ASSUME Serves, NEW t \in Thread, at[t].do \notin Idle
    PROVE  /\ at[t].sock \in Socket /\ at[t].sock # None
           /\ read[at[t].sock] = "none" /\ socket[at[t].sock] # "none"
           /\ \A u \in Thread \ {t} : at[u].sock # at[t].sock
<1>1. at[t].sock \in Socket /\ at[t].sock # None
  BY AsioConstants DEF Serves, Handlers, Types, Actor, Activity, Idle
<1>. QED
  BY <1>1 DEF Serves, OneHandler

LEMMA acceptServes ==
    ASSUME Serves, NEW t \in Thread, NEW s \in Socket, acceptCompletes(t, s)
    PROVE  OneHandler' /\ ListedOnce' /\ DisconnectIsFinal'
<1>1. /\ at'[t].sock = s /\ at'[t].do \in {"push", "failed"}
      /\ \A u \in Thread \ {t} : Same(u)
  BY acceptTypes DEF Serves, Moves, Actor, Keeps
<1>2. /\ UNCHANGED <<clients, read, disconnected>> /\ socket[s] = "none"
      /\ \A r \in Socket \ {s} : socket'[r] = socket[r]
  BY DEF acceptCompletes, history, Serves, Types
<1>3. CASE socket'[s] = "open" /\ at'[t].do = "push"
  <2>1. OneHandler'
    BY <1>1, <1>2, <1>3 DEF Serves, Types, OneHandler, Same
  <2>2. DisconnectIsFinal'
    BY <1>1, <1>2, <1>3 DEF Serves, Types, OneHandler, DisconnectIsFinal, Same
  <2>3. ListedOnce'
    <3>1. \A r \in Socket : Listed(r)' <=> Listed(r)
      BY <1>2 DEF Listed
    <3>2. ~Listed(s)
      BY <1>2 DEF Serves, ListedOnce
    <3>. QED
      BY <1>1, <1>2, <1>3, <3>1, <3>2
         DEF Serves, Types, ListedOnce, OneHandler, Same, Handlers, Idle, Actor, Activity
  <2>. QED
    BY <2>1, <2>2, <2>3
<1>4. CASE socket'[s] = "unopened" /\ at'[t].do = "failed"
  <2>1. OneHandler'
    BY <1>1, <1>2, <1>4 DEF Serves, Types, OneHandler, Same
  <2>2. DisconnectIsFinal'
    BY <1>1, <1>2, <1>4 DEF Serves, Types, OneHandler, DisconnectIsFinal, Same
  <2>3. ListedOnce'
    <3>1. \A r \in Socket : Listed(r)' <=> Listed(r)
      BY <1>2 DEF Listed
    <3>2. ~Listed(s)
      BY <1>2 DEF Serves, ListedOnce
    <3>. QED
      BY <1>1, <1>2, <1>4, <3>1, <3>2
         DEF Serves, Types, ListedOnce, OneHandler, Same, Handlers, Idle, Actor, Activity
  <2>. QED
    BY <2>1, <2>2, <2>3
<1>5. \/ socket'[s] = "open" /\ at'[t].do = "push"
      \/ socket'[s] = "unopened" /\ at'[t].do = "failed"
  <2>1. CASE socket' = [socket EXCEPT ![s] = "open"] /\ Write(t, Doing("push", s), {})
    <3>1. Moves(t, {"push"}, s)
      BY <2>1, DoingMoves DEF Serves, Actor, Handler
    <3>. QED
      BY <2>1, <3>1 DEF Moves, Serves, Types
  <2>2. CASE socket' = [socket EXCEPT ![s] = "unopened"] /\ Continue(t, Doing("failed", s))
    <3>1. Moves(t, {"failed"}, s)
      BY <2>2, DoingMoves DEF Serves, Actor, Handler
    <3>. QED
      BY <2>2, <3>1 DEF Moves, Serves, Types
  <2>. QED
    BY <2>1, <2>2 DEF acceptCompletes
<1>. QED
  BY <1>3, <1>4, <1>5

LEMMA asyncReadServes ==
    ASSUME Serves, NEW t \in Thread, NEW s \in Socket, asyncRead(t, s)
    PROVE  OneHandler' /\ ListedOnce' /\ DisconnectIsFinal'
<1>1. /\ at'[t].sock = s /\ at'[t].do \in {"payload", "find", "message"}
      /\ \A u \in Thread \ {t} : Same(u)
  BY asyncReadTypes DEF Serves, Moves, Actor, Keeps
<1>2. /\ UNCHANGED <<clients, socket, disconnected>>
      /\ read[s] # "none" /\ read' = [read EXCEPT ![s] = "none"] /\ s \notin disconnected
  BY DEF asyncRead, history, Serves, DisconnectIsFinal
<1>3. OneHandler'
  <2>1. socket[s] # "none" /\ \A u \in Thread : at[u].sock # s
    BY <1>2 DEF Serves, OneHandler
  <2>2. read'[s] = "none" /\ \A r \in Socket \ {s} : read'[r] = read[r]
    BY <1>2 DEF Serves, Types
  <2>3. \A u \in Thread \ {t} : at'[u].sock = at[u].sock /\ at'[u].sock # s
    BY <1>1, <2>1 DEF Same
  <2>. QED
    BY <1>1, <1>2, <2>1, <2>2, <2>3 DEF Serves, OneHandler
<1>4. DisconnectIsFinal'
  BY <1>1, <1>2 DEF Serves, Types, DisconnectIsFinal, Same
<1>5. ListedOnce'
  <2>1. \A r \in Socket : Listed(r)' <=> Listed(r)
    BY <1>2 DEF Listed
  <2>2. socket[s] # "unopened" => Listed(s)
    BY <1>2 DEF Serves, ListedOnce
  <2>. QED
    BY <1>1, <1>2, <2>1, <2>2
       DEF Serves, Types, ListedOnce, OneHandler, Same, Handlers, Idle, Actor, Activity
<1>. QED
  BY <1>3, <1>4, <1>5

\* A thread that goes on with its socket, and was listed if it had to be.
LEMMA goOnServes ==
    ASSUME Serves, NEW t \in Thread, at[t].do \notin Idle \cup {"push", "failed", "null"},
           at'[t].sock = at[t].sock, at'[t].do \in {"lookup", "find", "message"},
           \A u \in Thread \ {t} : Same(u),
           UNCHANGED <<clients, socket, read, disconnected>>
    PROVE  OneHandler' /\ ListedOnce' /\ DisconnectIsFinal'
<1>1. \A u \in Thread : at'[u].sock = at[u].sock
  BY DEF Same
<1>2. OneHandler'
  BY <1>1 DEF Serves, OneHandler
<1>3. at[t].sock \notin disconnected
  BY DEF Serves, DisconnectIsFinal
<1>4. DisconnectIsFinal'
  BY <1>1, <1>3 DEF Serves, DisconnectIsFinal, Same
<1>5. \A r \in Socket : Listed(r)' <=> Listed(r)
  BY DEF Listed
<1>6. at[t].sock \in Socket /\ (socket[at[t].sock] # "unopened" => Listed(at[t].sock))
  BY Holds DEF Serves, ListedOnce
<1>7. ListedOnce'
  BY <1>1, <1>5, <1>6 DEF Serves, Types, ListedOnce, Same, Handlers, Idle, Actor, Activity
<1>. QED
  BY <1>2, <1>4, <1>7

LEMMA pushServes ==
    ASSUME Serves, NEW t \in Thread, onNewConnection(t)
    PROVE  OneHandler' /\ ListedOnce' /\ DisconnectIsFinal'
<1> DEFINE s == at[t].sock
<1>1. /\ at'[t].sock = s /\ at'[t].do = "accepted"
      /\ \A u \in Thread \ {t} : Same(u)
  BY pushTypes DEF Serves, Moves, Actor, Keeps
<1>2. /\ s \in Socket /\ s # None /\ socket[s] = "open" /\ ~Listed(s)
      /\ \A u \in Thread \ {t} : at[u].sock # s
  BY Holds DEF onNewConnection, Idle, Serves, ListedOnce
<1>3. clients' = Append(clients, s) /\ UNCHANGED <<socket, read, disconnected>>
  BY DEF onNewConnection, netVars, history
<1>4. \A u \in Thread : at'[u].sock = at[u].sock
  BY <1>1 DEF Same
<1>5. OneHandler'
  BY <1>3, <1>4 DEF Serves, OneHandler
<1>6. s \notin disconnected
  BY DEF onNewConnection, Serves, DisconnectIsFinal
<1>7. DisconnectIsFinal'
  BY <1>1, <1>3, <1>4, <1>6 DEF Serves, DisconnectIsFinal, Same
<1>8. /\ DOMAIN clients' = 1..(Len(clients) + 1) /\ DOMAIN clients = 1..Len(clients)
      /\ Len(clients) \in Nat /\ clients'[Len(clients) + 1] = s
      /\ \A i \in 1..Len(clients) : clients'[i] = clients[i]
  BY <1>2, <1>3 DEF Serves, Types
<1> HIDE DEF s
<1>9. \A r \in Socket : Listed(r)' <=> Listed(r) \/ r = s
  BY <1>8 DEF Listed
<1>10. \A i \in DOMAIN clients : clients[i] # s
  BY <1>2 DEF Listed
<1>11. \A i, j \in DOMAIN clients' : clients'[i] = clients'[j] /\ clients'[i] # None => i = j
  BY <1>8, <1>10 DEF Serves, ListedOnce
<1>12. \A r \in Socket : Listed(r)' => socket'[r] \in {"open", "closed"}
  BY <1>2, <1>3, <1>9 DEF Serves, ListedOnce
<1>13. \A r \in Socket : read'[r] # "none" /\ socket'[r] # "unopened" => Listed(r)'
  BY <1>3, <1>9 DEF Serves, ListedOnce
<1>14. ASSUME NEW u \in Thread \ {t}
       PROVE  /\ at'[u].do = "push" => socket'[at'[u].sock] = "open" /\ ~Listed(at[u].sock)'
              /\ at'[u].do = "failed" => socket'[at'[u].sock] = "unopened"
              /\ at'[u].do \notin {"push", "failed"} \cup Idle /\ socket'[at'[u].sock] # "unopened"
                    => Listed(at[u].sock)'
  <2>1. at'[u].do = at[u].do /\ at'[u].sock = at[u].sock /\ at[u].sock # s
    BY <1>1, <1>2, <1>14 DEF Same, s
  <2>2. at[u].do \notin Idle => at[u].sock \in Socket
    BY Holds
  <2>. QED
    BY <1>3, <1>9, <2>1, <2>2 DEF Serves, ListedOnce, Listed, Idle
<1>15. ListedOnce'
  BY <1>1, <1>2, <1>9, <1>11, <1>12, <1>13, <1>14 DEF ListedOnce
<1>. QED
  BY <1>5, <1>7, <1>15

\* The end of a handler that reads again.
LEMMA readAgainServes ==
    ASSUME Serves, NEW t \in Thread, continueAccept(t) \/ repeatRead(t)
    PROVE  OneHandler' /\ ListedOnce' /\ DisconnectIsFinal'
<1> DEFINE s == at[t].sock
<1>1. at'[t].sock = None /\ at'[t].do = "idle" /\ \A u \in Thread \ {t} : Same(u)
  BY idleTypes DEF Serves, Moves, Actor, Keeps
<1>2. at[t].do \in {"accepted", "failed", "message"}
  BY DEF continueAccept, repeatRead
<1>3. /\ s \in Socket /\ s # None /\ socket[s] # "none" /\ s \notin disconnected
      /\ \A u \in Thread \ {t} : at[u].sock # s
  BY <1>2, Holds DEF Idle, Serves, DisconnectIsFinal
<1>4. /\ UNCHANGED <<clients, socket, disconnected>>
      /\ \A r \in Socket \ {s} : read'[r] = read[r]
  BY DEF continueAccept, repeatRead, history, Serves, Types
<1>5. socket[s] # "unopened" => Listed(s)
  BY <1>2 DEF Serves, ListedOnce, Idle
<1> HIDE DEF s
<1>6. \A u \in Thread \ {t} : at'[u].sock = at[u].sock /\ at'[u].do = at[u].do /\ at'[u].sock # s
  BY <1>1, <1>3 DEF Same
<1>7. None \notin Socket
  BY AsioConstants
<1>8. OneHandler'
  BY <1>1, <1>3, <1>4, <1>6, <1>7 DEF Serves, OneHandler
<1>9. DisconnectIsFinal'
  BY <1>1, <1>3, <1>4, <1>6, <1>7 DEF Serves, Types, DisconnectIsFinal
<1>10. \A r \in Socket \cup {None} : Listed(r)' <=> Listed(r)
  BY <1>4 DEF Listed
<1>11. \A u \in Thread : at[u].do \notin Idle => at[u].sock \in Socket
  BY Holds
<1>12. ListedOnce'
  BY <1>1, <1>3, <1>4, <1>5, <1>6, <1>10, <1>11 DEF Serves, ListedOnce, Idle
<1>. QED
  BY <1>8, <1>9, <1>12

LEMMA disconnectServes ==
    ASSUME Serves, NEW t \in Thread, handleDisconnection(t)
    PROVE  OneHandler' /\ ListedOnce' /\ DisconnectIsFinal'
<1> DEFINE s == at[t].sock
<1>1. /\ s \in Socket /\ s # None /\ read[s] = "none" /\ socket[s] # "none"
      /\ \A u \in Thread \ {t} : at[u].sock # s
  BY Holds DEF Idle, handleDisconnection
<1>2. UNCHANGED <<clients, read>> /\ s \notin disconnected
  BY DEF handleDisconnection, Serves, DisconnectIsFinal
<1>3. \A r \in Socket \cup {None} : Listed(r)' <=> Listed(r)
  BY <1>2 DEF Listed
<1>4. \A u \in Thread : at[u].do \notin Idle => at[u].sock \in Socket
  BY Holds
<1>5. None \notin Socket
  BY AsioConstants
<1>6. CASE Moves(t, {"idle"}, None) /\ UNCHANGED <<socket, disconnected>>
  <2>1. at'[t].sock = None /\ at'[t].do = "idle"
        /\ \A u \in Thread \ {t} : at'[u].sock = at[u].sock /\ at'[u].do = at[u].do
    BY <1>6 DEF Moves, Actor, Keeps, Same
  <2> HIDE DEF s
  <2>2. OneHandler'
    BY <1>2, <1>5, <1>6, <2>1 DEF Serves, OneHandler
  <2>3. DisconnectIsFinal'
    BY <1>2, <1>5, <1>6, <2>1 DEF Serves, Types, DisconnectIsFinal
  <2>4. ListedOnce'
    BY <1>2, <1>3, <1>4, <1>6, <2>1 DEF Serves, ListedOnce, Idle
  <2>. QED
    BY <2>2, <2>3, <2>4
<1>7. CASE /\ Moves(t, {"null"}, s) /\ Listed(s) /\ disconnected' = disconnected \cup {s}
           /\ socket' = [socket EXCEPT ![s] = "closed"]
  <2>1. at'[t].sock = s /\ at'[t].do = "null"
        /\ \A u \in Thread \ {t} : at'[u].sock = at[u].sock /\ at'[u].do = at[u].do
    BY <1>7 DEF Moves, Actor, Keeps, Same
  <2>2. socket'[s] = "closed" /\ \A r \in Socket \ {s} : socket'[r] = socket[r]
    BY <1>1, <1>7 DEF Serves, Types
  <2>3. Listed(s)
    BY <1>7
  <2>4. \A u \in Thread : at'[u].sock = at[u].sock
    BY <2>1
  <2>5. \A u \in Thread \ {t} : at'[u].sock # s /\ at'[u].do = at[u].do
    BY <1>1, <2>1
  <2>6. disconnected' = disconnected \cup {s}
    BY <1>7
  <2> HIDE DEF s
  <2>7. OneHandler'
    BY <1>1, <1>2, <2>2, <2>4, <2>6 DEF Serves, Types, OneHandler
  <2>8. DisconnectIsFinal'
    BY <1>1, <1>2, <2>1, <2>4, <2>5, <2>6 DEF Serves, Types, DisconnectIsFinal
  <2>9. ListedOnce'
    BY <1>1, <1>2, <1>3, <1>4, <2>1, <2>2, <2>3, <2>4, <2>5 DEF Serves, ListedOnce, Idle
  <2>. QED
    BY <2>7, <2>8, <2>9
<1>. QED
  BY <1>6, <1>7, disconnectTypes DEF Serves

LEMMA clearServes ==
    ASSUME Serves, NEW t \in Thread, clearClient(t)
    PROVE  OneHandler' /\ ListedOnce' /\ DisconnectIsFinal'
<1> DEFINE s == at[t].sock
<1>1. /\ s \in Socket /\ s # None /\ read[s] = "none"
      /\ \A u \in Thread \ {t} : at[u].sock # s
  BY Holds DEF Idle, clearClient
<1>2. at'[t].sock = None /\ at'[t].do = "idle"
      /\ \A u \in Thread \ {t} : at'[u].sock = at[u].sock /\ at'[u].do = at[u].do
  BY idleTypes DEF Serves, Moves, Actor, Keeps, Same
<1>3. UNCHANGED <<socket, read, disconnected>>
  BY DEF clearClient, netVars, history
<1>4. /\ DOMAIN clients' = DOMAIN clients
      /\ \A i \in DOMAIN clients : clients'[i] = clients[i] \/ (clients[i] = s /\ clients'[i] = None)
  BY DEF clearClient
<1>5. None \notin Socket
  BY AsioConstants
<1>6. \A u \in Thread : at[u].do \notin Idle => at[u].sock \in Socket
  BY Holds
<1> HIDE DEF s
<1>7. OneHandler'
  BY <1>2, <1>3, <1>5 DEF Serves, OneHandler
<1>8. DisconnectIsFinal'
  BY <1>2, <1>3, <1>5 DEF Serves, Types, DisconnectIsFinal
<1>9. \A r \in Socket : /\ Listed(r)' => Listed(r)
                        /\ r # s => (Listed(r)' <=> Listed(r))
  BY <1>4, <1>5 DEF Listed
<1>10. \A i, j \in DOMAIN clients' : clients'[i] = clients'[j] /\ clients'[i] # None => i = j
  BY <1>4 DEF Serves, ListedOnce
<1>11. ListedOnce'
  BY <1>1, <1>2, <1>3, <1>6, <1>9, <1>10 DEF Serves, ListedOnce, Idle
<1>. QED
  BY <1>7, <1>8, <1>11

LEMMA exitServes ==
    ASSUME Serves, NEW t \in Thread, runReturns(t)
    PROVE  OneHandler' /\ ListedOnce' /\ DisconnectIsFinal'
<1>1. at'[t].sock = None /\ at'[t].do = "exited"
      /\ \A u \in Thread \ {t} : at'[u].sock = at[u].sock /\ at'[u].do = at[u].do
  BY runReturnsTypes DEF Serves, Moves, Actor, Keeps, Same
<1>2. UNCHANGED <<clients, socket, read, disconnected>> /\ at[t].sock = None
  BY DEF runReturns, netVars, history, Serves, Handlers, Idle
<1>3. None \notin Socket
  BY AsioConstants
<1>4. \A r \in Socket : Listed(r)' <=> Listed(r)
  BY <1>2 DEF Listed
<1>5. OneHandler'
  BY <1>1, <1>2, <1>3 DEF Serves, OneHandler
<1>6. DisconnectIsFinal'
  BY <1>1, <1>2, <1>3 DEF Serves, Types, DisconnectIsFinal
<1>7. \A u \in Thread : at[u].do \notin Idle => at[u].sock \in Socket
  BY Holds
<1>8. ListedOnce'
  BY <1>1, <1>2, <1>4, <1>7 DEF Serves, ListedOnce, Idle
<1>. QED
  BY <1>5, <1>6, <1>8

LEMMA ServesStep == ASSUME Serves, [Next]_vars PROVE OneHandler' /\ ListedOnce' /\ DisconnectIsFinal'
<1>1. CASE Beside
  BY <1>1, BesideUndisturbed, OneHandlerBeside, FinalBeside, ListedBeside DEF Serves
<1>2. ASSUME NEW t \in Thread, NEW s \in Socket, acceptCompletes(t, s) \/ asyncRead(t, s)
      PROVE  OneHandler' /\ ListedOnce' /\ DisconnectIsFinal'
  BY <1>2, acceptServes, asyncReadServes
<1>3. ASSUME NEW t \in Thread, readPayload(t)
      PROVE  OneHandler' /\ ListedOnce' /\ DisconnectIsFinal'
  <2>1. /\ at'[t].do \in {"lookup", "find", "message"} /\ at'[t].sock = at[t].sock
        /\ \A u \in Thread \ {t} : Same(u)
    BY <1>3, readPayloadTypes DEF Serves, Moves, Keeps, Actor
  <2>2. at[t].do = "payload" /\ UNCHANGED <<clients, socket, read, disconnected>>
    BY <1>3 DEF readPayload, history
  <2>. QED
    BY <2>1, <2>2, goOnServes DEF Idle
<1>4. ASSUME NEW t \in Thread, recievedMessage(t)
      PROVE  OneHandler' /\ ListedOnce' /\ DisconnectIsFinal'
  <2>1. /\ at'[t].do = "message" /\ at'[t].sock = at[t].sock
        /\ \A u \in Thread \ {t} : Same(u)
    BY <1>4, messageTypes DEF Serves, Moves, Keeps, Actor
  <2>2. at[t].do = "lookup" /\ UNCHANGED <<clients, socket, read, disconnected>>
    BY <1>4 DEF recievedMessage, history, netVars
  <2>. QED
    BY <2>1, <2>2, goOnServes DEF Idle
<1>5. ASSUME NEW t \in Thread,
             \/ onNewConnection(t) \/ continueAccept(t) \/ repeatRead(t)
             \/ handleDisconnection(t) \/ clearClient(t) \/ runReturns(t)
      PROVE  OneHandler' /\ ListedOnce' /\ DisconnectIsFinal'
  BY <1>5, pushServes, readAgainServes, disconnectServes, clearServes, exitServes
<1>6. CASE UNCHANGED vars
  <2>1. Undisturbed
    BY <1>6 DEF Undisturbed, Alike, vars, netVars, history
  <2>. QED
    BY <2>1, OneHandlerBeside, FinalBeside, ListedBeside
<1>. QED
  BY <1>1, <1>2, <1>3, <1>4, <1>5, <1>6, NextCases
-----------------------------------------------------------------------------
(* The chain of accepts. *)

\* Few enough threads are in continueAccept for them to be counted.
LEMMA AcceptingFinite == IsFiniteSet(Accepting) /\ Cardinality(Accepting) \in Nat
<1>1. IsFiniteSet(Thread) /\ Accepting \subseteq Thread
  BY AsioConstants DEF Accepting
<1>. QED
  BY <1>1, FS_Subset, FS_CardinalityType

\* A server that stops goes on stopping.
LEMMA StopsStay == ASSUME Types, Handlers, [Next]_vars, Stops PROVE Stops'
<1>1. stopped => stopped'
  BY Zenon DEF Next, remoteSends, remoteLeaves, acceptCompletes, asyncRead, onNewConnection, continueAccept,
     readPayload, recievedMessage, repeatRead, handleDisconnection, clearClient, callbackThrows,
     runReturns, sendBegins, sendEnds, listenBegins, listenEnds, startServer, destroyed, stopBegins,
     stopCloses, stopContext, stopJoins, context, vars
<1>2. SUFFICES ASSUME NEW t \in Thread, at[t].do \in Stopping PROVE at'[t].do \in Stopping
  BY <1>1 DEF Stops
<1>3. CASE Beside
  BY <1>2, <1>3, BesideUndisturbed DEF Undisturbed, Alike
<1>4. ASSUME NEW u \in Thread, u = t \/ Same(t), at[u].do \notin Stopping
      PROVE  at'[t].do \in Stopping
  BY <1>2, <1>4 DEF Same
<1>5. ASSUME NEW u \in Thread, NEW s \in Socket, acceptCompletes(u, s) \/ asyncRead(u, s)
      PROVE  at'[t].do \in Stopping
  BY <1>4, <1>5, acceptTypes, asyncReadTypes
     DEF Moves, Actor, Keeps, Stopping, acceptCompletes, asyncRead, Ready
<1>6. ASSUME NEW u \in Thread, onNewConnection(u) \/ continueAccept(u) \/ repeatRead(u) \/ clearClient(u)
      PROVE  at'[t].do \in Stopping
  BY <1>4, <1>6, pushTypes, idleTypes
     DEF Moves, Actor, Keeps, Stopping, onNewConnection, continueAccept, repeatRead, clearClient
<1>7. ASSUME NEW u \in Thread, readPayload(u) \/ recievedMessage(u) \/ handleDisconnection(u) \/ runReturns(u)
      PROVE  at'[t].do \in Stopping
  BY <1>4, <1>7, readPayloadTypes, messageTypes, disconnectTypes, runReturnsTypes
     DEF Moves, Actor, Keeps, Stopping, readPayload, recievedMessage, handleDisconnection, runReturns
<1>8. CASE UNCHANGED vars
  BY <1>2, <1>8 DEF vars
<1>. QED
  BY <1>3, <1>5, <1>6, <1>7, <1>8, NextCases

\* A chain that goes on as it is, or is cut by a callback that stops the server.
LEMMA AcceptKept ==
    ASSUME OneAccept, accepts \in Nat, starts \in Nat, Accepting' \subseteq Accepting,
           Stops' \/ (Accepting' = Accepting /\ ~Stops),
           stopped => stopped', UNCHANGED <<isRunning, listening, accepts, starts>>
    PROVE  OneAccept'
<1>1. /\ Cardinality(Accepting) \in Nat /\ Cardinality(Accepting') \in Nat
      /\ Cardinality(Accepting') <= Cardinality(Accepting)
  BY AcceptingFinite, FS_Subset, FS_CardinalityType
<1>. QED
  BY <1>1 DEF OneAccept

\* An accept that is handled has been taken from the outstanding ones.
LEMMA AcceptTaken ==
    ASSUME Types, OneAccept, NEW t \in Thread, NEW s \in Socket, acceptCompletes(t, s),
           Stops => Stops'
    PROVE  OneAccept'
<1>1. at'[t].do \in {"push", "failed"} /\ \A u \in Thread \ {t} : at'[u].do = at[u].do
  BY acceptTypes DEF Moves, Keeps, Same, Actor
<1>2. Accepting' = Accepting \cup {t} /\ t \notin Accepting
  BY <1>1 DEF Accepting, acceptCompletes, Ready
<1>3. Cardinality(Accepting') = Cardinality(Accepting) + 1
  BY <1>2, AcceptingFinite, FS_AddElement
<1>4. accepts' = accepts - 1 /\ UNCHANGED <<isRunning, listening, stopped, starts>>
  BY DEF acceptCompletes, context, history
<1>. QED
  BY <1>3, <1>4, AcceptingFinite DEF OneAccept, Types

LEMMA AcceptGivenBack ==
    ASSUME Types, Handlers, OneAccept, NEW t \in Thread, continueAccept(t), Stops => Stops'
    PROVE  OneAccept'
<1>1. at'[t].do = "idle" /\ \A u \in Thread \ {t} : at'[u].do = at[u].do
  BY idleTypes DEF Moves, Keeps, Same, Actor
<1>2. Accepting' = Accepting \ {t} /\ t \in Accepting
  BY <1>1 DEF Accepting, continueAccept
<1>3. Cardinality(Accepting') = Cardinality(Accepting) - 1
  BY <1>2, AcceptingFinite, FS_RemoveElement
<1>4. accepts' = accepts + 1 /\ UNCHANGED <<isRunning, listening, stopped, starts>>
  BY DEF continueAccept, context, history
<1>. QED
  BY <1>3, <1>4, AcceptingFinite DEF OneAccept, Types

LEMMA OneAcceptStep == ASSUME Types, Handlers, OneAccept, [Next]_vars PROVE OneAccept'
<1>0. (Stops => Stops') /\ accepts \in Nat /\ starts \in Nat
  BY StopsStay, AsioConstants DEF Types
<1>1. ASSUME \A u \in Thread : at'[u].do = at[u].do PROVE Accepting' = Accepting
  BY <1>1 DEF Accepting
<1>2. CASE Beside
  <2>1. Accepting' \subseteq Accepting
    BY <1>2, BesideUndisturbed DEF Undisturbed, Alike, Accepting, Stopping
  <2>2. CASE startServer
    <3>1. starts' = starts + 1 /\ UNCHANGED <<at, stopped>>
      BY <2>2 DEF startServer
    <3>2. Accepting' = Accepting /\ (Stops' <=> Stops) /\ Cardinality(Accepting) \in Nat
      BY <3>1, AcceptingFinite DEF Accepting, Stops
    <3>3. CASE isRunning
      BY <1>0, <2>2, <3>1, <3>2, <3>3 DEF startServer, OneAccept
    <3>4. CASE ~isRunning
      <4>1. isRunning' /\ \/ listening' /\ accepts' = accepts + 1
                          \/ UNCHANGED <<listening, accepts>>
        BY <2>2, <3>4 DEF startServer
      <4>2. ~stopped => ~listening
        BY <3>4 DEF OneAccept
      <4>3. ~Stops => ~stopped
        BY DEF Stops
      <4>. QED
        BY <1>0, <3>1, <3>2, <4>1, <4>2, <4>3 DEF OneAccept
    <3>. QED
      BY <3>3, <3>4
  <2>3. CASE stopJoins
    <3>1. stopped /\ stopped' /\ UNCHANGED <<listening, accepts, starts>>
      BY <2>3 DEF stopJoins, Handlers, context, history
    <3>2. Stops'
      BY <3>1 DEF Stops
    <3>3. /\ Cardinality(Accepting) \in Nat /\ Cardinality(Accepting') \in Nat
          /\ Cardinality(Accepting') <= Cardinality(Accepting)
      BY <2>1, AcceptingFinite, FS_Subset, FS_CardinalityType
    <3>. QED
      BY <1>0, <3>1, <3>2, <3>3 DEF OneAccept
  <2>4. ASSUME NEW u \in Actor, stopBegins(u) \/ stopCloses(u) \/ stopContext(u) PROVE OneAccept'
    <3>1. UNCHANGED <<isRunning, listening, accepts, starts>> /\ (stopped => stopped')
      BY <2>4 DEF stopBegins, stopCloses, stopContext, context, history
    <3>2. CASE u = Main
      <4>1. Accepting' = Accepting
        BY <1>1, <2>4, <3>2, stopTypes, AsioConstants DEF Keeps, Same, Actor
      <4>. QED
        BY <1>0, <3>1, <4>1, AcceptKept
    <3>3. CASE u \in Thread
      <4>1. Stops'
        BY <2>4, <3>3, stopTypes DEF Stops
      <4>. QED
        BY <1>0, <2>1, <3>1, <4>1, AcceptKept
    <3>. QED
      BY <3>2, <3>3 DEF Actor
  <2>5. CASE (\E s \in Socket : remoteSends(s) \/ remoteLeaves(s)) \/ (\E t \in Thread : callbackThrows(t))
    <3>1. UNCHANGED at
      BY <2>5, quietTypes
    <3>2. Accepting' = Accepting
      BY <3>1 DEF Accepting
    <3>. QED
      BY <1>0, <2>5, <3>2, AcceptKept DEF remoteSends, remoteLeaves, callbackThrows, context, history
  <2>6. ASSUME NEW u \in Actor, sendBegins(u) \/ sendEnds(u) PROVE OneAccept'
    <3>1. Accepting' = Accepting
      BY <1>1, <2>6, sendTypes DEF Same, Actor
    <3>. QED
      BY <1>0, <2>6, <3>1, AcceptKept DEF sendBegins, sendEnds, context, history
  <2>7. ASSUME NEW u \in Actor, listenBegins(u) \/ \E type \in Type : listenEnds(u, type) PROVE OneAccept'
    <3>1. Accepting' = Accepting
      BY <1>1, <2>7, listenBeginsTypes, listenEndsTypes DEF Same, Actor
    <3>. QED
      BY <1>0, <2>7, <3>1, AcceptKept DEF listenBegins, listenEnds, context, history
  <2>8. CASE destroyed
    <3>1. Accepting' = Accepting
      BY <1>1, <2>8, endTypes DEF Keeps, Same
    <3>. QED
      BY <1>0, <2>8, <3>1, AcceptKept DEF destroyed, context, history
  <2>. QED
    BY <1>2, <2>2, <2>3, <2>4, <2>5, <2>6, <2>7, <2>8 DEF Beside
<1>3. ASSUME NEW t \in Thread, NEW s \in Socket, asyncRead(t, s) PROVE OneAccept'
  <2>1. at'[t].do \in {"payload", "find", "message"} /\ \A u \in Thread \ {t} : at'[u].do = at[u].do
    BY <1>3, asyncReadTypes DEF Moves, Keeps, Same, Actor
  <2>2. Accepting' = Accepting
    BY <1>3, <2>1 DEF Accepting, asyncRead, Ready
  <2>. QED
    BY <1>3, <1>0, <2>2, AcceptKept DEF asyncRead, context, history
<1>4. ASSUME NEW t \in Thread, onNewConnection(t) PROVE OneAccept'
  <2>1. at'[t].do = "accepted" /\ \A u \in Thread \ {t} : at'[u].do = at[u].do
    BY <1>4, pushTypes DEF Moves, Keeps, Same, Actor
  <2>2. Accepting' = Accepting
    BY <1>4, <2>1 DEF Accepting, onNewConnection
  <2>. QED
    BY <1>4, <1>0, <2>2, AcceptKept DEF onNewConnection, context, history
<1>5. ASSUME NEW t \in Thread, readPayload(t) \/ recievedMessage(t) PROVE OneAccept'
  <2>1. at'[t].do \in {"lookup", "find", "message"} /\ \A u \in Thread \ {t} : at'[u].do = at[u].do
    BY <1>5, readPayloadTypes, messageTypes DEF Moves, Keeps, Same, Actor
  <2>2. Accepting' = Accepting
    BY <1>5, <2>1 DEF Accepting, readPayload, recievedMessage
  <2>. QED
    BY <1>5, <1>0, <2>2, AcceptKept DEF readPayload, recievedMessage, context, history
<1>6. ASSUME NEW t \in Thread, repeatRead(t) \/ clearClient(t) \/ runReturns(t) PROVE OneAccept'
  <2>1. at'[t].do \in Idle /\ \A u \in Thread \ {t} : at'[u].do = at[u].do
    BY <1>6, idleTypes, runReturnsTypes DEF Moves, Keeps, Same, Actor, Idle
  <2>2. Accepting' = Accepting
    BY <1>6, <2>1 DEF Accepting, Idle, repeatRead, clearClient, runReturns
  <2>. QED
    BY <1>6, <1>0, <2>2, AcceptKept DEF repeatRead, clearClient, runReturns, context, history
<1>7. ASSUME NEW t \in Thread, handleDisconnection(t) PROVE OneAccept'
  <2>1. at'[t].do \in {"null", "idle"} /\ \A u \in Thread \ {t} : at'[u].do = at[u].do
    BY <1>7, disconnectTypes DEF Moves, Keeps, Same, Actor
  <2>2. Accepting' = Accepting
    BY <1>7, <2>1 DEF Accepting, handleDisconnection
  <2>. QED
    BY <1>7, <1>0, <2>2, AcceptKept DEF handleDisconnection, context
<1>8. CASE UNCHANGED vars
  BY <1>0, <1>1, <1>8, AcceptKept DEF vars, context, history
<1>. QED
  BY <1>0, <1>2, <1>3, <1>4, <1>5, <1>6, <1>7, <1>8, AcceptTaken, AcceptGivenBack, NextCases
-----------------------------------------------------------------------------
(* Before the start. *)

\* Nothing reads and nothing is accepted, so that no handler begins.
LEMMA NoHandlerYet ==
    ASSUME NotStarted, starts = 0, NEW t \in Thread, [Next]_vars
    PROVE  /\ ~readPayload(t) /\ ~recievedMessage(t) /\ ~repeatRead(t) /\ ~handleDisconnection(t)
           /\ ~clearClient(t) /\ ~runReturns(t) /\ ~onNewConnection(t) /\ ~continueAccept(t)
           /\ ~callbackThrows(t) \/ t = Main
           /\ \A s \in Socket : ~acceptCompletes(t, s) /\ ~asyncRead(t, s)
<1>1. at[t].do = "idle" /\ ~stopped /\ accepts = 0 /\ \A s \in Socket : read[s] = "none"
  BY DEF NotStarted
<1>2. /\ ~readPayload(t) /\ ~recievedMessage(t) /\ ~repeatRead(t) /\ ~handleDisconnection(t)
      /\ ~clearClient(t) /\ ~runReturns(t) /\ ~onNewConnection(t) /\ ~continueAccept(t)
  BY <1>1 DEF readPayload, recievedMessage, repeatRead, handleDisconnection, clearClient,
              runReturns, onNewConnection, continueAccept
<1>3. ~callbackThrows(t) \/ t = Main
  BY <1>1 DEF callbackThrows, InApp
<1>4. \A s \in Socket : ~acceptCompletes(t, s) /\ ~asyncRead(t, s)
  <2>1. ~(accepts > 0)
    BY <1>1
  <2>2. \A s \in Socket : ~acceptCompletes(t, s)
    BY <2>1, Zenon DEF acceptCompletes
  <2>3. \A s \in Socket : ~asyncRead(t, s)
    BY <1>1, Zenon DEF asyncRead
  <2>. QED
    BY <2>2, <2>3
<1>. QED
  BY <1>2, <1>3, <1>4

LEMMA NotStartedStep == ASSUME Types, Handlers, NotStarted, [Next]_vars PROVE NotStarted'
<1>1. SUFFICES ASSUME starts' = 0 PROVE NotStarted'
  BY DEF NotStarted
<1>2. CASE Beside
  <2>1. Types' /\ Undisturbed
    BY <1>2, BesideUndisturbed
  <2>2. starts = 0 /\ ~startServer
    <3>1. starts \in Nat /\ ~startServer
      BY <1>1, AsioConstants DEF Types, startServer
    <3>2. UNCHANGED starts
      BY <1>2, <3>1, Zenon DEF Beside, remoteSends, remoteLeaves, callbackThrows, sendBegins,
            sendEnds, listenBegins, listenEnds, destroyed, stopBegins, stopCloses, stopContext,
            stopJoins, history
    <3>. QED
      BY <1>1, <3>1, <3>2
  <2>3. \A t \in Thread : at'[t].do = "idle"
    BY <2>1, <2>2 DEF Undisturbed, Alike, Stopping, NotStarted
  <2>4. ~stopJoins /\ \A u \in Actor : ~stopBegins(u) /\ ~stopCloses(u) /\ ~stopContext(u)
    BY <2>2 DEF NotStarted, stopBegins, stopCloses, stopContext, stopJoins, Actor
  <2>5. CASE destroyed
    BY <2>1, <2>2, <2>3, <2>5, endTypes, <1>1
       DEF NotStarted, Undisturbed, destroyed, context, Doing, Continue, Types, Actor
  <2>6. CASE (\E s \in Socket : remoteSends(s) \/ remoteLeaves(s)) \/ (\E t \in Thread : callbackThrows(t))
    BY <2>1, <2>2, <2>3, <2>6, <1>1, quietTypes
       DEF NotStarted, Undisturbed, remoteSends, remoteLeaves, callbackThrows, context
  <2>7. ASSUME NEW u \in Actor, sendBegins(u) \/ sendEnds(u) PROVE NotStarted'
    <3>1. at'[Main].do = at[Main].do
      BY <2>7, sendTypes DEF Same, Actor
    <3>. QED
      BY <2>1, <2>2, <2>3, <2>7, <3>1 DEF NotStarted, Undisturbed, sendBegins, sendEnds, context
  <2>8. ASSUME NEW u \in Actor, listenBegins(u) PROVE NotStarted'
    <3>1. at'[Main].do = at[Main].do
      BY <2>8, listenBeginsTypes DEF Same, Actor
    <3>. QED
      BY <2>1, <2>2, <2>3, <2>8, <3>1 DEF NotStarted, Undisturbed, listenBegins, context
  <2>9. ASSUME NEW u \in Actor, NEW type \in Type, listenEnds(u, type) PROVE NotStarted'
    <3>1. at'[Main].do = at[Main].do
      BY <2>9, listenEndsTypes DEF Same, Actor
    <3>2. \A ty \in Type : msgCallbacks'[ty] # "empty"
      BY <2>2, <2>9 DEF NotStarted, listenEnds, Types
    <3>. QED
      BY <2>1, <2>2, <2>3, <2>9, <3>1, <3>2 DEF NotStarted, Undisturbed, listenEnds
  <2>. QED
    BY <1>2, <2>2, <2>4, <2>5, <2>6, <2>7, <2>8, <2>9 DEF Beside
<1>3. ASSUME starts = 0, ~Beside PROVE UNCHANGED vars
  BY <1>3, NoHandlerYet, NextCases
<1>4. ASSUME ~Beside PROVE starts = 0
  <2>1. UNCHANGED starts
    BY <1>4, NextCases DEF acceptCompletes, asyncRead, onNewConnection, continueAccept, readPayload,
          recievedMessage, repeatRead, handleDisconnection, clearClient, runReturns, vars, history
  <2>. QED
    BY <1>1, <2>1
<1>5. CASE UNCHANGED vars
  BY <1>5 DEF NotStarted, vars, context, netVars, history
<1>. QED
  BY <1>2, <1>3, <1>4, <1>5
-----------------------------------------------------------------------------
(* The map of listeners. *)

\* Nobody begins to use the map, and a thread that stops has not looked up.
LEMMA MapFrame ==
    ASSUME MapUse, ~late, UNCHANGED <<msgCallbacks, late>>,
           \A u \in Thread : Keeps(u) \/ (at'[u].map = "no" /\ at[u].do # "lookup"),
           at'[Main].map = "no" \/ (at'[Main].map = at[Main].map /\ UNCHANGED starts)
    PROVE  MapUse'
<1>1. \A u \in Thread : at'[u].map # "no" => at'[u].do = "lookup" /\ at'[u].map = at[u].map
  BY DEF MapUse, Keeps, Same
<1>2. at'[Main].map # "no" => starts' = 0 /\ at'[Main].map = "writing"
  BY DEF MapUse
<1>3. Cause => Cause'
  <2>1. CASE \E type \in Type : msgCallbacks[type] = "empty"
    BY <2>1 DEF Cause
  <2>2. CASE \E t \in Thread : at[t].do = "lookup" /\ msgCallbacks[at[t].type] = "absent"
    BY <2>2 DEF Cause, Keeps, Same
  <2>. QED
    BY <2>1, <2>2 DEF Cause
<1>4. ~Cause' => \A t \in Thread : at'[t].map \in {"no", "reading"}
  BY <1>1, <1>3 DEF MapUse
<1>. QED
  BY <1>1, <1>2, <1>4 DEF MapUse

LEMMA LookUpBegins ==
    ASSUME Types, Handlers, NotStarted, MapUse, ~late, NEW t \in Thread, readPayload(t)
    PROVE  MapUse'
<1>1. at[t].do = "payload" /\ UNCHANGED <<msgCallbacks, late, starts>>
  BY DEF readPayload, context, history
<1>2. CASE Moves(t, {"find", "message"}, at[t].sock)
  <2>1. at'[t].map = "no" /\ \A u \in Actor \ {t} : Keeps(u)
    BY <1>2 DEF Moves
  <2>2. Keeps(Main) /\ \A u \in Thread \ {t} : Keeps(u)
    BY <2>1, AsioConstants DEF Actor
  <2>. QED
    BY <1>1, <2>1, <2>2, MapFrame DEF Keeps
<1>3. CASE ~Moves(t, {"find", "message"}, at[t].sock)
  <2> DEFINE how == LookUp(at[t].type)
  <2>1. /\ at'[t].do = "lookup" /\ at'[t].type = at[t].type /\ at[t].type \in Type
        /\ at'[t].map = IF \E v \in Actor \ {t} : Clash(v, how) THEN "raced" ELSE how
        /\ \A u \in Actor \ {t} :
              /\ Same(u)
              /\ at'[u].map = IF Clash(u, how) THEN "raced" ELSE at[u].map
    BY <1>3, readPayloadTypes
  <2>2. at[Main].map = "no"
    BY <1>1 DEF MapUse, NotStarted
  <2>3. at'[Main].map = "no"
    BY <2>1, <2>2, AsioConstants DEF Actor, Clash
  <2>4. \A u \in Thread : at'[u].map # "no" => at'[u].do = "lookup"
    BY <2>1 DEF MapUse, Actor, Clash, Same
  <2>5. ASSUME ~Cause' PROVE \A u \in Thread : at'[u].map \in {"no", "reading"}
    <3>1. \A type \in Type : msgCallbacks[type] # "empty"
      BY <1>1, <2>5 DEF Cause
    <3>2. \A u \in Thread : at[u].do = "lookup" => msgCallbacks[at[u].type] # "absent"
      BY <1>1, <2>1, <2>5 DEF Cause, Same, Actor
    <3>3. \A u \in Thread : at[u].map \in {"no", "reading"}
      BY <3>1, <3>2 DEF Cause, MapUse
    <3>4. msgCallbacks[at[t].type] # "absent"
      BY <1>1, <2>1, <2>5 DEF Cause
    <3>5. how = "reading"
      BY <3>4 DEF LookUp
    <3> HIDE DEF how
    <3>6. \A u \in Actor : ~Clash(u, how)
      BY <2>2, <3>3, <3>5 DEF Clash, Actor
    <3>. QED
      BY <2>1, <3>3, <3>5, <3>6 DEF Actor
  <2>. QED
    BY <2>3, <2>4, <2>5 DEF MapUse
<1>. QED
  BY <1>2, <1>3

LEMMA LookUpEnds ==
    ASSUME Types, Handlers, MapUse, ~late, NEW t \in Thread, recievedMessage(t)
    PROVE  MapUse'
<1>1. /\ at[t].do = "lookup" /\ at[t].type \in Type /\ UNCHANGED <<late, starts>>
      /\ msgCallbacks' = [msgCallbacks EXCEPT ![at[t].type] = IF @ = "absent" THEN "empty" ELSE @]
  BY messageTypes DEF recievedMessage, history
<1>2. at'[t].map = "no" /\ \A u \in Actor \ {t} : Keeps(u)
  BY messageTypes DEF Moves
<1>3. Keeps(Main) /\ \A u \in Thread \ {t} : Keeps(u)
  BY <1>2, AsioConstants DEF Actor
<1>4. \A type \in Type :
         /\ msgCallbacks[type] = "empty" => msgCallbacks'[type] = "empty"
         /\ msgCallbacks[type] = "absent" => msgCallbacks'[type] \in {"absent", "empty"}
  BY <1>1 DEF Types
<1>5. msgCallbacks[at[t].type] = "absent" => msgCallbacks'[at[t].type] = "empty"
  BY <1>1 DEF Types
<1>6. Cause => Cause'
  <2>1. CASE \E type \in Type : msgCallbacks[type] = "empty"
    BY <1>4, <2>1 DEF Cause
  <2>2. ASSUME NEW u \in Thread, at[u].do = "lookup", msgCallbacks[at[u].type] = "absent" PROVE Cause'
    <3>1. CASE u = t
      BY <1>1, <1>5, <2>2, <3>1 DEF Cause
    <3>2. CASE u # t
      <4>1. at'[u].do = "lookup" /\ at'[u].type = at[u].type
        BY <1>3, <2>2, <3>2 DEF Keeps, Same
      <4>2. at[u].type \in Type
        BY <2>2 DEF Handlers
      <4>3. msgCallbacks'[at[u].type] \in {"absent", "empty"}
        BY <1>4, <2>2, <4>2
      <4>. QED
        BY <4>1, <4>2, <4>3 DEF Cause
    <3>. QED
      BY <3>1, <3>2
  <2>. QED
    BY <2>1, <2>2 DEF Cause
<1>7. \A u \in Thread : at'[u].map # "no" => at'[u].do = "lookup" /\ at'[u].map = at[u].map
  BY <1>2, <1>3 DEF MapUse, Keeps, Same
<1>8. at'[Main].map # "no" => starts' = 0 /\ at'[Main].map = "writing"
  BY <1>1, <1>3 DEF MapUse, Keeps
<1>9. ~Cause' => \A u \in Thread : at'[u].map \in {"no", "reading"}
  BY <1>6, <1>7 DEF MapUse
<1>. QED
  BY <1>7, <1>8, <1>9 DEF MapUse

LEMMA MapUseStep ==
    ASSUME Types, Handlers, NotStarted, MapUse, [Next]_vars PROVE MapUse'
<1> USE AsioConstants
<1>1. SUFFICES ASSUME ~late' PROVE MapUse'
  BY DEF MapUse, Cause
<1>2. ASSUME NEW t \in Thread, NEW s \in Socket, acceptCompletes(t, s) \/ asyncRead(t, s)
      PROVE  MapUse'
  <2>1. at'[t].map = "no" /\ \A u \in Actor \ {t} : Keeps(u)
    BY <1>2, acceptTypes, asyncReadTypes DEF Moves
  <2>2. at[t].do # "lookup" /\ UNCHANGED <<msgCallbacks, late, starts>>
    BY <1>2 DEF acceptCompletes, asyncRead, Ready, context, history
  <2>3. Keeps(Main) /\ \A u \in Thread \ {t} : Keeps(u)
    BY <2>1 DEF Actor
  <2>. QED
    BY <1>1, <2>1, <2>2, <2>3, MapFrame DEF Keeps
<1>3. ASSUME NEW t \in Thread,
             \/ onNewConnection(t) \/ continueAccept(t) \/ repeatRead(t)
             \/ handleDisconnection(t) \/ clearClient(t) \/ runReturns(t)
      PROVE  MapUse'
  <2>1. at'[t].map = "no" /\ \A u \in Actor \ {t} : Keeps(u)
    BY <1>3, pushTypes, idleTypes, disconnectTypes, runReturnsTypes DEF Moves
  <2>2. at[t].do # "lookup" /\ UNCHANGED <<msgCallbacks, late, starts>>
    BY <1>3 DEF onNewConnection, continueAccept, repeatRead, handleDisconnection, clearClient,
                runReturns, context, history
  <2>3. Keeps(Main) /\ \A u \in Thread \ {t} : Keeps(u)
    BY <2>1 DEF Actor
  <2>. QED
    BY <1>1, <2>1, <2>2, <2>3, MapFrame DEF Keeps
<1>4. ASSUME NEW t \in Thread, readPayload(t) PROVE MapUse'
  BY <1>1, <1>4, LookUpBegins DEF readPayload, history
<1>5. ASSUME NEW t \in Thread, recievedMessage(t) PROVE MapUse'
  BY <1>1, <1>5, LookUpEnds DEF recievedMessage, history
<1>6. ASSUME NEW u \in Actor, sendBegins(u) \/ sendEnds(u) PROVE MapUse'
  <2>1. \A v \in Actor : Same(v) /\ at'[v].map = at[v].map
    BY <1>6, sendTypes
  <2>2. UNCHANGED <<msgCallbacks, late, starts>>
    BY <1>6 DEF sendBegins, sendEnds, context, history
  <2>. QED
    BY <1>1, <2>1, <2>2 DEF MapUse, Cause, Same, Actor
<1>7. ASSUME NEW u \in Actor, listenBegins(u) PROVE MapUse'
  <2>1. starts = 0 /\ ~late /\ UNCHANGED <<starts, msgCallbacks>>
    <3>1. ~late /\ ~(starts > 0) /\ UNCHANGED <<starts, msgCallbacks>>
      BY <1>1, <1>7, Zenon DEF listenBegins, context
    <3>2. starts \in Nat
      BY DEF Types
    <3>. QED
      BY <3>1, <3>2
  <2>2. u = Main /\ \A t \in Thread : at[t].do = "idle" /\ at[t].map = "no"
    BY <1>7, <2>1 DEF NotStarted, listenBegins, InApp, Actor, Handlers, Idle
  <2>3. at'[Main].map = "writing" /\ \A t \in Thread : at'[t].map = "no"
    BY <1>7, <2>2, listenBeginsTypes DEF Actor, Clash
  <2>. QED
    BY <2>1, <2>3 DEF MapUse
<1>8. ASSUME NEW u \in Actor, NEW type \in Type, listenEnds(u, type) PROVE MapUse'
  <2>1. ~late /\ UNCHANGED <<late, starts>> /\ at[u].map # "no" /\ at[u].do # "lookup"
    BY <1>1, <1>8 DEF listenEnds, history
  <2>2. u = Main /\ starts = 0
    BY <2>1 DEF MapUse, Actor
  <2>3. \A t \in Thread : at[t].map = "no"
    BY <2>2 DEF NotStarted, Handlers, Idle
  <2>4. at'[Main].map = "no" /\ \A t \in Thread : at'[t].map = "no"
    BY <1>8, <2>2, <2>3, listenEndsTypes DEF Actor, Keeps
  <2>. QED
    BY <2>4 DEF MapUse
<1>9. CASE startServer
  <2>1. UNCHANGED <<at, msgCallbacks, late>> /\ at[Main].map = "no"
    BY <1>9 DEF startServer, InApp
  <2>. QED
    BY <1>1, <2>1, MapFrame DEF Keeps, Same
<1>10. ASSUME NEW u \in Actor, stopBegins(u) \/ stopCloses(u) \/ stopContext(u) PROVE MapUse'
  <2>1. /\ \A v \in Actor \ {u} : Keeps(v)
        /\ at'[u].map = at[u].map
        /\ at[u].do \in Stopping \cup {"app", "accepted", "message"}
    BY <1>10, stopTypes
  <2>2. UNCHANGED <<msgCallbacks, late, starts>>
    BY <1>10 DEF stopBegins, stopCloses, stopContext, context, history
  <2>3. u \in Thread => at'[u].map = "no" /\ at[u].do # "lookup"
    BY <1>1, <2>1, <2>2 DEF MapUse, Stopping
  <2>4. (\A t \in Thread \ {u} : Keeps(t)) /\ at'[Main].map = at[Main].map
    BY <2>1 DEF Actor, Keeps
  <2>. QED
    BY <1>1, <2>2, <2>3, <2>4, MapFrame
<1>10a. CASE stopJoins \/ destroyed
  <2>1. (\A t \in Thread : Keeps(t)) /\ at'[Main].map = "no"
    BY <1>10a, endTypes
  <2>2. UNCHANGED <<msgCallbacks, late>>
    BY <1>10a DEF stopJoins, destroyed, context, history
  <2>. QED
    BY <1>1, <2>1, <2>2, MapFrame
<1>11. CASE (\E s \in Socket : remoteSends(s) \/ remoteLeaves(s))
            \/ (\E t \in Thread : callbackThrows(t)) \/ UNCHANGED vars
  <2>1. UNCHANGED <<at, msgCallbacks, late, starts>>
    BY <1>11 DEF remoteSends, remoteLeaves, callbackThrows, vars, context, history
  <2>. QED
    BY <1>1, <2>1, MapFrame DEF Keeps, Same
<1>. QED
  BY <1>2, <1>3, <1>4, <1>5, <1>6, <1>7, <1>8, <1>9, <1>10, <1>10a, <1>11,
     NextCases DEF Beside
-----------------------------------------------------------------------------
(* The theorems. *)

LEMMA EmptyClients == <<>> \in Seq(Socket \cup {None})
OBVIOUS

LEMMA InitInv == Init => Inv
<1> SUFFICES ASSUME Init PROVE Inv
  OBVIOUS
<1> USE AsioConstants
<1>1. at \in [Actor -> Activity]
  <2>1. \A t \in Actor : Doing(IF t = Main THEN "app" ELSE "idle", None) \in Activity
    BY DoingType
  <2>. QED
    BY <2>1 DEF Init, Actor
<1>2. /\ \A t \in Thread : /\ at[t].do = "idle" /\ at[t].sock = None
                           /\ at[t].vec = "no" /\ at[t].map = "no"
      /\ at[Main].do = "app" /\ at[Main].map = "no"
  BY DEF Init, Doing
<1>3. Types
  <2>1. clients \in Seq(Socket \cup {None})
    BY EmptyClients DEF Init
  <2>2. 0 \in 0..MaxStarts /\ 0 \in Nat
    OBVIOUS
  <2>3. /\ isRunning \in BOOLEAN /\ stopped \in BOOLEAN /\ crashed \in BOOLEAN
        /\ listening \in BOOLEAN /\ late \in BOOLEAN
    BY DEF Init
  <2>4. /\ msgCallbacks \in [Type -> {"absent", "empty", "set"}]
        /\ socket \in [Socket -> {"none", "unopened", "open", "closed"}]
        /\ read \in [Socket -> {"none", "first", "repeat"}]
        /\ wire \in [Socket -> {"nothing", "header", "whole"}]
        /\ left \in [Socket -> BOOLEAN]
    BY DEF Init
  <2>5. accepts \in Nat /\ starts \in 0..MaxStarts /\ disconnected \subseteq Socket
    BY <2>2 DEF Init
  <2>. QED
    BY <1>1, <2>1, <2>3, <2>4, <2>5 DEF Types
<1>4. Handlers
  BY <1>2 DEF Handlers, Idle, Handler
<1>5. OneHandler /\ DisconnectIsFinal
  BY <1>2 DEF Init, OneHandler, DisconnectIsFinal
<1>6. ListedOnce
  <2>1. DOMAIN clients = {}
    BY DEF Init
  <2>. QED
    BY <1>2, <2>1 DEF Init, ListedOnce, Listed, Idle
<1>7. OneAccept
  <2>1. Accepting = {}
    BY <1>2 DEF Accepting
  <2>. QED
    BY <2>1, FS_EmptySet DEF Init, OneAccept
<1>8. NotStarted /\ MapUse
  BY <1>2 DEF Init, NotStarted, MapUse
<1>. QED
  BY <1>3, <1>4, <1>5, <1>6, <1>7, <1>8 DEF Inv

LEMMA NextInv == Inv /\ [Next]_vars => Inv'
BY NextTypes, HandlersStep, ServesStep, OneAcceptStep, NotStartedStep, MapUseStep
   DEF Inv, Serves

LEMMA SpecInv == Spec => []Inv
BY InitInv, NextInv, PTL DEF Spec

\* Every variable keeps its type; no more accepts are outstanding than one
\* while the io_context runs, and than starts afterwards.
THEOREM ServerTypeCorrect == Spec => []TypeOK
<1>1. Inv => TypeOK
  <2> SUFFICES ASSUME Inv PROVE TypeOK
    OBVIOUS
  <2>1. accepts \in 0..(IF stopped THEN MaxStarts ELSE 1)
    BY AcceptingFinite, AsioConstants DEF Inv, OneAccept, Types
  <2>. QED
    BY <2>1 DEF Inv, Types, TypeOK, Actor
<1>. QED
  BY <1>1, SpecInv, PTL

\* A socket is read by one handler at a time, whatever thread runs it: what
\* asyncRead and repeatRead hand on keeps two handlers of one client apart.
THEOREM OneReadAlways == Spec => []OneReadPerSocket
<1>1. Inv => OneReadPerSocket
  <2> SUFFICES ASSUME Inv, NEW s \in Socket PROVE Cardinality(Chain(s)) <= 1
    BY DEF OneReadPerSocket
  <2>1. \A x, y \in Chain(s) : x = y
    BY DEF Inv, OneHandler, Chain
  <2>2. CASE Chain(s) = {}
    BY <2>2, FS_EmptySet
  <2>3. CASE Chain(s) # {}
    <3>1. PICK x \in Chain(s) : TRUE
      BY <2>3
    <3>2. Chain(s) = {x}
      BY <2>1, <3>1
    <3>3. Cardinality({x}) = 1
      BY FS_Singleton
    <3>. QED
      BY <3>2, <3>3
  <2>. QED
    BY <2>2, <2>3
<1>. QED
  BY <1>1, SpecInv, PTL

\* As long as the server runs and listens, one accept is outstanding or being
\* handled: continueAccept gives back what it was called for.
THEOREM AcceptAlwaysGoesOn == Spec => []AcceptGoesOn
<1>1. Inv => AcceptGoesOn
  BY DEF Inv, OneAccept, AcceptGoesOn, Accepting
<1>. QED
  BY <1>1, SpecInv, PTL

\* A client that is read from or in a callback is in clients exactly once: a
\* push_back comes before its first read, and clearClient after its last.
THEOREM ReadersAlwaysListed == Spec => []ReadersAreListed
<1>1. Inv => ReadersAreListed
  <2> SUFFICES ASSUME Inv, NEW s \in Socket,
                      read[s] # "none" \/ \E t \in Thread : at[t].sock = s /\ at[t].do \notin {"push", "failed"},
                      socket[s] # "unopened"
               PROVE  Cardinality({i \in DOMAIN clients : clients[i] = s}) = 1
    BY DEF ReadersAreListed
  <2>1. Listed(s)
    <3>1. CASE read[s] # "none"
      BY <3>1 DEF Inv, ListedOnce
    <3>2. ASSUME NEW t \in Thread, at[t].sock = s, at[t].do \notin {"push", "failed"} PROVE Listed(s)
      BY <3>2, AsioConstants DEF Inv, ListedOnce, Handlers
    <3>. QED
      BY <3>1, <3>2
  <2>2. PICK i \in DOMAIN clients : clients[i] = s
    BY <2>1 DEF Listed
  <2>3. {j \in DOMAIN clients : clients[j] = s} = {i}
    BY <2>2, AsioConstants DEF Inv, ListedOnce
  <2>. QED
    BY <2>3, FS_Singleton
<1>. QED
  BY <1>1, SpecInv, PTL

\* With the listeners added before the start and one for each type that comes,
\* the threads never race on the map of listeners.
THEOREM MapRacesAlwaysNeedCause == Spec => []MapRacesNeedCause
<1>1. Inv => MapRacesNeedCause
  <2> SUFFICES ASSUME Inv, NEW u \in Actor, at[u].map = "raced" PROVE Cause
    BY DEF MapRacesNeedCause, Cause, Inv, Types
  <2>1. CASE u = Main
    BY <2>1 DEF Inv, MapUse, Cause
  <2>2. CASE u \in Thread
    BY <2>2 DEF Inv, MapUse
  <2>. QED
    BY <2>1, <2>2 DEF Actor
<1>. QED
  BY <1>1, SpecInv, PTL
-----------------------------------------------------------------------------
(* What the application is told about each client. *)

\* Only an accepted connection can end, and so be searched for in clients.
EndsWereOpen ==
    /\ \A s \in Socket : left[s] => socket[s] \in {"open", "closed"}
    /\ \A t \in Thread : at[t].do = "find" => socket[at[t].sock] \in {"open", "closed"}

\* While a thread handles a client, what it does is what is said of the client.
HandledIs ==
    Serves => \A t \in Thread, s \in Socket : at[t].sock = s =>
        /\ Told(s) = IF s \in disconnected THEN "disconnection"
                     ELSE IF socket[s] = "unopened" \/ at[t].do = "push" THEN "nothing"
                     ELSE "connection"
        /\ Turn(s) = IF at[t].do = "push" THEN "unused"
                     ELSE IF at[t].do \in {"accepted", "message"} \cup Stopping THEN "callback"
                     ELSE IF at[t].do \in {"failed", "payload", "lookup", "find"} THEN "waiting"
                     ELSE "over"

\* A client that no thread handles is unused, awaits its next callback, or is over.
UnhandledIs ==
    \A s \in Socket : (\A t \in Thread : at[t].sock # s) =>
        /\ Told(s) = IF s \in disconnected THEN "disconnection"
                     ELSE IF socket[s] \in {"none", "unopened"} THEN "nothing"
                     ELSE "connection"
        /\ Turn(s) = IF socket[s] = "none" THEN "unused"
                     ELSE IF read[s] # "none" THEN "waiting"
                     ELSE "over"

LEMMA Handled == HandledIs
<1> SUFFICES ASSUME Serves, NEW t \in Thread, NEW s \in Socket, at[t].sock = s
             PROVE  /\ Told(s) = IF s \in disconnected THEN "disconnection"
                                 ELSE IF socket[s] = "unopened" \/ at[t].do = "push" THEN "nothing"
                                 ELSE "connection"
                    /\ Turn(s) = IF at[t].do = "push" THEN "unused"
                                 ELSE IF at[t].do \in {"accepted", "message"} \cup Stopping THEN "callback"
                                 ELSE IF at[t].do \in {"failed", "payload", "lookup", "find"}
                                      THEN "waiting"
                                 ELSE "over"
  BY DEF HandledIs
<1>1. /\ read[s] = "none" /\ socket[s] # "none"
      /\ \A u \in Thread \ {t} : at[u].sock # s
  BY DEF Serves, OneHandler
<1>2. \A dos : Within(s, dos) <=> at[t].do \in dos
  BY <1>1 DEF Within
<1>. QED
  BY <1>1, <1>2 DEF Told, Turn

LEMMA Unhandled == UnhandledIs
<1>1. \A s, dos : (\A t \in Thread : at[t].sock # s) => ~Within(s, dos)
  BY DEF Within
<1>. QED
  BY <1>1 DEF UnhandledIs, Told, Turn

LEMMA HandledNext == HandledIs'
BY Handled, PTL

LEMMA UnhandledNext == UnhandledIs'
BY Unhandled, PTL

\* A client whose handler and socket stay is told nothing.
LEMMA Untouched ==
    ASSUME NEW s \in Socket,
           socket'[s] = socket[s] \/ {socket[s], socket'[s]} \subseteq {"open", "closed"},
           read'[s] = read[s], s \in disconnected' <=> s \in disconnected,
           \A u \in Thread : s \in {at[u].sock, at'[u].sock} => Alike(u)
    PROVE  Told(s)' = Told(s) /\ Turn(s)' = Turn(s)
<1>1. \A dos \in {{"push"}, {"accepted", "message"} \cup Stopping,
                 {"failed", "payload", "lookup", "find"}} : Within(s, dos)' <=> Within(s, dos)
  BY DEF Within, Alike, Stopping
<1>. QED
  BY <1>1 DEF Told, Turn

\* The step of the session of s.
SessionGoes(s) == UNCHANGED Session(s)!session \/ Session(s)!Next

LEMMA GoesSo ==
    ASSUME NEW s \in Socket,
           \/ Told(s)' = Told(s) /\ Turn(s)' = Turn(s)
           \/ /\ Told(s) = "nothing" /\ Turn(s) = "unused"
              /\ \/ Told(s)' = "connection" /\ Turn(s)' = "callback"
                 \/ Told(s)' = "nothing" /\ Turn(s)' = "waiting"
           \/ /\ Told(s)' = Told(s)
              /\ \/ Turn(s) = "waiting" /\ Turn(s)' = "callback"
                 \/ Turn(s) = "callback" /\ Turn(s)' = "waiting"
           \/ /\ Told(s) = "connection" /\ Turn(s) = "waiting"
              /\ Told(s)' \in {"disconnection", "connection"} /\ Turn(s)' = "over"
    PROVE  SessionGoes(s)
BY DEF SessionGoes, Session!Next, Session!session, Session!Connect, Session!Fail, Session!Call,
       Session!Return, Session!Disconnect, Session!Miss

\* A step of thread t that is about s alone.
About(t, s) ==
    /\ \A r \in Socket \ {s} :
          socket'[r] = socket[r] /\ read'[r] = read[r] /\ (r \in disconnected' <=> r \in disconnected)
    /\ \A u \in Thread \ {t} : Same(u)
    /\ {at[t].sock, at'[t].sock} \subseteq {s, None}

LEMMA OthersUntouched ==
    ASSUME NEW t \in Thread, NEW s \in Socket, About(t, s), SessionGoes(s)
    PROVE  \A r \in Socket : SessionGoes(r)
<1>1. ASSUME NEW r \in Socket \ {s} PROVE SessionGoes(r)
  <2>1. Told(r)' = Told(r) /\ Turn(r)' = Turn(r)
    BY AsioConstants, Untouched DEF About, Same, Alike
  <2>. QED
    BY <2>1, GoesSo
<1>. QED
  BY <1>1

\* The accept: an announced client waits for onNewConnection, a failed one for its first error.
LEMMA acceptGoes ==
    ASSUME Serves, Serves', NEW t \in Thread, NEW s \in Socket, acceptCompletes(t, s)
    PROVE  \A r \in Socket : SessionGoes(r)
<1>1. /\ at'[t].sock = s /\ at'[t].do \in {"push", "failed"}
      /\ \A u \in Thread \ {t} : Same(u)
  BY acceptTypes DEF Serves, Moves, Actor, Keeps
<1>2. /\ UNCHANGED <<read, disconnected>> /\ socket[s] = "none" /\ at[t].sock = None
      /\ \A r \in Socket \ {s} : socket'[r] = socket[r]
  BY DEF acceptCompletes, Ready, history, Serves, Types, Handlers, Idle
<1>3. /\ at'[t].do = "push" => socket'[s] = "open"
      /\ at'[t].do = "failed" => socket'[s] = "unopened"
  BY <1>1 DEF Serves, ListedOnce
<1>4. s \notin disconnected /\ \A u \in Thread : at[u].sock # s
  BY <1>2 DEF Serves, OneHandler
<1>5. Told(s) = "nothing" /\ Turn(s) = "unused"
  BY <1>2, <1>4, Unhandled DEF UnhandledIs
<1>6. \/ Told(s)' = "nothing" /\ Turn(s)' = "unused"
      \/ Told(s)' = "nothing" /\ Turn(s)' = "waiting"
  BY <1>1, <1>2, <1>3, <1>4, HandledNext DEF HandledIs, Stopping
<1>7. SessionGoes(s)
  BY <1>5, <1>6, GoesSo
<1>8. About(t, s)
  BY <1>1, <1>2 DEF About
<1>. QED
  BY <1>7, <1>8, OthersUntouched

\* The header has arrived or not.
LEMMA asyncReadGoes ==
    ASSUME Serves, Serves', NEW t \in Thread, NEW s \in Socket, asyncRead(t, s)
    PROVE  \A r \in Socket : SessionGoes(r)
<1>1. /\ at'[t].sock = s /\ at'[t].do \in {"payload", "find", "message"}
      /\ \A u \in Thread \ {t} : Same(u)
  BY asyncReadTypes DEF Serves, Moves, Actor, Keeps
<1>2. /\ UNCHANGED <<socket, disconnected>> /\ read[s] # "none" /\ at[t].sock = None
      /\ \A r \in Socket \ {s} : read'[r] = read[r]
  <2>1. UNCHANGED <<socket, disconnected>> /\ read[s] # "none" /\ at[t].do = "idle"
        /\ read' = [read EXCEPT ![s] = "none"]
    BY Zenon DEF asyncRead, Ready, history
  <2>. QED
    BY <2>1 DEF Serves, Types, Handlers, Idle
<1>3. socket[s] # "none" /\ \A u \in Thread : at[u].sock # s
  BY <1>2 DEF Serves, OneHandler
<1>4. Turn(s) = "waiting"
      /\ Told(s) = IF s \in disconnected THEN "disconnection"
                   ELSE IF socket[s] = "unopened" THEN "nothing" ELSE "connection"
  BY <1>2, <1>3, Unhandled DEF UnhandledIs
<1>5. Turn(s)' \in {"waiting", "callback"}
      /\ Told(s)' = IF s \in disconnected THEN "disconnection"
                    ELSE IF socket[s] = "unopened" THEN "nothing" ELSE "connection"
  BY <1>1, <1>2, HandledNext DEF HandledIs, Stopping
<1>6. SessionGoes(s)
  BY <1>4, <1>5, GoesSo
<1>7. About(t, s)
  BY <1>1, <1>2 DEF About
<1>. QED
  BY <1>6, <1>7, OthersUntouched

\* Thread t goes on with its client, which is told no end by that.
LEMMA handlerGoes ==
    ASSUME Serves, Serves', NEW t \in Thread,
           \/ onNewConnection(t) \/ readPayload(t) \/ recievedMessage(t)
    PROVE  \A r \in Socket : SessionGoes(r)
<1> DEFINE s == at[t].sock
<1>1. at[t].do \in {"push", "payload", "lookup"} /\ UNCHANGED <<socket, read, disconnected>>
  BY DEF onNewConnection, readPayload, recievedMessage, netVars, history
<1>2. s \in Socket /\ socket[s] # "none" /\ s \notin disconnected
  BY <1>1, Holds DEF Idle, Serves, DisconnectIsFinal
<1>3. /\ at'[t].sock = s /\ \A u \in Thread \ {t} : Same(u)
      /\ at'[t].do \in IF at[t].do = "push" THEN {"accepted"} ELSE {"lookup", "find", "message"}
  <2>1. CASE onNewConnection(t)
    BY <2>1, pushTypes DEF Serves, Moves, Actor, Keeps, onNewConnection
  <2>2. CASE readPayload(t)
    BY <2>2, readPayloadTypes DEF Serves, Moves, Actor, Keeps, readPayload
  <2>3. CASE recievedMessage(t)
    BY <2>3, messageTypes DEF Serves, Moves, Actor, Keeps, recievedMessage
  <2>. QED
    BY <2>1, <2>2, <2>3
<1>4. at[t].do = "push" => socket[s] = "open"
  BY DEF Serves, ListedOnce
<1>5. PICK r \in Socket : r = s
  BY <1>2
<1>6. /\ Told(r) = IF socket[r] = "unopened" \/ at[t].do = "push" THEN "nothing" ELSE "connection"
      /\ Turn(r) = IF at[t].do = "push" THEN "unused" ELSE "waiting"
  BY <1>1, <1>2, <1>5, Handled DEF HandledIs, Stopping
<1>7. /\ Told(r)' = IF socket[r] = "unopened" THEN "nothing" ELSE "connection"
      /\ Turn(r)' = IF at'[t].do \in {"accepted", "message"} THEN "callback" ELSE "waiting"
  BY <1>1, <1>2, <1>3, <1>5, HandledNext DEF HandledIs, Stopping
<1>8. SessionGoes(r)
  BY <1>1, <1>3, <1>4, <1>5, <1>6, <1>7, GoesSo
<1>9. About(t, r)
  BY <1>1, <1>3, <1>5 DEF About
<1>. QED
  BY <1>8, <1>9, OthersUntouched

\* The callbacks return and the next read is started, or the handler of an end is done.
LEMMA idleGoes ==
    ASSUME Serves, Serves', NEW t \in Thread,
           continueAccept(t) \/ repeatRead(t) \/ clearClient(t)
    PROVE  \A r \in Socket : SessionGoes(r)
<1> DEFINE s == at[t].sock
<1>1. at[t].do \in {"accepted", "failed", "message", "null"} /\ UNCHANGED <<socket, disconnected>>
  BY DEF continueAccept, repeatRead, clearClient, netVars, history
<1>2. /\ s \in Socket /\ socket[s] # "none" /\ read[s] = "none" /\ s # None
      /\ \A u \in Thread \ {t} : at[u].sock # s
  BY <1>1, Holds DEF Idle
<1>3. at'[t].sock = None /\ \A u \in Thread \ {t} : Same(u)
  BY idleTypes DEF Serves, Moves, Actor, Keeps
<1>4. /\ \A q \in Socket \ {s} : read'[q] = read[q]
      /\ read'[s] = "none" <=> at[t].do = "null"
  BY <1>2 DEF continueAccept, repeatRead, clearClient, netVars, Serves, Types
<1>5. PICK r \in Socket : r = s
  BY <1>2
<1>6. \A u \in Thread : at'[u].sock # r
  BY <1>2, <1>3, <1>5 DEF Same
<1>7. /\ Told(r) = IF r \in disconnected THEN "disconnection"
                   ELSE IF socket[r] = "unopened" THEN "nothing" ELSE "connection"
      /\ Turn(r) = IF at[t].do \in {"accepted", "message"} THEN "callback"
                   ELSE IF at[t].do = "failed" THEN "waiting" ELSE "over"
  BY <1>1, <1>2, <1>5, Handled DEF HandledIs, Stopping
<1>8. /\ Told(r)' = IF r \in disconnected THEN "disconnection"
                    ELSE IF socket[r] = "unopened" THEN "nothing" ELSE "connection"
      /\ Turn(r)' = IF at[t].do = "null" THEN "over" ELSE "waiting"
  BY <1>1, <1>2, <1>4, <1>5, <1>6, UnhandledNext DEF UnhandledIs
<1>9. SessionGoes(r)
  BY <1>1, <1>7, <1>8, GoesSo
<1>10. About(t, r)
  BY <1>1, <1>3, <1>4, <1>5 DEF About
<1>. QED
  BY <1>9, <1>10, OthersUntouched

\* onDisconnect is called, or the end is missed.
LEMMA disconnectGoes ==
    ASSUME Serves, Serves', EndsWereOpen, NEW t \in Thread, handleDisconnection(t)
    PROVE  \A r \in Socket : SessionGoes(r)
<1> DEFINE s == at[t].sock
<1>1. /\ at[t].do = "find" /\ UNCHANGED read
      /\ socket[s] \in {"open", "closed"}
  BY DEF handleDisconnection, EndsWereOpen
<1>2. /\ s \in Socket /\ read[s] = "none" /\ s # None /\ s \notin disconnected
      /\ \A u \in Thread \ {t} : at[u].sock # s
  BY <1>1, Holds DEF Idle, Serves, DisconnectIsFinal
<1>3. /\ \A u \in Thread \ {t} : Same(u)
      /\ \A q \in Socket \ {s} :
            socket'[q] = socket[q] /\ (q \in disconnected' <=> q \in disconnected)
      /\ \/ /\ at'[t].do = "null" /\ at'[t].sock = s
            /\ s \in disconnected' /\ socket'[s] = "closed"
         \/ at'[t].sock = None /\ UNCHANGED <<socket, disconnected>>
  <2>1. CASE Moves(t, {"idle"}, None) /\ UNCHANGED <<socket, disconnected>>
    BY <2>1 DEF Moves, Actor, Keeps
  <2>2. CASE /\ Moves(t, {"null"}, s) /\ Listed(s) /\ disconnected' = disconnected \cup {s}
             /\ socket' = [socket EXCEPT ![s] = "closed"]
    BY <1>2, <2>2 DEF Moves, Actor, Keeps, Serves, Types
  <2>. QED
    BY <2>1, <2>2, disconnectTypes DEF Serves
<1>4. PICK r \in Socket : r = s
  BY <1>2
<1>5. Told(r) = "connection" /\ Turn(r) = "waiting"
  BY <1>1, <1>2, <1>4, Handled DEF HandledIs, Stopping
<1>6. Told(r)' \in {"disconnection", "connection"} /\ Turn(r)' = "over"
  <2>1. CASE at'[t].do = "null" /\ at'[t].sock = r /\ r \in disconnected'
    BY <2>1, HandledNext DEF HandledIs, Stopping
  <2>2. CASE at'[t].sock = None /\ UNCHANGED <<socket, disconnected>>
    <3>1. \A u \in Thread : at'[u].sock # r
      BY <1>2, <1>3, <1>4, <2>2 DEF Same
    <3>. QED
      BY <1>1, <1>2, <1>4, <2>2, <3>1, UnhandledNext DEF UnhandledIs
  <2>. QED
    BY <1>3, <1>4, <2>1, <2>2
<1>7. SessionGoes(r)
  BY <1>5, <1>6, GoesSo
<1>8. About(t, r)
  BY <1>1, <1>3, <1>4 DEF About
<1>. QED
  BY <1>7, <1>8, OthersUntouched

LEMMA SessionsStep ==
    ASSUME Serves, EndsWereOpen, [Next]_vars PROVE \A s \in Socket : SessionGoes(s)
<1>1. Serves'
  BY ServesStep, NextTypes, HandlersStep DEF Serves
<1>2. ASSUME Undisturbed, NEW s \in Socket PROVE SessionGoes(s)
  <2>1. socket'[s] = socket[s] \/ {socket[s], socket'[s]} \subseteq {"open", "closed"}
    BY <1>2 DEF Undisturbed, Serves, ListedOnce
  <2>2. Told(s)' = Told(s) /\ Turn(s)' = Turn(s)
    BY <1>2, <2>1, Untouched DEF Undisturbed
  <2>. QED
    BY <2>2, GoesSo
<1>3. CASE Beside
  BY <1>2, <1>3, BesideUndisturbed DEF Serves
<1>4. ASSUME NEW t \in Thread, runReturns(t) PROVE \A s \in Socket : SessionGoes(s)
  <2>1. /\ at[t].sock = None /\ at'[t].sock = None /\ \A u \in Thread \ {t} : Same(u)
        /\ UNCHANGED <<socket, read, disconnected>>
    BY <1>4, runReturnsTypes DEF runReturns, Serves, Handlers, Idle, Moves, Actor, Keeps, netVars, history
  <2>2. ASSUME NEW s \in Socket PROVE Told(s)' = Told(s) /\ Turn(s)' = Turn(s)
    BY <2>1, Untouched, AsioConstants DEF Same, Alike
  <2>. QED
    BY <2>2, GoesSo
<1>5. CASE UNCHANGED vars
  BY <1>2, <1>5 DEF Undisturbed, Alike, vars, netVars, history
<1>. QED
  BY <1>1, <1>3, <1>4, <1>5, NextCases, acceptGoes, asyncReadGoes, handlerGoes, idleGoes, disconnectGoes

\* A read that ended has ended an accepted connection.
LEMMA EndFound ==
    ASSUME Serves, EndsWereOpen, NEW t \in Thread, NEW s \in Socket,
           asyncRead(t, s) \/ (readPayload(t) /\ at[t].sock = s), at'[t].do = "find"
    PROVE  socket[s] \in {"open", "closed"}
<1>1. \A type \in Type, first \in BOOLEAN :
         ~Continue(t, [Doing("payload", s) EXCEPT !.first = first, !.type = type])
  BY DEF Serves, Types, Actor, Continue, Doing
<1>2. \A type, how : ~Access(t, [Doing("lookup", s) EXCEPT !.type = type], how)
  BY DEF Serves, Types, Actor, Access, Doing
<1>3. \A first : ~Continue(t, AfterRead(s, first, FALSE))
  BY DEF Serves, Types, Actor, Continue, AfterRead, Doing
<1>4. Fails(s, TRUE)
  <2>1. CASE asyncRead(t, s)
    <3>1. (read[s] = "first") \in BOOLEAN
      OBVIOUS
    <3>2. PICK ended \in BOOLEAN :
              Fails(s, ended) /\ Continue(t, AfterRead(s, read[s] = "first", ended))
      BY <1>1, <2>1, <3>1 DEF asyncRead
    <3>. QED
      BY <1>3, <3>2
  <2>2. CASE readPayload(t) /\ at[t].sock = s
    <3>1. PICK ended \in BOOLEAN :
              Fails(s, ended) /\ Continue(t, AfterRead(s, at[t].first, ended))
      BY <1>2, <2>2 DEF readPayload
    <3>. QED
      BY <1>3, <3>1
  <2>. QED
    BY <2>1, <2>2
<1>. QED
  BY <1>4 DEF Fails, EndsWereOpen

LEMMA EndsStep == ASSUME Serves, EndsWereOpen, [Next]_vars PROVE EndsWereOpen'
<1>1. \A s \in Socket : left'[s] => left[s] \/ socket[s] = "open"
  <2>1. ASSUME NEW s \in Socket, remoteLeaves(s)
        PROVE  \A r \in Socket : left'[r] => left[r] \/ socket[r] = "open"
    BY <2>1 DEF remoteLeaves, Serves, Types
  <2>2. CASE UNCHANGED left
    BY <2>2
  <2>3. UNCHANGED left \/ \E s \in Socket : remoteLeaves(s)
    BY Zenon DEF Next, remoteSends, acceptCompletes, asyncRead, onNewConnection, continueAccept, readPayload,
         recievedMessage, repeatRead, handleDisconnection, clearClient, callbackThrows, runReturns,
         sendBegins, sendEnds, listenBegins, listenEnds, startServer, destroyed, stopBegins,
         stopCloses, stopContext, stopJoins, netVars, vars
  <2>. QED
    BY <2>1, <2>2, <2>3
<1>2. ASSUME \A s \in Socket : socket[s] \in {"open", "closed"} => socket'[s] \in {"open", "closed"},
             \A t \in Thread : at'[t].do = "find" =>
                at'[t].sock \in Socket /\ socket[at'[t].sock] \in {"open", "closed"}
      PROVE  EndsWereOpen'
  BY <1>1, <1>2 DEF EndsWereOpen
<1>3. \A t \in Thread : at[t].do = "find" =>
         at[t].sock \in Socket /\ socket[at[t].sock] \in {"open", "closed"}
  BY Holds DEF EndsWereOpen, Idle
<1>4. ASSUME Undisturbed PROVE EndsWereOpen'
  BY <1>2, <1>3, <1>4 DEF Undisturbed, Alike, Stopping
<1>5. CASE Beside
  BY <1>4, <1>5, BesideUndisturbed DEF Serves
<1>6. CASE UNCHANGED vars
  BY <1>4, <1>6 DEF Undisturbed, Alike, vars, netVars, history
<1>7. ASSUME NEW t \in Thread, NEW s \in Socket, acceptCompletes(t, s) PROVE EndsWereOpen'
  <2>1. at'[t].do # "find" /\ \A u \in Thread \ {t} : Same(u)
    BY <1>7, acceptTypes DEF Serves, Moves, Actor, Keeps
  <2>2. \A r \in Socket : socket[r] = "none" \/ socket'[r] = socket[r]
    BY <1>7 DEF acceptCompletes, Serves, Types
  <2>. QED
    BY <1>2, <1>3, <2>1, <2>2 DEF Same
<1>8. ASSUME NEW t \in Thread, NEW s \in Socket, asyncRead(t, s) PROVE EndsWereOpen'
  <2>1. at'[t].sock = s /\ \A u \in Thread \ {t} : Same(u)
    BY <1>8, asyncReadTypes DEF Serves, Moves, Actor, Keeps
  <2>2. UNCHANGED socket /\ (at'[t].do = "find" => socket[s] \in {"open", "closed"})
    BY <1>8, EndFound DEF asyncRead
  <2>. QED
    BY <1>2, <1>3, <2>1, <2>2 DEF Same
<1>9. ASSUME NEW t \in Thread, readPayload(t) PROVE EndsWereOpen'
  <2>1. at'[t].sock = at[t].sock /\ at[t].sock \in Socket /\ \A u \in Thread \ {t} : Same(u)
    BY <1>9, readPayloadTypes DEF Serves, Moves, Actor, Keeps
  <2>2. UNCHANGED socket /\ (at'[t].do = "find" => socket[at[t].sock] \in {"open", "closed"})
    BY <1>9, <2>1, EndFound DEF readPayload
  <2>. QED
    BY <1>2, <1>3, <2>1, <2>2 DEF Same
<1>10. ASSUME NEW t \in Thread,
              \/ onNewConnection(t) \/ continueAccept(t) \/ recievedMessage(t)
              \/ repeatRead(t) \/ clearClient(t) \/ runReturns(t)
       PROVE  EndsWereOpen'
  <2>1. at'[t].do # "find" /\ \A u \in Thread \ {t} : Same(u)
    BY <1>10, pushTypes, idleTypes, messageTypes, runReturnsTypes DEF Serves, Moves, Actor, Keeps
  <2>2. UNCHANGED socket
    BY <1>10 DEF onNewConnection, continueAccept, recievedMessage, repeatRead, clearClient, runReturns, netVars
  <2>. QED
    BY <1>2, <1>3, <2>1, <2>2 DEF Same
<1>11. ASSUME NEW t \in Thread, handleDisconnection(t) PROVE EndsWereOpen'
  <2>1. at'[t].do # "find" /\ \A u \in Thread \ {t} : Same(u)
    BY <1>11, disconnectTypes DEF Serves, Moves, Actor, Keeps
  <2>2. \A r \in Socket : socket'[r] \in {socket[r], "closed"}
    BY <1>11 DEF handleDisconnection, Serves, Types
  <2>. QED
    BY <1>2, <1>3, <2>1, <2>2 DEF Same
<1>. QED
  BY <1>5, <1>6, <1>7, <1>8, <1>9, <1>10, <1>11, NextCases

\* Whatever threads its handlers run on, the application is told about each
\* client as ClientSession says: after onNewConnection of its messages, one
\* callback at a time, and of nothing after onDisconnect.
THEOREM SessionsKept == Spec => SessionsSpec
<1>1. Init => EndsWereOpen /\ \A s \in Socket : Session(s)!Init
  <2> SUFFICES ASSUME Init PROVE EndsWereOpen /\ \A s \in Socket : Session(s)!Init
    OBVIOUS
  <2>1. \A t \in Thread : at[t].do = "idle" /\ at[t].sock = None
    BY AsioConstants DEF Init, Doing
  <2>2. \A s \in Socket : Told(s) = "nothing" /\ Turn(s) = "unused"
    BY <2>1, Unhandled, AsioConstants DEF UnhandledIs, Init
  <2>. QED
    BY <2>1, <2>2 DEF EndsWereOpen, Init, Session!Init, Session!session
<1>2. Inv => Serves
  BY DEF Inv, Serves
<1>3. Inv /\ EndsWereOpen /\ [Next]_vars => EndsWereOpen'
  BY <1>2, EndsStep
<1>4. Inv /\ EndsWereOpen /\ [Next]_vars
          => [\A s \in Socket : UNCHANGED Session(s)!session \/ Session(s)!Next]_vars
  BY <1>2, SessionsStep DEF SessionGoes
<1>. QED
  BY <1>1, <1>3, <1>4, SpecInv, PTL DEF Spec, SessionsSpec
-----------------------------------------------------------------------------
(* The sample game. *)

AllExited == \A t \in Thread : at[t].do = "exited"

\* How runServer comes to its end: by a failed listen, before the server
\* listens, or by stopServer, after which no thread and no server is left.
EndInv ==
    /\ pc = "thrown" => ~listening
    /\ pc = "return" => ~isRunning /\ AllExited /\ at[Main].do = "app"
    /\ pc = "end" /\ listening => ~crashed /\ AllExited /\ at[Main].do = "gone"

\* The game does with the server only what a program may do.
LEMMA GameSteps == [GameNext]_gameVars => [Next]_vars
<1>1. ASSUME ~crashed, NEW s \in Socket, remote(s) PROVE Next
  BY <1>1 DEF remote, Next
<1>2. ASSUME ~crashed, NEW t \in Thread, io(t) PROVE Next
  BY <1>2 DEF io, textListener, stopListener, noListener, Next
<1>3. ASSUME ~crashed, runServer PROVE Next
  <2>1. Main \in Thread \cup {Main}
    OBVIOUS
  <2>2. CASE start \/ uncaught \/ spin \/ stopping \/ return
    BY <1>3, <2>2 DEF start, uncaught, spin, stopping, return, Next
  <2>3. CASE listen
    <3>1. 1 \in Type /\ 2 \in Type
      BY GameTypes
    <3>. QED
      BY <1>3, <2>1, <2>3, <3>1 DEF listen, Next
  <2>. QED
    BY <1>3, <2>2, <2>3 DEF runServer
<1>4. gameVars' = gameVars => vars' = vars
  BY DEF gameVars
<1>. QED
  BY <1>1, <1>2, <1>3, <1>4 DEF GameNext

\* The sample game is a program on a server of LNetLibrary: what is proved of
\* the server holds in the game.
THEOREM GameRunsServer == GameSpec => Spec
<1>1. GameInit => Init
  BY DEF GameInit
<1>. QED
  BY <1>1, GameSteps, PTL DEF GameSpec, Spec

\* A thread that has left run handles nothing more.
LEMMA ExitedIsIdle ==
    ASSUME AllExited, NEW t \in Thread PROVE ~io(t)
<1>1. at[t].do = "exited"
  BY DEF AllExited
<1>2. (~callbackThrows(t) /\ ~repeatRead(t)) \/ t = Main
  BY <1>1 DEF callbackThrows, InApp, repeatRead
<1>3. \A s \in Socket : ~asyncRead(t, s) /\ ~acceptCompletes(t, s)
  BY <1>1, Zenon DEF asyncRead, acceptCompletes, Ready
<1>4. /\ ~onNewConnection(t) /\ ~continueAccept(t) /\ ~readPayload(t) /\ ~recievedMessage(t)
      /\ ~handleDisconnection(t) /\ ~clearClient(t) /\ ~runReturns(t)
  BY <1>1 DEF onNewConnection, continueAccept, readPayload, recievedMessage, handleDisconnection,
              clearClient, runReturns
<1>5. t # Main
  BY AsioConstants
<1>. QED
  BY <1>2, <1>3, <1>4, <1>5 DEF io, textListener, stopListener, noListener

LEMMA EndStep == ASSUME Types, EndInv, [GameNext]_gameVars PROVE EndInv'
<1>1. CASE UNCHANGED gameVars
  BY <1>1 DEF EndInv, AllExited, gameVars, game, vars, context
<1>2. ASSUME NEW s \in Socket, remote(s) PROVE EndInv'
  BY <1>2 DEF EndInv, AllExited, remote, remoteSends, remoteLeaves, context, game
<1>3. ASSUME NEW t \in Thread, io(t), ~crashed PROVE EndInv'
  <2>1. pc' = pc
    BY <1>3 DEF io, textListener, stopListener, noListener, game
  <2>2. ~AllExited
    BY <1>3, ExitedIsIdle
  <2>3. UNCHANGED listening
    BY <1>3, Zenon DEF io, textListener, stopListener, noListener, callbackThrows, repeatRead,
         asyncRead, acceptCompletes, onNewConnection, continueAccept, readPayload, recievedMessage,
         handleDisconnection, clearClient, runReturns, context
  <2>. QED
    BY <2>1, <2>2, <2>3 DEF EndInv
<1>4. CASE start
  BY <1>4 DEF start, Goes, EndInv
<1>5. CASE uncaught
  BY <1>5 DEF uncaught, Goes, destroyed, context, EndInv
<1>6. CASE listen
  BY <1>6 DEF listen, Goes, game, EndInv
<1>7. CASE spin
  BY <1>7 DEF spin, Goes, EndInv
<1>8. CASE stopCloses(Main) /\ UNCHANGED pc
  BY <1>8 DEF stopCloses, context, EndInv
<1>9. CASE stopContext(Main) /\ UNCHANGED pc
  BY <1>9 DEF stopContext, EndInv
<1>10. CASE stopJoins /\ Goes("stopServer", "return")
  <2>1. /\ at' = [at EXCEPT ![Main] = Doing("app", None)] /\ AllExited /\ isRunning' = FALSE
        /\ pc' = "return"
    BY <1>10 DEF stopJoins, Continue, AllExited, Goes
  <2>2. at'[Main].do = "app" /\ \A t \in Thread : at'[t] = at[t]
    BY <2>1, AsioConstants DEF Types, Actor, Doing
  <2>. QED
    BY <2>1, <2>2 DEF EndInv, AllExited
<1>11. CASE return
  <2>1. /\ at' = [at EXCEPT ![Main] = Doing("gone", None)] /\ pc' = "end"
        /\ AllExited /\ ~isRunning
        /\ crashed' = ~(~isRunning /\ \A t \in Thread : at[t].do = "exited")
    BY <1>11 DEF return, destroyed, Continue, Goes, EndInv
  <2>2. at'[Main].do = "gone" /\ \A t \in Thread : at'[t] = at[t]
    BY <2>1, AsioConstants DEF Types, Actor, Doing
  <2>3. ~crashed'
    BY <2>1 DEF AllExited
  <2>. QED
    BY <2>1, <2>2, <2>3 DEF EndInv, AllExited
<1>. QED
  BY <1>1, <1>2, <1>3, <1>4, <1>5, <1>6, <1>7, <1>8, <1>9, <1>10, <1>11
     DEF GameNext, runServer, stopping, game

\* A sample game that could listen does not die of its end: when stopServer
\* has returned, isRunning is cleared and every thread is joined.
THEOREM EndsAlwaysCleanly == GameSpec => []EndsCleanly
<1>1. GameInit => Init /\ EndInv
  BY DEF GameInit, EndInv
<1>2. GameSpec => []Inv
  BY GameRunsServer, SpecInv, PTL
<1>3. Inv /\ EndInv /\ [GameNext]_gameVars => EndInv'
  BY EndStep DEF Inv
<1>4. EndInv => EndsCleanly
  BY DEF EndInv, EndsCleanly
<1>. QED
  BY <1>1, <1>2, <1>3, <1>4, GameSteps, PTL DEF GameSpec
=============================================================================
