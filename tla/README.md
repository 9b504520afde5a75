# LNet in TLA+

LNet is a small C++ networking library. The repository holds two of them:
**LNetStream** (`src/LNetStream`), a server and a client on top of ENet, with a
demo program, and **LNetLibrary** (`src/LNetLibrary`), an older server and
client on top of asio, with a sample game. `src/Server` is an empty program.
This directory models them in TLA+, checks the models with TLC and proves the
main facts about the servers, the clients, the messages and their framing with
TLAPS, for every value of the constants.

## 1. Inventory

| Part | State | Operations | Talks to |
|---|---|---|---|
| `LNetStream::Server` | `host`, `clients` (ID to peer), `possibleIDs` (queue), `currentClientID`, `messageCallbacks` | `listen`, `tick` (`handleConnect`, `handleDisconnect`, `handleReceive`), `terminate`, `set/removeMessageCallback`, eight send functions | ENet (calls), the application (callbacks from inside `tick`) |
| `LNetStream::Client` | `host`, `connection`, `messageCallbacks` (never filled) | `connect`, `tick`, `terminate`, `send*`, `flush`, `isConnected` | ENet |
| `LNetStream::Message` | `payload`, `readPosition`, `identifier`, `isReliable` | `<<`, `>>`, `toNetworkBuffer`, constructors from bytes, `reset`, setters | endian handler, server, client |
| `LNetEndiannessHandler` | the static `bigEndian` | `toNetworkEndian`, `fromNetworkEndian`, `swapEndian` | `Message` |
| ENet as a shared resource | number of initialisations | `enet_initialize` in both constructors, `enet_deinitialize` in both `terminate` | all servers and clients of a program |
| `Source.cpp` | `isRunning`, three threads | `main`, server loop, client loop | one server, one client |
| `LNetLibrary::Server` | `clients` (vector of sockets), `msgCallbacks`, `isRunning`, io threads | accept loop, read loop, disconnect, `startServer`, `stopServer`, `addMsgListener`, send functions | asio, several threads |
| `LNetLibrary::Client`, `Connection` | `connection`, `isConnected`, `msgCallbacks`, io threads | `connect`, read loop, `addMsgListener`, `sendTCP`, `disconnect` | asio, several threads |
| `TCP`, `UDP` | none | `asyncSend`, `asyncRead`: header of 8 bytes, payload | asio, `Message` |
| `LNetLibrary::Message` | header with `type` and `size`, payload, `readPosition` | `<<`, `>>`, `setMsgSize`, `clear`, `toConstBuffers`, constructors from bytes | endian handler, framing |
| `sample_game.cpp` | its flag `isRunning` | `runServer`; `runClient`, which nothing calls | one asio server |

What is hard in this code, and what would make it correct:

- **Server.** Client IDs are kept twice (map and `peer->data`) and recycled
  through a queue, while ENet recycles peer slots on its own. Correct means:
  the two agree, no ID is lost or shared, and an ID an application has
  remembered goes on naming the same client. Callbacks run inside the event
  loop and may terminate or restart the server under it.
- **Client.** A raw pointer that is uninitialised before `connect` and dangling
  after `terminate`. Correct means: with a host there is a peer behind it.
- **Message.** One cursor, several kinds of items, partly read messages sent
  on, `reset` that keeps the cursor. Correct means: what is read is what was
  written.
- **ENet.** Initialisation is counted by ENet and undone by more calls than
  made it. Correct means: nobody has a host while ENet is shut down.
- **Demo.** Three threads and one flag. Correct means: no thread uses what is
  not there, and the program ends.
- **Asio server.** Two containers without a lock, shared by io threads; read
  loops that restart on errors; stopping while handlers run. Correct means: one
  read per socket, one accept, nobody read after a disconnect, and a client that
  is read can be found.
- **Asio client.** One owning pointer that the program clears and replaces
  while io threads use it. Correct means: one read loop per connection, no use of
  a destroyed one, and `disconnect` comes to an end.
- **Framing.** A size kept beside the payload and trusted by the receiver,
  several writers on one stream, two receives per datagram. Correct means: what is
  handed over is what was sent, in order.
- **Sample game.** A flag cleared on one thread and awaited on another. Correct
  means: a stop message ends the program.

The hazards, each at its line, are the `hazards` of `PROJECT.json`.

## 2. Modules

```
ClientRegistry          what a server promises about IDs (abstract)
    ^ implemented by
StreamServer            LNetServer.{hpp,cpp}          StreamClient   LNetClient.{hpp,cpp}
    ^ EXTENDS               ^ INSTANCE                    ^ EXTENDS
    |                       +---------- StreamDemo -------+   Source.cpp
MCStreamServer (TLC: symmetry)

EnetLibrary   enet_initialize/deinitialize of all objects

ByteOrder     LNetEndianHandler, of both libraries
    ^ EXTENDS                      ^ EXTENDS
StreamMessage                  AsioMessage   LNetLibrary/LNetMessage.hpp
    ^                              ^
MCStreamMessage (TLC: usages)  AsioFraming   LNetTCP.hpp, LNetUDP.hpp
                                   |    ^
                                   |    MCAsioFraming (TLC: items)
                                   v implements, on TCP
                               MessageChannel    whole messages in order (abstract)

ClientSession           what a server tells about a client (abstract)
    ^ implemented by
AsioServer    LNetLibrary/LNetServer.hpp     AsioClient   LNetClient.hpp, LNetConnection.hpp
    ^                ^
MCAsioServer     SampleGame   sample_game.cpp
(TLC: symmetry)
```

The theorems about a component are in a module of their own that extends it:

```
StreamServerProofs   EXTENDS StreamServer            EnetLibraryProofs  EXTENDS EnetLibrary
StreamDemoProofs     EXTENDS StreamDemo              AsioServerProofs   EXTENDS SampleGame
ByteOrderProofs      EXTENDS ByteOrder               AsioClientProofs   EXTENDS AsioClient
StreamMessageProofs  EXTENDS StreamMessage, ByteOrderProofs
AsioFramingProofs    EXTENDS AsioFraming, ByteOrderProofs
```

`StreamDemoProofs` is also about `StreamClient`, which the demo extends, and uses the
theorems of `StreamServerProofs` for the server of the demo.

### StreamServer

The variables `host`, `clients`, `possibleIDs`, `currentClientID` and
`messageCallbacks` are the members of the class. `state`, `data`, `inbox` and
`outbox` are what ENet keeps for each peer slot: connection state, the user
pointer, packets received and packets queued. `pc` says whether the thread is in
the application, in the loop of `tick`, in a callback, or dead; `call` is the
callback that runs. `listens`, `connects`, `idBase`, `session` and `learned` are
history: the first two bound the model, `idBase` is the counter when the host
was made, `session` numbers the connections, `learned` is every ID a callback
gave to the application and the session it was given for. No guard of a server
action reads them except the bounds; the application uses `learned` as its
memory, because an application gets IDs from callbacks and nowhere else.

Each function of the class is an action of the same name. A tick is `tick`, any
number of `handleConnect`, `handleDisconnect`, `handleReceive`, and
`tickReturns`; between the events control is inside `enet_host_service`, which is
the only place where ENet changes its peers (`EnetConnect`, `EnetDisconnect`,
`EnetReceive`, `EnetSend`). While a callback runs (`pc = "callback"`) the
application may call every function but `tick`; then `callbackReturns`, or
`callbackThrows` and the rest of the tick is skipped. `"crashed"` stands for what
the code does through a null pointer: `enet_host_service(nullptr)`, a send to an
ID that is not in the map, a broadcast without a host. A callback that replaces
or removes itself destroys the running closure; the model goes on or crashes
(`Replace`).

ENet is not in the repository except for its headers. It is modelled as its
documentation and its use here say: a peer gets a DISCONNECT event only if its
CONNECT event was taken; `enet_peer_disconnect` and a timeout drop the queues; a
peer slot may be taken again only after its DISCONNECT event; the user pointer
is never cleared by ENet.

`ByteRange` stands for 256, the number of values of the `LNetByte` to which
`handleReceive` casts an ID.

### ClientRegistry

The promise without the mechanism: members join under an ID nobody has, keep it
until they leave, and a callback is told the ID of the member whose message it
is. `StreamServer!Registry` is the refinement mapping: the members are the peers
in the map, their IDs are read from `peer->data`, `serving` is the argument of
the running callback.

### StreamClient

As above for the client, with one peer. `connection` is one of the states of a
live peer, `"uninitialised"` or `"dangling"`. A send through a pointer that leads
nowhere may do anything: go on or crash. `connect` and the send functions are
those of the class; there is no callback, as no function ever fills
`messageCallbacks`. A packet shorter than a type (`Short`) makes the constructor of the
message throw, and the exception leaves `tick`. `tick` also returns when
`enet_host_service` fails, whatever is waiting then.

### StreamDemo

Composes `StreamServer` (one peer slot, one connection) and `StreamClient` as
the threads of `main` use them, with the handshake and a lossy wire between
them. It extends the client, whose definitions keep their names; the server is the
instance `S`, and those of its variables that the client has too are called `shost`,
`sinbox`, `soutbox`, `spc` and `sconnects`. Time is abstracted: the one second before the client starts, the 25
seconds of running and the sleep of each round are arbitrary delays.

### StreamMessage

A payload of bytes, the cursor and the outcome of the last call; `written` and
`read` are history. The application reads items in the order in which it wrote
them, with the types it wrote. A value is one or two bytes; an array is a
sequence of values, as in the code. `transmit` is `toNetworkBuffer`, the packet
and the constructor on the other side. Lengths are always four bytes, because
the operators that would change `inputSize` and `outputSize` are declared
`inline` in the header and defined in `LNetMessage.cpp`, so that no other file
can link a call of them. A message goes between systems in `Systems`, big
endian or not: `big` is the system the program runs on, and its type, a value of
two bytes, is converted as it leaves and as it arrives (`typeOnWire`, `transmit`).
How a program uses messages is chosen once, from `Usages`: its types and items,
whether it calls `reset` and `setMsgSize`, whether it sends a message on that it
has begun to read. `ReadsWhatWasWritten` is about programs that do neither
(`OneWay`); the two action properties are about all of them. After `reset` or
`setMsgSize` the position may be behind the end of the payload. A value or a list is
then refused; the search for the end of a string starts there, which is
undefined: it finds nothing, or meets a zero among the bytes that the vector held
before and gives any string, with the position still outside, or ends the program.
`MaxPosition` bounds how far such strings are followed.

### EnetLibrary

Objects are constructed, opened (`listen` or `connect`), terminated, opened again and
destroyed, in any order; `count` is how often ENet was initialised and not
deinitialised. ENet counts as the Windows sockets underneath do; the Visual Studio
projects build for Windows only. `made` says whether the constructor initialised ENet:
one that fails only prints it, and the object is used all the same. `surplus` is
history: how often `enet_deinitialize` was called by an object that held no
initialisation, because it had made none or had undone it, as a server does in its
destructor after a `terminate` by hand.

### ByteOrder

The endian handler as operators: what memory holds of a value on either kind of
system, the detection of the byte order by looking at the first byte of a 1,
and the swap of one, two and four bytes. A byte has `ByteRange` values. Both
libraries have a copy of the same functions. It has no state and is checked
through the messages that use it. `Place(i)` is what a 1 stands for in the byte
above `i` others: the shift by `8 * i` of the code, given as a table of the widths
there are, since the provers know no powers.

### AsioServer

The server of LNetLibrary. Its io threads all run `ioContext.run`; `at` says for
each of them, and for the program's own thread, which handler or function it is
in and for which socket. A handler is split into as many actions as it has
points where another thread can matter:

| Code | Actions |
|---|---|
| `initAccept`, `continueAccept`, `onNewConnection` | `acceptCompletes`, `onNewConnection` (the `push_back`), `continueAccept` (after the callback: read, accept again) |
| `TCP::asyncRead` | `asyncRead` (header), `readPayload` (synchronous, holds the thread) |
| `recievedMessage` | from the end of `readPayload` to `recievedMessage`: `msgCallbacks[type]`, which inserts |
| `repeatRead` | `repeatRead` (after the callbacks: read again, whatever the error was) |
| `handleDisconnection` | `handleDisconnection` (find, report, close), `clearClient` (the assignment) |
| `startServer`, `stopServer` | `startServer`; `stopBegins`, `stopCloses`, `stopContext`, by the program or by a callback; `stopJoins`, or `callbackThrows` where the thread to join is the caller |
| `sendAllClients`, `sendAllClientsExcept` | `sendBegins`, `sendEnds`, by the program or by a callback |
| `addMsgListener` | `listenBegins`, `listenEnds`, by the program or by a callback |
| the end of the object | `destroyed`: a thread that was not joined ends the program |

`clients` is a vector that nobody locks. A thread that reads it (`vec`) is
`"raced"` when a write falls into its loop, or its loop begins while another
thread is in `push_back`; a raced loop may find nothing, go on as if nothing had
happened, or kill the program (`Survives`). `handleDisconnection` keeps an iterator
from its search to `clearClient`: when a `push_back` falls between, or is under way,
the assignment of `nullptr` may be lost. The map `msgCallbacks` has no
lock either: `map` marks the accesses under way, and two that overlap are raced
unless both only read. A listener that is replaced while it runs may take the
program with it. asio is external: `read` and
`accepts` are its outstanding operations, and each finished one is handled by
any idle thread until the context is stopped, which nothing undoes. `wire` and
`left` are the other ends, which may stop in the middle of a message. A read
of a client that has gone fails with an end or with any other error (`Fails`). A
callback that calls `stopServer` closes the clients and stops the context before the join
of its own thread throws; the joins before that one may wait for ever, and the thread
then stays in `"joining"`. The first
read of a connection has a callback that treats every error alike; the reads
after it tell an ended connection apart (`AfterRead`). Sizes are taken to be what
the framing allows, and the writes of the send functions, which change no state
of the server, are left to `AsioFraming`.

### ClientSession

The promise about one client, without threads or sockets: what the application was last
told of it (`told`), and whether it is being told something now (`turn`). `Connect` is
`onNewConnection`, `Call` and `Return` are the callbacks for messages and errors,
`Disconnect` is `onDisconnect`; a client whose accept failed (`Fail`) has callbacks for its
errors all the same, and an end may be missed (`Miss`). `AsioServer!Session(s)` is the
refinement mapping for socket `s`: `Told` is read off `disconnected`, the socket and the
thread in `onNewConnection`, `Turn` off the thread that handles the socket and the read
that is outstanding. `SessionsSpec` says this of all sockets together.

### AsioMessage and AsioFraming

`AsioMessage` has the message of LNetLibrary as a record and its functions as
operators: `<<` appends and adds to `header.size`, `>>` moves `readPosition` and
subtracts, `toConstBuffers` is the header in network order and what is left to
read. `FieldSize` stands for the four bytes of an `LNet4Byte`; it may be 1, 2 or
4, the widths that `swapEndian` knows. `setMsgSize`, which the reader of a header
calls, takes the size of the payload as an `int`: a size below that of a header and one
beyond `IntMax` (2 GiB of payload) make `resize` throw (`Resizable`). A search for the
end of a string that starts behind the payload may meet a zero left there before
(`StringSizes`, up to `MaxStale` bytes on), and then the size is reduced all the same.
`AsioFraming` assumes that no message becomes longer than its size can say
(`FramingConstants`): in the code that is 4 GiB, beyond which `header.size` wraps around
and the framing breaks.

`AsioFraming` is one connection between a program that builds messages (`write`,
`readValue`, `readString`, `resize`, `empty`, `copy`) and sends them
(`asyncSend`), and one that reads (`asyncRead`, as `readHeader` and `readPayload`
of `TCP` and of `UDP`). On TCP the kernel takes the bytes of the outstanding
writes in pieces (`transfer`), in any order between writes, and the connection
may end in any place (`close`). On UDP datagrams are lost, repeated and swapped
(`lose`, `Takes`). Only `<<` and `>>` keep the size true; a message that was resized or
cleared by hand is not `plain`. `broken` records that such a message was sent, or one
that is longer than an `int` can say, or a message while another was still being written.

### MessageChannel

The promise of a connection: messages are handed over in the order of the sends,
once each and whole, until the channel breaks. `AsioFraming!Channel` is the
refinement mapping: `sent` and `received` are the histories of types and
contents, and UDP counts as broken from the start, because it promises no order.

### AsioClient

The client in the manner of `AsioServer`: `at` says what each io thread and the
program's thread do. `connection` is a number, and `socket` says whether its
object is unopened, open or destroyed. A read loop is `asyncRead`, `readPayload`,
`onRead` (the look up of the listener with `find`), the callbacks,
`repeatReadTCP` (which reads the member) and `rearm` (which reads on what it
found). `connect` is `connect` (the assignment), `dialed`, and
`handleConnection` or `refused`; `disconnect` is the assignment of null,
`stopContext`, `joins`. `fate` says what the program died of: a null pointer, a
destroyed connection, a race, an exception that left a thread.

### SampleGame

`runServer` on the server of `AsioServer`: `start`, two listeners (`listen`), the
loop on the flag (`spin`), `stopServer` (`stopping`), the end of the server. The text
listener may throw, the stop listener clears the flag. Only what `runServer` uses
of the server is in `GameNext`. `shut` is the set of clients which the loop of
`stopServer` met.

## 3. Runs

| Run | Expected | Shows |
|---|---|---|
| `server` | pass | `RegistryExact`, `IDsPartitioned`, `IDsBounded`: map, `peer->data`, queue and counter agree through all connects, disconnects, restarts and throwing callbacks. `CallbackNamesSender`, `HandleStaysValid`: an ID told to the application is right, when told and later. `RegistrySpec`: the server implements `ClientRegistry`. |
| `server_id_truncated` | violation | more clients than a byte has values: the callback is told somebody else's ID |
| `client` | pass | with a host there is always a live peer, after every order of calls, failed ones included |
| `demo` | pass | no thread ever uses a missing host; the server thread ends; the client is told that the server left |
| `demo_ends` | violation | `main` never returns: `isConnected` never becomes false |
| `message` | pass | `ReadsWhatWasWritten`: strings come back as they were written, and no read of one throws. `WireIsLittleEndian`: the wire is the same whatever system sends. `TransmitKeepsMessage`: type and size survive any transmission, and the payload one before any read. `PositionStaysInside`: only `reset` and `setMsgSize` take the position out of the payload; no read does, one that throws included. |
| `message_value_order` | violation | `>>` of a value reads from the beginning of the payload, not from `readPosition` |
| `library` | pass | `CountIsHolders`: ENet is initialised as often as objects hold it, less at most one for each call of `enet_deinitialize` by an object that holds none |
| `asio_server` | pass | `OneReadPerSocket`: reads and callbacks of a socket never overlap. `AcceptGoesOn`: until somebody calls `stopServer`, the chain of accepts never ends and never forks, failed accepts included. `ReadersAreListed`: a client is in `clients`, once, as long as it is read. `SessionsSpec`: for each client the server implements `ClientSession`, so that its callbacks come after its announcement, one at a time, and none after `onDisconnect`. `MapRacesNeedCause`: accesses to the listeners overlap only if one is added late or a message comes that has none. |
| `asio_framing` | pass | `SizeIsWhatIsSent`: the header announces what is sent, of a partly read message too. `ChannelSpec`: TCP implements `MessageChannel`. `AllArrive`: every message gets through. `ReaderSurvives`: no plain message of up to 2 GiB makes the reader throw. `DatagramsAreWhole`: what comes out of datagrams is a message that was sent, where a datagram too long is an error; the read of a header is such an error for every message with a payload, so these are messages without one, and no other gets through in part. |
| `asio_client` | pass | `LoopsAreConnects`: as many read loops as connections were made, whatever fails. `OnceIsMemorySafe`: a program that connects once and does not disconnect meets no null or destroyed connection, and no race unless it adds a listener late. `ConnectedHasConnection`: `isConnected` means that there is a connection, with one connect. `DisconnectEnds`, `MessagesAreRead`: liveness. |
| `sample_game` | pass | `StopEndsGame`: a stop message ends the program, unless the program dies first, in a race or of a text message without a string (whose listener throws), or a late client that sends no payload holds a thread. `EndsCleanly`: it then has no thread left. |

The violations are the `findings` of `PROJECT.json`; each quotes the line that says
otherwise. Met while modelling and stated here without a run: `newClientID` takes
the ID that was given back first, though `LNetServer.hpp:90` announces the lowest
unused one; `reset` ignores its arguments and keeps `readPosition`, which is then
behind the end; `>>` of a list inherits the fault of `>>` of a value and has no
return statement; `terminate` of the server drops queued packets, the reliable ones
too; `toNetworkBuffer` (`LNetMessage.cpp:105`) of a message that was partly read
fills its end with zeros, though the header announces "all the data"; a server of
LNetLibrary whose `stopServer` was called accepts a new `startServer` and then
nobody, as its context stays stopped; one whose `listen` throws refuses every later
start; a server of LNetStream that is terminated by hand deinitialises ENet a second
time in its destructor, under the feet of the others; a `stopServer` in a callback
throws when it comes to join its own thread; a search in `clients` that races a
`push_back` may miss a client that is listed, and the assertion for that case
(`LNetServer.hpp:93` of LNetLibrary) tests a string literal and so never fails; two
sends on one socket of LNetLibrary may mix their bytes; `clear` sets the size to 0
and not to that of a header, and whoever reads such a message gets an exception that
ends its thread; after a second `connect` the client of LNetLibrary has two read
loops on one socket; its `isConnected` survives the end of the connection, as in
LNetStream.

### Bounds

* `server`: two slots, three connections: the third connection can only take a
  slot and an ID that were given back, in either order, so reuse, stale
  `peer->data` and a queue of two IDs all occur. Two listens show that the
  counter goes on while the queue is dropped. Two identifiers let a message find
  no callback while another has one. `ByteRange = 4` is
  `MaxListens * Cardinality(Peer)`, the largest number of IDs, so `IDsFit` holds;
  `server_id_truncated` has three clients and two values.
* `client`: two connects, queues of two: the second connect meets every state
  the first can leave behind.
* `demo`: exactly the program; one message, one connection.
* `message`: three strings of up to two characters over two non-zero bytes, the
  empty string and equal strings included, between systems of either byte order;
  and two items of all kinds over the bytes 0 and 1 with all calls, since a fault
  in the cursor needs one item before the one that suffers. Strings
  behind the payload are followed up to `MaxPosition = 7`, beyond the longest item (five
  bytes), so that an item written after a `reset` falls short of the position, reaches it
  or passes it. `ByteRange = 3` and
  the types 0, 1 and 5, of which the last differs in both bytes from its reverse;
  conversions move whole bytes, so the base does not matter.
* `library`: two objects of each kind, so that one can go while another uses ENet.
  Each is terminated up to twice, before and after it is opened again, and each
  initialisation may fail.
* `asio_server`: two threads, so that any two handlers can meet; the program's
  thread is a third. Two sockets: one can be pushed while the other is searched.
  Two starts: a start of a server that runs, that failed to listen and that was
  stopped. `stopServer` is called by the program or by a callback of either thread.
  One message is on the way per socket at a time. One type of message:
  it can be absent, empty and set, and the accesses of the map clash whatever
  entry they look for.
* `asio_framing`: two messages, each changed up to twice: a second message is
  what an overlapping write, a wrong size or a stray datagram harms. An
  `LNet4Byte` is two bytes of four values, so that the largest size (15) is
  beyond the largest message; the swap of four bytes is therefore not exercised
  by a run, but by the theorems of `ByteOrderProofs`, which are about all widths. The kernel takes four bytes at a time, a header being four, so that
  headers and payloads are split from each other and long payloads in themselves.
  An `IntMax` of 7 is below the longest payload: two lists make one of eight bytes,
  which makes the reader throw as one of 2 GiB does in the code. `MaxStale = 1` lets a
  string be read behind the end. A datagram too long for its buffer is an error, as on
  Windows, for which the
  projects build; with `Truncates = "silent"` `DatagramsAreWhole` is false.
* `asio_client`: two threads, the default of the constructor; two connects, so
  that the second meets the loop of the first.
* `sample_game`: two threads and two clients, one of which may stall while the
  other one stops the program; `runServer` starts the server once.

Symmetry is used for the peers of `server` and for the threads and sockets of
`asio_server`, where no definition orders them and no liveness is checked.

### Fairness

`StreamDemo`: weak fairness of each thread: the operating
system runs every runnable thread, and every function in the loops returns.
Strong fairness of the client's timeout: ENet gives up a peer that does not
answer, which happens inside `enet_host_service`, that is again and again while
the client ticks. Strong fairness of the client's events too: a call of
`enet_host_service` may fail and leave `tick` before an event is taken, but ENet reports
what waits before it does anything else, so that not every call fails. Nothing is assumed
about delivery or about the handshake.
`demo_ends` uses the same fairness, so its counterexample is not a program that
merely stops.

`AsioFraming`: weak fairness of the kernel taking bytes and of the reader, which
has a thread of its own. The program and the losses have none.

`AsioClient`: weak fairness of what a thread does once it has begun, and strong
fairness of the return of the callbacks, which may add listeners for as long as they like
but not for ever. A program need not call anything, and the server need not send.
`DisconnectEnds` rests on one assumption about the operating system: that closing a
socket ends a synchronous read that another thread is waiting in (`Fails`). The client
only closes its sockets, and Windows, for which the projects build, then wakes the
reader; on a system that does not, `disconnect` waits for the server.

`SampleGame`: weak fairness of the program's thread and of each io thread;
nothing is assumed of the clients, which may stall in the middle of a message. The loop
of `stopServer` shuts a socket down before it closes it, which wakes a reader everywhere.

## 4. Proofs

All theorems hold for any values of the constants that satisfy the named
assumptions of the modules: any finite set of peers, any finite sets of threads
and sockets, any items and usages, any size of a byte, and any bounds. Those that
need more say so.

| Module | Theorem | Statement |
|---|---|---|
| `StreamServerProofs` | `TypeCorrect` | `Spec => []TypeOK` |
| | `RegistryIsExact`, `IDsArePartitioned`, `IDsAreBounded` | the three invariants of the registry |
| | `CallbacksNameSender`, `HandlesStayValid` | `IDsFit => (Spec => []CallbackNamesSender)`, `[]HandleStaysValid` |
| | `ServerImplementsRegistry` | `IDsFit => (Spec => RegistrySpec)` |
| `StreamDemoProofs` | `ClientTypeCorrect`, `HostHasPeer` | `Spec => []TypeOK`, `[]ConnectionIsLive`, of the client |
| | `LoopsAlwaysHaveHosts` | `DemoSpec => []LoopsHaveHosts` |
| | `DemoHasClient`, `DemoHasServer` | `DemoSpec => Spec`, `DemoSpec => S!Spec`: the demo uses both as a program may |
| | `DemoServerIsCorrect` | `DemoSpec => [](S!RegistryExact /\ S!CallbackNamesSender /\ S!HandleStaysValid)` |
| `EnetLibraryProofs` | `CountsHolders` | `Spec => []CountIsHolders` |
| `ByteOrderProofs` | `OnWire` | `toNetworkEndian` puts every value little endian into memory |
| | `OffWire` | `fromNetworkEndian` makes of any bytes the value that has them |
| | `ValueArrives` | a value arrives as it was sent, between systems of any orders |
| `StreamMessageProofs` | `MessageTypeCorrect`, `WireIsAlwaysLittleEndian` | `Spec => []TypeOK`, `[]WireIsLittleEndian` |
| | `TransmitAlwaysKeepsMessage`, `PositionAlwaysStaysInside` | the two action properties |
| | `ReadableIsReadAsWritten` | `Spec => [](Readable => ReadsWhatWasWritten)` |
| | `StringsAreReadAsWritten` | `OneWayWritesStrings => (Spec => []ReadsWhatWasWritten)` |
| `AsioServerProofs` | `ServerTypeCorrect`, `OneReadAlways`, `AcceptAlwaysGoesOn`, `ReadersAlwaysListed`, `MapRacesAlwaysNeedCause` | `Spec => []` of each invariant of the run `asio_server` |
| | `SessionsKept` | `Spec => SessionsSpec` |
| | `GameRunsServer` | `GameSpec => Spec` |
| | `EndsAlwaysCleanly` | `GameSpec => []EndsCleanly` |
| `AsioClientProofs` | `ClientTypeCorrect`, `LoopsAlwaysAreConnects`, `OnceAlwaysMemorySafe`, `ConnectedAlwaysHasConnection` | `Spec => []` of each invariant of the run `asio_client` |
| `AsioFramingProofs` | `FramingTypeCorrect`, `SizeIsAlwaysWhatIsSent`, `ReaderAlwaysSurvives`, `DatagramsAreAlwaysWhole` | `Spec => []` of each invariant of the run `asio_framing` |
| | `TCPImplementsChannel` | `Spec => ChannelSpec` |

### StreamServer

The assumptions: `Peer` is finite, `Short` is not an
identifier, the bounds are numbers. `IDsFit` says that all IDs fit in the byte
to which they are cast; without it the last three are false, which is what
`server_id_truncated` shows.

The inductive invariant `RegistryInv` is
`HostlessIdle /\ RegistryExact /\ IDsPartitioned /\ IDsBounded`. None is
inductive alone: `handleConnect` keeps `RegistryExact` only if the ID it takes
is in nobody's use, which is `IDsPartitioned`; `handleDisconnect` keeps the
queue free of duplicates only if the departing ID was in the map and so not in
the queue, which is `RegistryExact`. `IDsBounded` needs that a fresh ID is taken
only when all IDs since `listen` are in the map, hence as many peers are
attached, and the connecting one is not among them (`FreeSlotLeavesRoom`).
`HostlessIdle` says that no peer is attached without a host, so that `listen`
and `terminate` start from nothing.

For the callbacks, `IDsCapped` bounds the counter by the number of listens times
the slots, so that under `IDsFit` the cast changes nothing (`ArgIsID`); `CallInv`
keeps the sender attached for as long as its callback runs. `HandleInv` says
that session numbers are fresh and that a remembered ID of a session is the ID
its peer has now. The refinement maps `handleConnect` to `Join`,
`handleDisconnect` to `Leave`, `handleReceive` to `Deliver` or a stutter,
`callbackReturns` and `callbackThrows` to `Finish`, `listen` and `terminate` to
`Clear`, everything else to a stutter.

### StreamClient, StreamDemo and EnetLibrary

For the client, the type invariant and `ConnectionIsLive` are inductive together.

The demo is shown to be a behaviour of the client and of the server: each step of `DemoNext`
is a step of the one, of the other, or leaves its variables alone (`DemoHasClient`,
`DemoHasServer`). What is proved of each by itself then holds in the demo.
`DemoServerIsCorrect` takes the theorems of `StreamServerProofs` for the one peer slot
there is; their condition `IDsFit` is a fact here, one listen and one slot needing
one ID (`DemoIDsFit`). For `LoopsHaveHosts`, `DemoInv` says when a thread is past its
`listen` or `connect` (`ServerHasHost`, `ClientHasHost`), that there is one of each
(`StartsOnce`), so that the bounds of the two modules never stop a thread, and that the
wire carries identifiers, which is what makes a step of the wire one of the other side.

For ENet the invariant `LibraryInv` adds that an unborn object has made and undone
nothing (`UnbornUntouched`), so that a new one joins the holders if its initialisation
succeeds. The count is compared with the cardinality of the holders: a constructor that
succeeds adds one to both (`ConstructCounts`); an undoing takes its object out of the
holders and one from the count, or its object was none of them and the surplus
grows by one (`UndoingCounts`). Nothing is assumed of failures or of the order of
calls. What follows is all that the code gives: as long as no call is one too many, ENet is
initialised for everyone who holds an initialisation, and each such call may shut it
down under one of them.

### ByteOrder and StreamMessage

A value of two or four bytes is the sum of its bytes, each times its place
(`ValueOfBytes`), and such a sum has those bytes (`BytesOfValue`); both are
division with remainder, done once for each byte. From them `swapEndian` turns
the bytes around (`SwapTurns`) and memory read back is the value (`MemoryOfValue`).
The widths are 1, 2 and 4, so nothing needs induction.

`TypeOK` of a message is inductive, and all but `ReadsWhatWasWritten` follow from
it. For that one `ItemsInOrder` says where each item lies: there are
positions `ends` such that the bytes of item `i` follow `ends[i - 1]` and end at
`ends[i]`, and `readPosition` is the end of the last item
that was read. So the first zero byte at or after `readPosition` is the terminator
of the next string (`NextString`): one before it would be a character, and
characters are not zero. A value that is the first item lies at the beginning of the
payload, from which `>>` of a value takes it (`OutputValueItems`). `Readable` is what this
takes: strings, after at most one value, and that only between systems of one byte order,
since the payload is not converted. Nothing less will do for a second value or for a value
after a string, which is what the run `message_value_order` shows, nor for a list, whose
elements are values. A program that writes strings only (`OneWayWritesStrings`)
needs no such condition on its messages.

### AsioServer and SampleGame

`Inv` has a part for each promise. `OneHandler`: a socket that is handled has no
read outstanding, so that completing a read makes its thread the only handler, and
reading again comes after letting go. `ListedOnce`: listed from the `push_back` to
`clearClient`; it needs `OneHandler`, since only the handler of a socket lists or
clears it, and the step before the `push_back` must not be one of a listed client.
`OneAccept` counts the accepts outstanding and in handlers together; each start
that could listen adds one, and `startServer` refuses a server that runs. Once
`stopServer` has begun, in the program or in a callback (`Stops`), nothing is said of the
chain but a bound: a second start may add one more, so it is the number of starts.
A callback that stops never returns, which is why `Stops` lasts (`StopsStay`).
`MapUse`: without a late listener or a message without one, every use of the map
after the start is a look up. `NotStarted` gives all of these their beginning.

For `SessionsSpec`, `Handled` says what `Told` and `Turn` of a client are while a thread
handles it, and `Unhandled` what they are otherwise; `OneHandler` makes these the only two
cases. Each handler then moves the session of its own client (`acceptGoes`, `asyncReadGoes`,
`handlerGoes`, `idleGoes`, `disconnectGoes`) and leaves those of the others (`Untouched`),
and what is done beside the handlers moves none, as it closes at most sockets that are open.
Two facts are needed beyond the invariant of the promises: `DisconnectIsFinal`, a part of `Inv`,
that nothing is read and no callback runs after `onDisconnect`, and `EndsWereOpen`, that
only an accepted connection can end: so `onDisconnect` is never about a client that the
application has not been told of.

`GameRunsServer` shows that each step of the game is a step of
`AsioServer` or one that leaves the server's variables alone. `EndsCleanly` then needs that the thread of the
program passes `stopJoins` before the object goes. For this the assumption of
`SampleGame` about its types is no more than that 1 and 2 are types of messages.

### AsioClient

`LoopsAreConnects` adds threads in handlers and reads outstanding. The reads are the
pairs of `Outstanding`, so that both are cardinalities of sets: completing a read
moves one element from one set to the other, and `rearm` moves it back, on the
connection it finds in the member. `FirstConnection` follows the connection of
a program that connects once through `connect`; `Numbered` and `NoLoopYet` say that before it
nothing is read, which is why nothing can fall on a null member. Two threads
may be inside the look up at once; `MapUse` has it that they only read.

### AsioFraming

`Inv` is `Structure /\ DraftIsPlain /\ SentFit /\ DatagramsIntact /\ StreamIntact`.

* `DraftIsPlain`: what `<<` and `>>` keep true of size, position and payload, with a
  bound on the payload, so that adding to the size does not wrap around.
* `SentFit`: the messages sent are plain, so their headers say what they are
  (`HeaderSays`, which rests on `ValueArrives`).
* `StreamIntact`: the bytes on the wire and the rest of the write that is outstanding are
  what the reader has yet to take. That is the rest of the message it is in,
  followed by `tails[n]`, the bytes of all messages after the `n` it has handed over;
  `tails` is quantified, since a recursive concatenation could not be reasoned about
  here. A send extends every tail (`TailsGrow`), a transfer moves bytes
  from the write to the wire, a read takes a header or a payload off the front
  (`NextUnread`, `PayloadIsNext`) and finds exactly those of the next message,
  because two splits of the same bytes at the same place agree (`SameCut`). An end of
  the connection cuts the bytes off, and then they need only be the beginning.
* `DatagramsIntact`: a datagram on its way is a message that was sent, however often and
  in whatever order; a header kept for its payload announces none.

`TCPImplementsChannel` maps `asyncSend` to `Send`, the read of the last part of a message
to `Deliver`, everything else to a stutter; a step that breaks the
channel is a `Send` too.

`DatagramsAreWhole` has the hypothesis `Truncates = "error"` in its own statement, as
the theorem is for both values: where a datagram is cut silently, the payload
that is handed over is the beginning of another datagram.

### What is only model-checked

* Liveness: `AllArrive`, `DisconnectEnds`, `MessagesAreRead`, `StopEndsGame` and those of
  the demo. The prover has no rules for fairness and `ENABLED`.
* What `>>` does with messages that are not `Readable`: there `ReadsWhatWasWritten` is
  false in general.

## 5. Not modelled

* ENet itself: the parts used are external definitions in the modules.
* A callback that calls `tick`; what a host forgotten by a second `listen` or
  `connect` still holds; memory leaks in general.
* Printing, the project files, `src/Server`.
* `runClient` of the sample game, which nothing calls; `repeatReadUDP` of the asio
  client, whose only call is commented out; `sendUDP` with arguments, which does
  not compile when used; `toMutableBuffers`, which nothing calls; the swap of
  eight bytes, of which there is no value; `>>` of lists and arrays in
  LNetLibrary, which are `>>` of values one after the other.
* `writeCallback`, and callbacks of the asio client's `connect` that call the
  client.
* What a race in `clients` does to the entries of others: it is lost work or the
  end of the program, never a false entry; the loop of `stopServer` closes all
  clients or dies. Two threads that join the same one.
* The order in which the members of the asio server and client die. They go before the
  threads, which may still use them; a thread that was not joined then ends the
  program in any case, and `destroyed` is that end.
* A message of LNetLibrary that is changed while asio writes it: the repository
  builds one for every send.

## 6. Plan

All parts that have behaviour are modelled, or listed above with the reason. Each
invariant that a passing run checks, each action property and each refinement is stated by a
theorem; what these runs check beyond the theorems is liveness. What could still be proved:

1. That the client of LNetLibrary with its one read loop implements an abstract one, as
   `ClientSession` is for the server, for programs that connect once.
2. The liveness of the demo and of the sample game, with a prover that has rules for
   fairness.
