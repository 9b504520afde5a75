----------------------------- MODULE AsioFraming -----------------------------
(***************************************************************************)
(* Messages on a connection: a program builds an AsioMessage and sends it  *)
(* with asyncSend of TCP or UDP, another one reads with asyncRead, on a    *)
(* system of the same or the other byte order (LNetTCP.hpp, LNetUDP.hpp).  *)
(* TCP carries bytes; asio::async_write hands them to it in several steps, *)
(* and two writes of one socket that overlap may mix theirs.  UDP carries  *)
(* datagrams, and may lose, repeat and reorder them.  asyncRead takes the  *)
(* header first and the payload in a second, synchronous read.             *)
(*                                                                         *)
(* A message is not touched while its write is under way: asio refers to   *)
(* its memory, and the repository builds a message for every send.         *)
(***************************************************************************)
EXTENDS AsioMessage

CONSTANTS
    Systems,    \* which systems there are: big endian or not
    Transports, \* subset of {"tcp", "udp"}
    Truncates,  \* a datagram too long for its buffer: "error" (Windows) or "silent"
    Types,      \* the types of messages in use
    Items,      \* the values and strings the program writes, as bytes
    MaxEdits,   \* bound: calls that change a message before it is sent
    MaxSends,   \* bound: messages sent
    MaxStale,   \* bound: bytes of a string found behind the end of a payload
    Chunk       \* bound: bytes the kernel takes in one step

ASSUME FramingConstants ==
    /\ Systems \subseteq BOOLEAN
    /\ Transports \subseteq {"tcp", "udp"}
    /\ Truncates \in {"error", "silent"}
    /\ Types \subseteq Field
    /\ \A item \in Items : item.kind \in {"value", "string", "list"} /\ item.of \in Seq(Byte)
    /\ MaxEdits \in Nat /\ MaxSends \in Nat /\ MaxStale \in Nat /\ Chunk \in Nat \ {0}
    \* Messages are no longer than their size can say, 4 GiB in the code.
    /\ \A item \in Items :
          LNET_HEADER_SIZE + MaxEdits * (FieldSize + Len(item.of)) \in Field

VARIABLES
    transport, ends,    \* constants of a behaviour: TCP or UDP, the two systems
    draft,              \* the message the program builds
    writes,             \* what is left of the outstanding async_write calls
    wire,               \* the bytes, or the datagrams, on their way
    closed,             \* the connection has ended
    reader,             \* asyncRead: "header", "payload", or "dead"
    incoming,           \* the message it fills
    sent, received,     \* history: type and rest of a message, as sent and as handed over
    edits,              \* history: how often draft was changed
    plain, broken       \* history: draft was changed by << and >> only; two
                        \* writes have overlapped, or a message was not plain
                        \* or longer than an int can say

consts  == <<transport, ends>>
program == <<draft, edits, plain>>
history == <<sent, broken>>
vars == <<consts, program, writes, wire, closed, reader, incoming, history, received>>

Content(m) == [type |-> m.type, rest |-> Rest(m)]
Contents == [type : Field, rest : Seq(Byte)]

TypeOK ==
    /\ transport \in Transports
    /\ ends \in [sender : Systems, receiver : Systems]
    /\ draft \in Message /\ incoming \in Message
    /\ \A w \in DOMAIN writes : writes[w] \in Seq(Byte)
    /\ wire \in IF transport = "tcp" THEN Seq(Byte) ELSE Seq(Seq(Byte))
    /\ reader \in {"header", "payload", "dead"}
    /\ sent \in Seq(Contents) /\ received \in Seq(Contents)
    /\ edits \in 0..MaxEdits
    /\ closed \in BOOLEAN /\ plain \in BOOLEAN /\ broken \in BOOLEAN

Init ==
    /\ transport \in Transports
    /\ ends \in [sender : Systems, receiver : Systems]
    /\ draft \in {NewMessage(type) : type \in Types}
    /\ incoming = NewMessage(0)
    /\ writes = <<>> /\ wire = <<>>
    /\ closed = FALSE
    /\ reader = "header"
    /\ sent = <<>> /\ received = <<>>
    /\ edits = 0
    /\ plain = TRUE
    /\ broken = FALSE
-----------------------------------------------------------------------------
(* The program that sends. *)

Edit(m, p) ==
    /\ edits < MaxEdits /\ Len(sent) < MaxSends
    /\ draft' = m /\ edits' = edits + 1 /\ plain' = p
    /\ UNCHANGED <<consts, writes, wire, closed, reader, incoming, history, received>>

write(item) ==
    Edit(Put(draft, CASE item.kind = "value"  -> InOrder(item.of, ends.sender)
                      [] item.kind = "string" -> StringBytes(item.of)
                      [] item.kind = "list"   -> ListBytes(item.of, ends.sender)), plain)

readValue(n) == HasValue(draft, n) /\ Edit(Skip(draft, n), plain)

readString == \E n \in StringSizes(draft, MaxStale) : Edit(Skip(draft, n), plain)

\* Slip: the size of the payload is stored as that of the message.
resizeCountsPayload(value) == Edit([draft EXCEPT !.size = value - LNET_HEADER_SIZE], FALSE)

\* When it throws the size is already set.
resize(value) ==
    Edit(IF Resizable(value) THEN setMsgSize(draft, value) ELSE [draft EXCEPT !.size = value],
         FALSE)

empty == Edit(clear(draft), FALSE)

\* A message is made from the bytes another one would send.
copy ==
    /\ plain
    /\ Edit(FromBuffer(toConstBuffers(draft, ends.sender), ends.sender), TRUE)

\* asyncSend; the program goes on with a new message.
asyncSend(type) ==
    LET bytes == toConstBuffers(draft, ends.sender) IN
    /\ Len(sent) < MaxSends
    /\ sent' = Append(sent, Content(draft))
    /\ broken' = (broken \/ ~plain \/ ~Resizable(draft.size) \/ writes # <<>>)
    /\ \/ transport = "tcp" /\ writes' = Append(writes, bytes) /\ UNCHANGED wire
       \/ transport = "udp" /\ wire' = Append(wire, bytes) /\ UNCHANGED writes
    /\ draft' = NewMessage(type) /\ edits' = 0 /\ plain' = TRUE
    /\ UNCHANGED <<consts, closed, reader, incoming, received>>
-----------------------------------------------------------------------------
(* The network and asio. *)

network == <<consts, program, reader, incoming, history, received>>

\* The kernel takes some bytes of any outstanding write; a write that has
\* none left is finished.
transfer(w) ==
    LET n == IF Len(writes[w]) < Chunk THEN Len(writes[w]) ELSE Chunk IN
    /\ ~closed
    /\ wire' = wire \o SubSeq(writes[w], 1, n)
    /\ writes' = IF n = Len(writes[w]) THEN RemoveAt(writes, w)
                 ELSE [writes EXCEPT ![w] = SubSeq(@, n + 1, Len(@))]
    /\ UNCHANGED <<network, closed>>

\* The TCP connection ends; what has arrived can still be read.
close ==
    /\ transport = "tcp" /\ ~closed
    /\ closed' = TRUE /\ writes' = <<>>
    /\ UNCHANGED <<network, wire>>

\* A datagram is lost, or overtaken by the next one.
lose ==
    /\ transport = "udp" /\ wire # <<>>
    /\ \/ wire' = Tail(wire)
       \/ Len(wire) > 1 /\ wire' = <<wire[2], wire[1]>> \o SubSeq(wire, 3, Len(wire))
    /\ UNCHANGED <<network, writes, closed>>
-----------------------------------------------------------------------------
(* asyncRead. *)

\* The header has come: its fields are converted and the payload is resized
\* for the second read, which throws out of the handler when the size is
\* smaller than a header or too large for an int.
HeaderRead(header) ==
    LET size == SizeOf(header, ends.receiver)
        m    == [NewMessage(TypeOf(header, ends.receiver)) EXCEPT !.size = size]
    IN  IF Resizable(size) THEN incoming' = setMsgSize(m, size) /\ reader' = "payload"
                           ELSE incoming' = m /\ reader' = "dead"

\* The callback is called, without an error, and reads on.
HandedOver(m) ==
    /\ received' = Append(received, Content(m))
    /\ incoming' = NewMessage(0)
    /\ reader' = "header"

reading == <<consts, program, writes, closed, history>>

readHeaderTCP ==
    /\ transport = "tcp" /\ reader = "header"
    /\ Len(wire) >= LNET_HEADER_SIZE
    /\ HeaderRead(SubSeq(wire, 1, LNET_HEADER_SIZE))
    /\ wire' = SubSeq(wire, LNET_HEADER_SIZE + 1, Len(wire))
    /\ UNCHANGED <<reading, received>>

\* Slip: the payload is expected to be as long as the message.
readPayloadLong ==
    /\ transport = "tcp" /\ reader = "payload"
    /\ Len(wire) >= incoming.size
    /\ HandedOver([incoming EXCEPT !.payload = SubSeq(wire, 1, incoming.size)])
    /\ wire' = SubSeq(wire, incoming.size + 1, Len(wire))
    /\ UNCHANGED reading

readPayloadTCP ==
    LET n == incoming.size - LNET_HEADER_SIZE IN
    /\ transport = "tcp" /\ reader = "payload"
    /\ Len(wire) >= n
    /\ HandedOver([incoming EXCEPT !.payload = SubSeq(wire, 1, n)])
    /\ wire' = SubSeq(wire, n + 1, Len(wire))
    /\ UNCHANGED reading

\* The connection has ended before a header or a payload was there: the
\* callback gets the error and what is left is dropped.
readFails ==
    /\ transport = "tcp" /\ closed /\ wire # <<>>
    /\ \/ reader = "header" /\ Len(wire) < LNET_HEADER_SIZE
       \/ reader = "payload" /\ Len(wire) < incoming.size - LNET_HEADER_SIZE
    /\ wire' = <<>>
    /\ incoming' = NewMessage(0)
    /\ reader' = "header"
    /\ UNCHANGED <<reading, received>>

\* A datagram leaves the wire, or comes again: bounded like the sends.
Takes == wire' = Tail(wire) \/ (Len(received) < MaxSends /\ UNCHANGED wire)

\* Slip: the error of the first receive_from is not looked at.
readHeaderUDPUnchecked ==
    /\ transport = "udp" /\ reader = "header" /\ wire # <<>>
    /\ HeaderRead(SubSeq(Head(wire), 1, LNET_HEADER_SIZE))
    /\ Takes
    /\ UNCHANGED <<reading, received>>

\* receive_from takes one datagram, of which at most a header fits.  Where
\* that is an error the callback gets it; where not, the rest is lost.
readHeaderUDP ==
    /\ transport = "udp" /\ reader = "header" /\ wire # <<>>
    /\ IF Len(Head(wire)) > LNET_HEADER_SIZE /\ Truncates = "error"
       THEN UNCHANGED <<reader, incoming>>
       ELSE HeaderRead(SubSeq(Head(wire), 1, LNET_HEADER_SIZE))
    /\ Takes
    /\ UNCHANGED <<reading, received>>

\* The second receive_from takes another datagram, header and all, as the
\* payload.  Its own error is not looked at.
readPayloadUDP ==
    LET n == Len(incoming.payload)
        d == Head(wire)
    IN  /\ transport = "udp" /\ reader = "payload" /\ wire # <<>>
        /\ HandedOver([incoming EXCEPT !.payload =
                          [i \in 1..n |-> IF i <= Len(d) THEN d[i] ELSE 0]])
        /\ Takes
        /\ UNCHANGED reading
-----------------------------------------------------------------------------
Program ==
    \/ \E item \in Items : write(item)
    \/ readValue(1) \/ readString
    \/ \E value \in {0, LNET_HEADER_SIZE + 1} : resize(value)
    \/ empty \/ copy
    \/ \E type \in Types : asyncSend(type)

Network == close \/ lose \/ \E w \in DOMAIN writes : transfer(w)

Reader ==
    \/ readHeaderTCP \/ readPayloadTCP \/ readFails
    \/ readHeaderUDP \/ readPayloadUDP

Next == Program \/ Network \/ Reader

\* The kernel goes on taking bytes, and the reader has a thread.
Fairness ==
    /\ WF_vars(\E w \in DOMAIN writes : transfer(w))
    /\ WF_vars(Reader)

Spec == Init /\ [][Next]_vars /\ Fairness
-----------------------------------------------------------------------------
(* Properties. *)

\* As long as a message is only written to and read from, its header says how
\* many bytes toConstBuffers will send, even when it was partly read.
SizeIsWhatIsSent ==
    plain => draft.size = LNET_HEADER_SIZE + Len(Rest(draft))

\* A TCP connection is a channel of messages, which breaks only when two
\* writes of the socket overlap, or when a message was cleared or resized or
\* is longer than an int can say (2 GiB).
Channel == INSTANCE MessageChannel WITH broken <- broken \/ transport = "udp"

ChannelSpec == Channel!Spec

\* Every message gets through, unless the connection ends or the channel is
\* broken.
AllArrive ==
    \A n \in 1..MaxSends :
        transport = "tcp" /\ Len(sent) >= n ~> Len(received) >= n \/ closed \/ broken

\* Plain messages of at most 2 GiB, what an int can say (LNetMessage.hpp:89),
\* never make the reader throw, which would end its thread, as long as no two
\* writes overlap.  A longer one does, however it was built.
ReaderSurvives == ~broken => reader # "dead"

\* Where a datagram that is too long is an error, a message handed over from
\* datagrams is one that was sent, whatever was lost, repeated or reordered.
\* (It is one without a payload: the datagram of any other is too long for the
\* first receive_from of LNetUDP.hpp:60, and is never handed over.)
DatagramsAreWhole ==
    transport = "udp" /\ Truncates = "error" /\ ~broken =>
        \A i \in DOMAIN received : \E j \in DOMAIN sent : received[i] = sent[j]
=============================================================================
