-------------------------------- MODULE Wire --------------------------------
(***************************************************************************)
(* The bytes of one game connection, from the sockets of the game to the   *)
(* packets of the Analyzer: the relays of internal/proxy/connection.go cut *)
(* each direction's stream into chunks where TCP did, the frame codec      *)
(* (Frame) carries the chunks, and tryParsePackets of                      *)
(* internal/analyzer/worker.go finds the packets again.                    *)
(*                                                                         *)
(* One iteration of tryParsePackets is one action.  Everything it takes    *)
(* out of a buffer is a piece: a packet, a checksum byte, a byte skipped,  *)
(* or what is lost when it panics.                                         *)
(*                                                                         *)
(* The game is the environment: each direction's stream is a sequence of   *)
(* segments, a packet (with the checksum byte some clients add) or bytes   *)
(* that are none, as when the proxy came in late.                          *)
(***************************************************************************)
EXTENDS Frame, FiniteSets

CONSTANTS
    Receive, Send,  \* the packet tables: opcode -> PacketSpec
    Delimiter,      \* what ends an HTTP header
    ClientAddr, ServerAddr, ConnID,
    Segments,       \* direction -> what the game may send
    MaxSegments,    \* bound on the segments of both streams
    MaxChunk,       \* size of a relay's buffer (4096 in the code)
    MaxInFlight     \* bound on the frames on the socket

PacketSpec ==
    [type : {"fixed", "fixedMin", "indicated", "unknown", "http"}, size : Int]

Segment ==
    [real : BOOLEAN, bytes : Seq(Byte), opcode : Nat, payload : Seq(Byte), sum : Seq(Byte)]

Direction == {"c2s", "s2c"}

ASSUME WireAssumption ==
    /\ \A table \in {Receive, Send} : \A op \in DOMAIN table :
          table[op] \in PacketSpec /\ (table[op].size >= 2 \/ table[op].size = -1)
    /\ ConnID \in 0 .. Size64 - 1 /\ Delimiter \in Seq(Byte)
    /\ ClientAddr \in Seq(Byte) /\ Len(ClientAddr) < Radix
    /\ ServerAddr \in Seq(Byte) /\ Len(ServerAddr) < Radix
    /\ \A d \in Direction : \A seg \in Segments[d] : seg \in Segment
    /\ MaxSegments \in Nat /\ MaxChunk \in Nat \ {0} /\ MaxInFlight \in Nat \ {0}
    /\ 24 + Len(ClientAddr) + Len(ServerAddr) + MaxChunk < Size32

VARIABLES
    sent,       \* environment: the segments of each stream
    relayed,    \* how many bytes of it the relay has read
    stage,      \* the connection: "new", "open", "closed"
    socket,     \* bytes on the Analyzer's socket
    inFlight,   \* history: the frames they came from
    parsing,    \* the direction tryParsePackets works on, or "none"
    buffer,     \* clientBuffer and serverBuffer
    call,       \* pieces of the running call: result holds their packets
    pieces,     \* pieces of earlier calls: their packets have been spawned
    torn        \* history: a client's chunk ended one byte after a packet it completed

vars == <<sent, relayed, stage, socket, inFlight, parsing, buffer, call, pieces, torn>>

Stream(d) == FlattenSeq([i \in DOMAIN sent[d] |-> sent[d][i].bytes \o sent[d][i].sum])

Init ==
    /\ \E n \in 0 .. MaxSegments :
          sent \in {[c2s |-> c, s2c |-> s] :
                        c \in [1 .. n -> Segments["c2s"]],
                        s \in [1 .. MaxSegments - n -> Segments["s2c"]]}
    /\ relayed = [d \in Direction |-> 0]
    /\ stage = "new" /\ socket = <<>> /\ inFlight = <<>>
    /\ parsing = "none" /\ torn = FALSE
    /\ buffer = [d \in Direction |-> <<>>]
    /\ call = <<>> /\ pieces = [d \in Direction |-> <<>>]
-----------------------------------------------------------------------------
(* The proxy.                                                              *)

\* The time, a number of 64 bits: it tells the frames apart.
Clock == (relayed["c2s"] + relayed["s2c"]) % Size64

Put(frame) ==
    /\ Len(inFlight) < MaxInFlight
    /\ socket' = socket \o Encode(frame)
    /\ inFlight' = Append(inFlight, frame)

\* Connection.Start and Close.
Open ==
    /\ stage = "new" /\ stage' = "open"
    /\ Put(NewConnOpenFrame(ConnID, Clock, ClientAddr, ServerAddr))
    /\ UNCHANGED <<sent, relayed, parsing, buffer, call, pieces, torn>>

Close ==
    /\ stage = "open" /\ stage' = "closed"
    /\ Put(NewConnCloseFrame(ConnID, Clock))
    /\ UNCHANGED <<sent, relayed, parsing, buffer, call, pieces, torn>>

\* relay: one read of up to MaxChunk bytes.
Relay(d, n) ==
    LET from == relayed[d]
        to   == from + n
    IN  /\ stage = "open" /\ to <= Len(Stream(d))
        /\ relayed' = [relayed EXCEPT ![d] = to]
        /\ Put(NewDataFrame(ConnID, Clock, d, ClientAddr, ServerAddr,
                            SubSeq(Stream(d), from + 1, to)))
        /\ UNCHANGED <<sent, stage, parsing, buffer, call, pieces, torn>>
-----------------------------------------------------------------------------
(* The Analyzer: a frame becomes a chunk, a chunk goes into its buffer.    *)

Bytes(ps) == FlattenSeq([i \in DOMAIN ps |-> ps[i].bytes])

\* What tryParsePackets was given of d so far.
Delivered(d) ==
    Bytes(pieces[d]) \o (IF parsing = d THEN Bytes(call) ELSE <<>>) \o buffer[d]

\* Where the packet of segment i ends in d's stream, without its checksum.
EndOf(d, i) ==
    Len(FlattenSeq([j \in 1 .. i |-> sent[d][j].bytes \o sent[d][j].sum])) - Len(sent[d][i].sum)

\* The client's chunk of these bytes completes a packet and has one byte more,
\* the next packet's first.
Tears(from, to) ==
    \E i \in 1 .. Len(sent["c2s"]) - 1 :
        sent["c2s"][i].sum = <<>> /\ from < EndOf("c2s", i) /\ to = EndOf("c2s", i) + 1

ReceiveFrame ==
    /\ parsing = "none" /\ Readable(socket) /\ Recognized(socket)
    /\ LET frame == DecodeFrame(socket)
           chunk == ToRawChunk(frame)
           from  == Len(Delivered(chunk.dir))
       IN  IF frame.type = "data"
              THEN /\ parsing' = chunk.dir
                   /\ buffer' = [buffer EXCEPT ![chunk.dir] = @ \o chunk.data]
                   /\ torn' = (torn \/ (chunk.dir = "c2s" /\ Tears(from, from + Len(chunk.data))))
              ELSE UNCHANGED <<parsing, buffer, torn>>
    /\ socket' = AfterFrame(socket)
    /\ inFlight' = Tail(inFlight)
    /\ UNCHANGED <<sent, relayed, stage, call, pieces>>
-----------------------------------------------------------------------------
(* Plausible slips, one per comment.                                       *)

\* A size field below 2 is believed.
IndicatedBelieved(buf) == Uint16(SubSeq(buf, 3, 4))

\* Every client packet has a checksum.
HasChecksumAlways(d, rest) == d = "c2s" /\ rest # <<>>

\* The payload of every packet starts after the opcode.
StartDataFixed(spec, size) == IF 2 > size THEN size ELSE 2
-----------------------------------------------------------------------------
(* tryParsePackets.                                                        *)

PacketDatabase(d) == IF d = "s2c" THEN Receive ELSE Send

Opcode(buf) == Uint16(SubSeq(buf, 1, 2))

\* The buffer starts with a packet whose size the table tells.
Starts(d, buf) ==
    /\ Len(buf) >= 2 /\ Opcode(buf) \in DOMAIN PacketDatabase(d)
    /\ PacketDatabase(d)[Opcode(buf)].type # "unknown"

SpecOf(d, buf) == PacketDatabase(d)[Opcode(buf)]

\* parseHTTPPacket: the header with its delimiter, 0 if it is not complete.
HTTPSize(buf) ==
    LET Ends == {i \in Len(Delimiter) .. Len(buf) :
                    SubSeq(buf, i - Len(Delimiter) + 1, i) = Delimiter}
    IN  IF Ends = {} THEN 0 ELSE CHOOSE i \in Ends : \A j \in Ends : i <= j

\* The size of an indicated packet; one below 2 is invalid and made 2.
Indicated(buf) == LET n == Uint16(SubSeq(buf, 3, 4)) IN IF n < 2 THEN 2 ELSE n

Measure(spec, buf) ==
    CASE spec.type \in {"fixed", "fixedMin"} ->
            [size |-> spec.size, valid |-> Len(buf) >= spec.size]
      [] spec.type = "indicated" ->
            [size |-> IF Len(buf) >= 4 THEN Indicated(buf) ELSE 0,
             valid |-> Len(buf) >= 4 /\ Len(buf) >= Indicated(buf)]
      [] spec.type = "http" ->
            [size |-> HTTPSize(buf), valid |-> HTTPSize(buf) > 0]

\* A packet as the tables have it.  Only the client adds a checksum byte.
Genuine(d, seg) ==
    LET table == PacketDatabase(d)
        spec  == table[seg.opcode]
        head  == IF spec.size = -1 THEN 4 ELSE 2
        size  == Len(seg.bytes)
    IN  /\ seg.opcode \in DOMAIN table /\ size >= head
        /\ Opcode(seg.bytes) = seg.opcode /\ seg.payload = SubSeq(seg.bytes, head + 1, size)
        /\ \/ spec.type \in {"fixed", "fixedMin"} /\ spec.size = size
           \/ spec.type = "indicated" /\ size >= 4 /\ Uint16(SubSeq(seg.bytes, 3, 4)) = size
           \/ spec.type = "http" /\ HTTPSize(seg.bytes) = size
        /\ Len(seg.sum) <= (IF d = "c2s" THEN 1 ELSE 0)

ASSUME GameAssumption ==
    /\ \A d \in Direction : \A seg \in Segments[d] : seg.real => Genuine(d, seg)
    /\ \A op \in DOMAIN Send : Send[op].type \in {"fixed", "fixedMin"} => Send[op].size # -1

\* Is the byte after a packet its checksum?  Only what has arrived is seen.
HasChecksum(d, rest) ==
    d = "c2s" /\ (\/ Len(rest) = 1
                  \/ /\ Len(rest) >= 3 /\ Opcode(rest) \notin DOMAIN Send
                     /\ Opcode(Tail(rest)) \in DOMAIN Send)

\* Where the payload of a packet of that size starts.
StartData(spec, size) ==
    LET start == IF spec.size = -1 THEN 4 ELSE 2 IN IF start > size THEN size ELSE start

Piece(what, bytes) == [what |-> what, bytes |-> bytes]

\* What the deserializer of a packet gets.
ParsedPacket(d, bytes, sum) ==
    [opcode |-> Opcode(bytes), checksum |-> sum,
     payload |-> SubSeq(bytes, StartData(SpecOf(d, bytes), Len(bytes)) + 1, Len(bytes))]

\* A byte that starts no packet is dropped.
SkipByte(d) ==
    /\ parsing = d /\ Len(buffer[d]) >= 2 /\ ~Starts(d, buffer[d])
    /\ call' = Append(call, Piece("skip", <<Head(buffer[d])>>))
    /\ buffer' = [buffer EXCEPT ![d] = Tail(@)]
    /\ UNCHANGED <<sent, relayed, stage, socket, inFlight, parsing, pieces, torn>>

TakePacket(d) ==
    /\ parsing = d /\ Starts(d, buffer[d])
    /\ LET buf  == buffer[d]
           m    == Measure(SpecOf(d, buf), buf)
           rest == SubSeq(buf, m.size + 1, Len(buf))
           sum  == SubSeq(rest, 1, IF HasChecksum(d, rest) THEN 1 ELSE 0)
       IN  /\ m.valid /\ m.size >= 0
           /\ call' = call \o <<Piece("packet", SubSeq(buf, 1, m.size)), Piece("sum", sum)>>
           /\ buffer' = [buffer EXCEPT ![d] = SubSeq(rest, Len(sum) + 1, Len(rest))]
    /\ UNCHANGED <<sent, relayed, stage, socket, inFlight, parsing, pieces, torn>>

\* make([]byte, -1) panics: result is lost, and both buffers with the loop.
Panic(d) ==
    /\ parsing = d /\ Starts(d, buffer[d])
    /\ Measure(SpecOf(d, buffer[d]), buffer[d]).size < 0
    /\ pieces' = [e \in Direction |->
                    pieces[e] \o (IF e = d THEN [i \in DOMAIN call |-> Piece("lost", call[i].bytes)]
                                           ELSE <<>>)
                              \o <<Piece("lost", buffer[e])>>]
    /\ buffer' = [e \in Direction |-> <<>>]
    /\ call' = <<>> /\ parsing' = "none"
    /\ UNCHANGED <<sent, relayed, stage, socket, inFlight, torn>>

\* Nothing complete is left: processChunk spawns what was found.
Return(d) ==
    /\ parsing = d
    /\ \/ Len(buffer[d]) < 2
       \/ Starts(d, buffer[d]) /\ ~Measure(SpecOf(d, buffer[d]), buffer[d]).valid
    /\ pieces' = [pieces EXCEPT ![d] = @ \o call]
    /\ call' = <<>> /\ parsing' = "none"
    /\ UNCHANGED <<sent, relayed, stage, socket, inFlight, buffer, torn>>
-----------------------------------------------------------------------------
Next ==
    \/ Open \/ Close
    \/ \E d \in Direction, n \in 1 .. MaxChunk : Relay(d, n)
    \/ ReceiveFrame
    \/ \E d \in Direction : SkipByte(d) \/ TakePacket(d) \/ Panic(d) \/ Return(d)

Spec == Init /\ [][Next]_vars
-----------------------------------------------------------------------------
(* Properties.                                                             *)

PieceType == [what : {"packet", "sum", "skip", "lost"}, bytes : Seq(Byte)]

TypeOK ==
    /\ \A d \in Direction :
          /\ sent[d] \in Seq(Segments[d]) /\ relayed[d] \in 0 .. Len(Stream(d))
          /\ buffer[d] \in Seq(Byte) /\ pieces[d] \in Seq(PieceType)
    /\ stage \in {"new", "open", "closed"} /\ parsing \in Direction \cup {"none"}
    /\ socket \in Seq(Byte) /\ Len(inFlight) <= MaxInFlight
    /\ call \in Seq(PieceType) /\ torn \in BOOLEAN

(* The reader stays on frame boundaries: whatever the frames on the socket *)
(* are, the next one decoded is the next one encoded, field by field.      *)
FramesIntact ==
    IF inFlight = <<>>
       THEN socket = <<>>
       ELSE /\ Readable(socket) /\ Recognized(socket)
            /\ DecodeFrame(socket) = Head(inFlight)

(* The parser loses no byte and uses none twice, in whatever state the     *)
(* stream is and however the parser fails: packets, checksums, skipped and *)
(* lost bytes and the buffer are the stream in order.  And it always moves *)
(* on: no packet is empty, whatever its size field says.                   *)
BytesAccounted ==
    /\ \A d \in Direction : IsPrefix(Delivered(d), Stream(d))
    /\ inFlight = <<>> => \A d \in Direction : Len(Delivered(d)) = relayed[d]
    /\ \A i \in DOMAIN call : call[i].what = "packet" => call[i].bytes # <<>>

OnlyPackets(d) == \A i \in DOMAIN sent[d] : sent[d][i].real
NeverPanicked  == \A d \in Direction : \A i \in DOMAIN pieces[d] : pieces[d][i].what # "lost"

\* Piece n of d is the packet of segment i, from its first byte to its last.
Found(d, ps, n, i) ==
    LET seg == sent[d][i]
    IN  /\ ps[n].what = "packet" /\ Len(Bytes(SubSeq(ps, 1, n))) = EndOf(d, i)
        /\ ps[n].bytes = seg.bytes
        /\ ParsedPacket(d, ps[n].bytes, ps[n + 1].bytes) \in
              {[opcode |-> seg.opcode, payload |-> seg.payload, checksum |-> sum] :
                  sum \in {<<>>, seg.sum}}

\* Every packet found was sent, and every one delivered to the last byte is found.
SameAsSent(d) ==
    LET ps == pieces[d]
    IN  /\ \A n \in DOMAIN ps : ps[n].what = "packet" => \E i \in DOMAIN sent[d] : Found(d, ps, n, i)
        /\ \A i \in DOMAIN sent[d] :
              EndOf(d, i) <= Len(Delivered(d)) => \E n \in DOMAIN ps : Found(d, ps, n, i)

(* However TCP cuts the server's stream, the packets found are exactly the *)
(* packets sent, each as soon as its last byte is there, as long as the    *)
(* table knows them all and the size of each.                              *)
ServerPackets ==
    parsing = "none" /\ OnlyPackets("s2c") => SameAsSent("s2c")

\* A checksum and the byte after it read as an opcode the client may send.
Ambiguous ==
    \E i \in 1 .. Len(sent["c2s"]) - 1 :
        /\ sent["c2s"][i].sum # <<>>
        /\ Uint16(sent["c2s"][i].sum \o <<Head(sent["c2s"][i + 1].bytes)>>) \in DOMAIN Send

(* The same of the client's stream, and every checksum found is one that   *)
(* was sent, unless a checksum reads as the start of an opcode, or a chunk *)
(* that completed a packet without checksum ended with the first byte of   *)
(* the next.                                                               *)
ClientPackets ==
    parsing = "none" /\ NeverPanicked /\ OnlyPackets("c2s") /\ ~Ambiguous /\ ~torn
        => SameAsSent("c2s")
=============================================================================
