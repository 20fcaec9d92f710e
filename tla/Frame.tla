------------------------------- MODULE Frame -------------------------------
(***************************************************************************)
(* The frame codec, internal/ipc/frame.go, byte by byte.                   *)
(*                                                                         *)
(* A byte is a digit of base Radix, 256 in the code; a smaller base makes  *)
(* every carry and every length that wraps reachable.  Field widths are    *)
(* the code's.  A socket's content is a sequence of bytes.                 *)
(***************************************************************************)
EXTENDS Integers, Sequences, SequencesExt

CONSTANT Radix

ASSUME RadixAssumption == Radix \in Nat /\ Radix > 3

Byte == 0 .. Radix - 1

\* The numbers of 2, 4 and 8 bytes are those below these bounds.
Size16 == Radix * Radix
Size32 == Size16 * Size16
Size64 == Size32 * Size32

\* A plausible slip: a byte keeps what does not fit into it.
PutUint16Unmasked(n) == <<n, n \div Radix>>

\* binary.LittleEndian, the lower half before the upper one.
PutUint16(n) == <<n % Radix, (n \div Radix) % Radix>>
PutUint32(n) == PutUint16(n % Size16) \o PutUint16(n \div Size16)
PutUint64(n) == PutUint32(n % Size32) \o PutUint32(n \div Size32)

Uint16(b) == b[1] + Radix * b[2]
Uint32(b) == Uint16(b) + Size16 * Uint16(SubSeq(b, 3, 4))
Uint64(b) == Uint32(b) + Size32 * Uint32(SubSeq(b, 5, 8))

MagicNumber == Radix + 2
Version     == 1

FrameType == [data |-> 0, connOpen |-> 1, connClose |-> 2]

\* The zero value of a PacketDirection is ServerToClient.
NewDataFrame(id, time, dir, client, server, data) ==
    [type |-> "data", connID |-> id, timestamp |-> time, dir |-> dir,
     clientAddr |-> client, serverAddr |-> server, data |-> data]

NewConnOpenFrame(id, time, client, server) ==
    [NewDataFrame(id, time, "s2c", client, server, <<>>) EXCEPT !.type = "connOpen"]

NewConnCloseFrame(id, time) ==
    [NewDataFrame(id, time, "s2c", <<>>, <<>>, <<>>) EXCEPT !.type = "connClose"]
-----------------------------------------------------------------------------
(* A plausible slip.                                                       *)

\* The direction byte is the constant's own value, which is the other one.
EncodeDirection(f) ==
    LET body == <<FrameType[f.type]>> \o PutUint64(f.connID)
                    \o PutUint64(f.timestamp) \o <<IF f.dir = "s2c" THEN 0 ELSE 1>>
                    \o <<Len(f.clientAddr) % Radix>> \o f.clientAddr
                    \o <<Len(f.serverAddr) % Radix>> \o f.serverAddr
                    \o PutUint32(Len(f.data)) \o f.data
    IN  PutUint16(MagicNumber) \o <<Version>> \o PutUint32(Len(body)) \o body
-----------------------------------------------------------------------------
\* The length of an address takes one byte.
Encode(f) ==
    LET body == <<FrameType[f.type]>> \o PutUint64(f.connID)
                    \o PutUint64(f.timestamp) \o <<IF f.dir = "s2c" THEN 1 ELSE 0>>
                    \o <<Len(f.clientAddr) % Radix>> \o f.clientAddr
                    \o <<Len(f.serverAddr) % Radix>> \o f.serverAddr
                    \o PutUint32(Len(f.data)) \o f.data
    IN  PutUint16(MagicNumber) \o <<Version>> \o PutUint32(Len(body)) \o body

\* io.ReadFull has the header, then the body: until then DecodeFrame blocks.
Readable(socket) ==
    /\ Len(socket) >= 7
    /\ Len(socket) >= 7 + Uint32(SubSeq(socket, 4, 7))

\* ErrInvalidMagic, ErrInvalidVersion.
Recognized(socket) ==
    Uint16(SubSeq(socket, 1, 2)) = MagicNumber /\ socket[3] = Version

\* The frame, from a body as Encode writes them; an index past the end of
\* another body panics in the code and is an error for TLC.
DecodeFrame(socket) ==
    LET body   == SubSeq(socket, 8, 7 + Uint32(SubSeq(socket, 4, 7)))
        Field(at, w) == SubSeq(body, at, at + w - 1)
        client == 20 + body[19]         \* where the client's address ends
        server == client + body[client] \* where the server's does
    IN  [type       |-> CHOOSE t \in DOMAIN FrameType : FrameType[t] = body[1],
         connID     |-> Uint64(Field(2, 8)),
         timestamp  |-> Uint64(Field(10, 8)),
         dir        |-> IF body[18] = 1 THEN "s2c" ELSE "c2s",
         clientAddr |-> Field(20, body[19]),
         serverAddr |-> Field(client + 1, body[client]),
         data       |-> Field(server + 5, Uint32(Field(server + 1, 4)))]

\* What is left on the socket.
AfterFrame(socket) ==
    SubSeq(socket, 8 + Uint32(SubSeq(socket, 4, 7)), Len(socket))

ToRawChunk(f) == [dir |-> f.dir, data |-> f.data]
=============================================================================
