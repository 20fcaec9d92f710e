-------------------------- MODULE ConnectionProofs --------------------------
(***************************************************************************)
(* Theorems about Connection, for every number of pieces and recordings.   *)
(***************************************************************************)
EXTENDS Connection, SequenceTheorems, TLAPS

RelayStates == {"none", "check", "read", "write", "decide", "fetch", "record",
                "send", "exited"}

\* The three kinds of frame differ.
LEMMA FrameKinds ==
    /\ OpenFrame # CloseFrame
    /\ \A d \in Direction, n \in Piece :
          DataFrame(d, n) # OpenFrame /\ DataFrame(d, n) # CloseFrame
    /\ \A d, e \in Direction : \A m, n \in Piece :
          DataFrame(d, m) = DataFrame(e, n) => d = e /\ m = n
<1>1. OpenFrame.type = "open" /\ CloseFrame.type = "close"
    BY DEF OpenFrame, CloseFrame
<1>2. \A d \in Direction, n \in Piece :
         /\ DataFrame(d, n).type = "data"
         /\ DataFrame(d, n).dir = d /\ DataFrame(d, n).piece = n
    BY DEF DataFrame
<1>3. \A d, e \in Direction : \A m, n \in Piece :
         DataFrame(d, m) = DataFrame(e, n) => d = e /\ m = n
    <2> TAKE d, e \in Direction
    <2> TAKE m, n \in Piece
    <2> HAVE DataFrame(d, m) = DataFrame(e, n)
    <2> QED
        BY <1>2
<1>4. \A d \in Direction, n \in Piece :
         DataFrame(d, n) # OpenFrame /\ DataFrame(d, n) # CloseFrame
    BY <1>1, <1>2
<1>5. QED
    BY <1>1, <1>3, <1>4

\* What appending does to a sequence, in the form the steps below use.
LEMMA Appended ==
    ASSUME NEW S, NEW s \in Seq(S), NEW x \in S
    PROVE  /\ Append(s, x) \in Seq(S)
           /\ Len(s) \in Nat /\ Len(Append(s, x)) = Len(s) + 1
           /\ \A i \in 1 .. Len(s) : Append(s, x)[i] = s[i]
           /\ Append(s, x)[Len(s) + 1] = x
BY AppendProperties, LenProperties
-----------------------------------------------------------------------------
(* Types.                                                                  *)

LEMMA TypeInit == Init => TypeOK
<1> SUFFICES ASSUME Init PROVE TypeOK
    OBVIOUS
<1>1. open \in [Peer -> BOOLEAN] /\ peerUp \in [Peer -> BOOLEAN]
    BY Zenon DEF Init
<1>2. frames \in Seq(Frames) /\ lines \in Seq(Line)
    BY EmptySeq DEF Init
<1>3. 0 \in 0 .. MaxPieces /\ 1 \in Object
    BY ConnectionAssumption DEF Object
<1>4. QED
    BY <1>1, <1>2, <1>3 DEF Init, TypeOK

LEMMA TypeStep == TypeOK /\ [Next]_vars => TypeOK'
<1> SUFFICES ASSUME TypeOK, [Next]_vars PROVE TypeOK'
    OBVIOUS
<1> USE DEF TypeOK, Goto
<1>1. ASSUME NEW p \in Peer, PeerGoes(p) PROVE TypeOK'
    BY <1>1 DEF PeerGoes, relays, own, control
<1>2. CASE DialFails
    BY <1>2 DEF DialFails, relays, control
<1>3. CASE DialOk
    BY <1>3 DEF DialOk, relays, control
<1>4. CASE Start
    <2>1. frames' \in Seq(Frames)
        BY <1>4 DEF Start, Emit, Frames
    <2>2. QED
        BY <1>4, <2>1 DEF Start, control
<1>5. CASE Wait
    BY <1>5 DEF Wait, relays, control
<1>6. CASE SendClose
    <2>1. frames' \in Seq(Frames)
        BY <1>6 DEF SendClose, Emit, Frames
    <2>2. QED
        BY <1>6, <2>1 DEF SendClose, relays, control
<1>7. CASE Release
    BY <1>7 DEF Release, relays, control
<1>8. ASSUME NEW d \in Direction, Check(d) PROVE TypeOK'
    BY <1>8 DEF Check, Leave, own, control
<1>9. ASSUME NEW d \in Direction, ReadTimeout(d) PROVE TypeOK'
    BY <1>9 DEF ReadTimeout, own, control
<1>10. ASSUME NEW d \in Direction, Read(d) PROVE TypeOK'
    <2>1. piece[d] + 1 \in 1 .. MaxPieces
        BY <1>10, ConnectionAssumption DEF Read, Unread, Direction
    <2>2. piece' \in [Direction -> 0 .. MaxPieces]
        BY <1>10, <2>1 DEF Read
    <2>3. piece'[d] > 0 /\ \A e \in Direction \ {d} : piece'[e] = piece[e]
        BY <1>10, <2>1 DEF Read
    <2>4. QED
        BY <1>10, <2>2, <2>3 DEF Read, own, control
<1>11. ASSUME NEW d \in Direction, ReadFails(d) PROVE TypeOK'
    BY <1>11 DEF ReadFails, Leave, own, control
<1>12. ASSUME NEW d \in Direction, WriteOk(d) PROVE TypeOK'
    BY <1>12 DEF WriteOk, own, control
<1>13. ASSUME NEW d \in Direction, WriteFails(d) PROVE TypeOK'
    BY <1>13 DEF WriteFails, Leave, own, control
<1>14. ASSUME NEW d \in Direction, Decide(d) PROVE TypeOK'
    BY <1>14 DEF Decide, own, control
<1>15. ASSUME NEW d \in Direction, Fetch(d) PROVE TypeOK'
    BY <1>15 DEF Fetch, own, control
<1>16. ASSUME NEW d \in Direction, Record(d) PROVE TypeOK'
    <2>1. [file |-> held[d], dir |-> d, piece |-> piece[d]] \in Line
        BY <1>16, ConnectionAssumption DEF Record, Line, Piece
    <2>2. lines' \in Seq(Line)
        BY <1>16, <2>1 DEF Record
    <2>3. QED
        BY <1>16, <2>2 DEF Record, own, control
<1>17. ASSUME NEW d \in Direction, RecordFails(d) PROVE TypeOK'
    BY <1>17 DEF RecordFails, own, control
<1>18. ASSUME NEW d \in Direction, Send(d) PROVE TypeOK'
    <2>1. DataFrame(d, piece[d]) \in Frames
        BY <1>18, ConnectionAssumption DEF Send, Frames, Piece
    <2>2. frames' \in Seq(Frames)
        BY <1>18, <2>1 DEF Send, Emit
    <2>3. QED
        BY <1>18, <2>2 DEF Send, own, control
<1>19. CASE SetRecording
    BY <1>19, ConnectionAssumption DEF SetRecording, relays, own, control, Object
<1>20. CASE Signal
    BY <1>20 DEF Signal, relays, own
<1>21. CASE Exit
    BY <1>21 DEF Exit, relays, own
<1>22. CASE UNCHANGED vars
    BY <1>22 DEF vars
<1>23. QED
    BY <1>1, <1>2, <1>3, <1>4, <1>5, <1>6, <1>7, <1>8, <1>9, <1>10, <1>11, <1>12,
       <1>13, <1>14, <1>15, <1>16, <1>17, <1>18, <1>19, <1>20, <1>21, <1>22
    DEF Next, Handler, Relay

(* Type correctness: a relay that has a piece in hand has read one, and    *)
(* only read pieces are sent or recorded.                                  *)
THEOREM TypeCorrect == Spec => []TypeOK
BY TypeInit, TypeStep, PTL DEF Spec
-----------------------------------------------------------------------------
(* OPEN first, CLOSE last.                                                 *)

\* What has been sent, and where the relays are, at each stage of the handler.
Stage ==
    /\ handler \in {"accepted", "start"} =>
          Len(frames) = 0 /\ \A d \in Direction : relay[d] = "none"
    /\ handler = "wait" => Len(frames) > 0
    /\ handler \in {"close", "release"} =>
          Len(frames) > 0 /\ \A d \in Direction : relay[d] = "exited"
    /\ handler = "done" => \A d \in Direction : relay[d] \in {"none", "exited"}

\* A relay that runs keeps the handler in Wait.
LEMMA Running ==
    ASSUME TypeOK, Stage, NEW d \in Direction, relay[d] \notin {"none", "exited"}
    PROVE  handler = "wait"
BY DEF TypeOK, Stage

LEMMA BracketInit == Init => Stage /\ Bracketed
BY DEF Init, Stage, Bracketed

\* A step that sends nothing and leaves the handler, or moves one running relay.
LEMMA BracketQuiet ==
    ASSUME TypeOK, Stage, Bracketed, UNCHANGED <<handler, frames>>,
           \/ UNCHANGED relay
           \/ \E d \in Direction : \E to \in RelayStates \ {"none"} :
                relay[d] \notin {"none", "exited"} /\ Goto(d, to)
    PROVE  Stage' /\ Bracketed'
<1>1. Bracketed'
    BY DEF Bracketed
<1>2. CASE UNCHANGED relay
    BY <1>1, <1>2 DEF Stage
<1>3. ASSUME NEW d \in Direction, NEW to, relay[d] \notin {"none", "exited"}, Goto(d, to)
      PROVE  Stage'
    BY <1>3, Running DEF Stage
<1>4. QED
    BY <1>1, <1>2, <1>3

LEMMA BracketStep == TypeOK /\ Stage /\ Bracketed /\ [Next]_vars => Stage' /\ Bracketed'
<1> SUFFICES ASSUME TypeOK, Stage, Bracketed, [Next]_vars PROVE Stage' /\ Bracketed'
    OBVIOUS
<1>0. frames \in Seq(Frames) /\ OpenFrame \in Frames /\ CloseFrame \in Frames
    BY DEF TypeOK, Frames
<1>1. ASSUME NEW p \in Peer, PeerGoes(p) PROVE Stage' /\ Bracketed'
    BY <1>1, BracketQuiet DEF PeerGoes, relays, own
<1>2. CASE DialFails
    BY <1>2 DEF DialFails, relays, Stage, Bracketed
<1>3. CASE DialOk
    BY <1>3 DEF DialOk, relays, Stage, Bracketed
<1>4. CASE Start
    <2>1. frames' = Append(frames, OpenFrame) /\ Len(frames) = 0 /\ handler' = "wait"
        BY <1>4 DEF Start, Emit, Stage
    <2>2. Len(frames') = 1 /\ frames'[1] = OpenFrame
        BY <1>0, <2>1, Appended
    <2>3. Bracketed'
        BY <2>2, FrameKinds DEF Bracketed
    <2>4. Stage'
        BY <2>1, <2>2 DEF Stage
    <2>5. QED
        BY <2>3, <2>4
<1>5. CASE Wait
    BY <1>5 DEF Wait, relays, Stage, Bracketed
<1>6. CASE SendClose
    <2>1. /\ frames' = Append(frames, CloseFrame) /\ Len(frames) > 0
          /\ handler = "close" /\ handler' = "release" /\ UNCHANGED relay
        BY <1>6 DEF SendClose, Emit, Stage, relays
    <2>2. /\ Len(frames') = Len(frames) + 1 /\ Len(frames) \in Nat
          /\ \A i \in 1 .. Len(frames) : frames'[i] = frames[i]
          /\ frames'[Len(frames) + 1] = CloseFrame
        BY <1>0, <2>1, Appended
    <2>3. \A i \in 1 .. Len(frames) : frames[i] # CloseFrame
        BY <2>1 DEF Bracketed
    <2>4. Bracketed'
        BY <2>1, <2>2, <2>3, FrameKinds DEF Bracketed
    <2>5. Stage'
        BY <2>1, <2>2 DEF Stage
    <2>6. QED
        BY <2>4, <2>5
<1>7. CASE Release
    BY <1>7 DEF Release, relays, Stage, Bracketed
<1>8. ASSUME NEW d \in Direction, Check(d) PROVE Stage' /\ Bracketed'
    BY <1>8, BracketQuiet DEF Check, Leave, own, RelayStates
<1>9. ASSUME NEW d \in Direction, ReadTimeout(d) PROVE Stage' /\ Bracketed'
    BY <1>9, BracketQuiet DEF ReadTimeout, own, RelayStates
<1>10. ASSUME NEW d \in Direction, Read(d) PROVE Stage' /\ Bracketed'
    BY <1>10, BracketQuiet DEF Read, own, RelayStates
<1>11. ASSUME NEW d \in Direction, ReadFails(d) PROVE Stage' /\ Bracketed'
    BY <1>11, BracketQuiet DEF ReadFails, Leave, own, RelayStates
<1>12. ASSUME NEW d \in Direction, WriteOk(d) PROVE Stage' /\ Bracketed'
    BY <1>12, BracketQuiet DEF WriteOk, own, RelayStates
<1>13. ASSUME NEW d \in Direction, WriteFails(d) PROVE Stage' /\ Bracketed'
    BY <1>13, BracketQuiet DEF WriteFails, Leave, own, RelayStates
<1>14. ASSUME NEW d \in Direction, Decide(d) PROVE Stage' /\ Bracketed'
    BY <1>14, BracketQuiet DEF Decide, own, RelayStates
<1>15. ASSUME NEW d \in Direction, Fetch(d) PROVE Stage' /\ Bracketed'
    BY <1>15, BracketQuiet DEF Fetch, own, RelayStates
<1>16. ASSUME NEW d \in Direction, Record(d) PROVE Stage' /\ Bracketed'
    BY <1>16, BracketQuiet DEF Record, own, RelayStates
<1>17. ASSUME NEW d \in Direction, RecordFails(d) PROVE Stage' /\ Bracketed'
    BY <1>17, BracketQuiet DEF RecordFails, own, RelayStates
<1>18. ASSUME NEW d \in Direction, Send(d) PROVE Stage' /\ Bracketed'
    <2> DEFINE f == DataFrame(d, piece[d])
    <2>1. /\ frames' = Append(frames, f) /\ relay' = [relay EXCEPT ![d] = "check"]
          /\ handler' = handler /\ relay[d] = "send"
        BY <1>18 DEF Send, Emit, Goto, own
    <2>2. handler = "wait" /\ Len(frames) > 0
        BY <2>1, Running DEF Stage
    <2>3. piece[d] \in Piece
        BY <2>1, ConnectionAssumption DEF TypeOK, Piece
    <2>4. f \in Frames /\ f # OpenFrame /\ f # CloseFrame
        BY <2>3, FrameKinds DEF Frames
    <2> HIDE DEF f
    <2>5. /\ Len(frames') = Len(frames) + 1 /\ Len(frames) \in Nat
          /\ \A i \in 1 .. Len(frames) : frames'[i] = frames[i]
          /\ frames'[Len(frames) + 1] = f
        BY <1>0, <2>1, <2>4, Appended
    <2>6. \A i \in 1 .. Len(frames) : frames[i] # CloseFrame
        BY <2>2 DEF Bracketed
    <2>7. Bracketed'
        BY <2>2, <2>4, <2>5, <2>6 DEF Bracketed
    <2>8. Stage'
        BY <2>1, <2>2, <2>5 DEF Stage
    <2>9. QED
        BY <2>7, <2>8
<1>19. CASE SetRecording
    BY <1>19, BracketQuiet DEF SetRecording, relays, own
<1>20. CASE Signal
    BY <1>20, BracketQuiet DEF Signal, relays, own
<1>21. CASE Exit
    BY <1>21, BracketQuiet DEF Exit, relays, own
<1>22. CASE UNCHANGED vars
    BY <1>22, BracketQuiet DEF vars
<1>23. QED
    BY <1>1, <1>2, <1>3, <1>4, <1>5, <1>6, <1>7, <1>8, <1>9, <1>10, <1>11, <1>12,
       <1>13, <1>14, <1>15, <1>16, <1>17, <1>18, <1>19, <1>20, <1>21, <1>22
    DEF Next, Handler, Relay

(* Nothing is given to the IPC client before OPEN or after CLOSE: Close    *)
(* runs when both relays have ended, and they start after Start has sent   *)
(* OPEN.                                                                   *)
THEOREM FramesBracketed == Spec => []Bracketed
BY TypeInit, TypeStep, BracketInit, BracketStep, PTL DEF Spec
-----------------------------------------------------------------------------
(* What is sent and recorded is what was forwarded.  The parts of          *)
(* CopyIsStream by name, and the files they need.                          *)

InHand  == {"write", "decide", "fetch", "record", "send"}
Between == {"check", "read", "exited"}

Complete(d) ==
    \A n \in 1 .. piece[d] :
        Copied(d, n) \/ (n = piece[d] /\ relay[d] \in InHand \cup {"exited"})

Ordered(d) ==
    \A i, j \in 1 .. Len(frames) : \A m, n \in Piece :
        i < j /\ frames[i] = DataFrame(d, m) /\ frames[j] = DataFrame(d, n) => m < n

Honest(d) ==
    \A n \in Piece : Copied(d, n) =>
        n < piece[d] \/ (n = piece[d] /\ relay[d] \in Between)

LinesOrdered(d) ==
    \A i, j \in 1 .. Len(lines) :
        i < j /\ lines[i].dir = d /\ lines[j].dir = d =>
            lines[i].piece < lines[j].piece /\ lines[i].file <= lines[j].file

LinesHonest(d) ==
    \A i \in 1 .. Len(lines) : lines[i].dir = d =>
        lines[i].piece < piece[d] \/
        (lines[i].piece = piece[d] /\ relay[d] \in Between \cup {"send"})

\* A relay never goes back to an older file.
Files(d) ==
    /\ held[d] <= recording
    /\ \A i \in 1 .. Len(lines) : lines[i].dir = d => lines[i].file <= held[d]

Sent(d)     == Complete(d) /\ Ordered(d) /\ Honest(d)
Recorded(d) == LinesOrdered(d) /\ LinesHonest(d) /\ Files(d)
Stream      == \A d \in Direction : Sent(d) /\ Recorded(d)

LEMMA StreamInit == Init => Stream
BY ConnectionAssumption
DEF Init, Stream, Sent, Recorded, Complete, Ordered, Honest, LinesOrdered,
    LinesHonest, Files, Copied

\* What a new frame adds to the pieces copied.
LEMMA CopiedGrows ==
    ASSUME TypeOK, NEW f \in Frames, frames' = Append(frames, f),
           NEW d \in Direction, NEW n \in Piece
    PROVE  Copied(d, n)' <=> Copied(d, n) \/ f = DataFrame(d, n)
<1>1. frames \in Seq(Frames)
    BY DEF TypeOK
<1>2. /\ Len(frames') = Len(frames) + 1 /\ Len(frames) \in Nat
      /\ \A i \in 1 .. Len(frames) : frames'[i] = frames[i]
      /\ frames'[Len(frames) + 1] = f
    BY <1>1, Appended
<1>3. QED
    BY <1>2 DEF Copied

\* Frames of no piece of d change nothing for d.
LEMMA OrderedKept ==
    ASSUME TypeOK, NEW f \in Frames, frames' = Append(frames, f),
           NEW d \in Direction, Ordered(d), \A n \in Piece : f # DataFrame(d, n)
    PROVE  Ordered(d)'
<1>1. frames \in Seq(Frames)
    BY DEF TypeOK
<1>2. /\ Len(frames') = Len(frames) + 1 /\ Len(frames) \in Nat
      /\ \A i \in 1 .. Len(frames) : frames'[i] = frames[i]
      /\ frames'[Len(frames) + 1] = f
    BY <1>1, Appended
<1>3. QED
    BY <1>2 DEF Ordered

\* The moves of relay d that neither send nor record: from one piece to the
\* next, or on its course with a piece in hand.
Moves(d) ==
    \/ /\ piece'[d] = piece[d]
       /\ \/ relay'[d] = relay[d]
          \/ relay[d] = "none" /\ relay'[d] = "check"
          \/ relay[d] \in {"check", "read"} /\ relay'[d] \in Between
          \/ relay[d] = "write" /\ relay'[d] \in {"decide", "exited"}
          \/ relay[d] = "decide" /\ relay'[d] \in {"fetch", "send"}
          \/ relay[d] = "fetch" /\ relay'[d] = "record"
          \/ relay[d] = "record" /\ relay'[d] = "send"
    \/ relay[d] = "read" /\ relay'[d] = "write" /\ piece'[d] = piece[d] + 1

LEMMA SentMoves ==
    ASSUME TypeOK, NEW d \in Direction, Sent(d), Moves(d),
           \A n \in Piece : Copied(d, n)' <=> Copied(d, n)
    PROVE  Complete(d)' /\ Honest(d)'
<1>1. piece[d] \in 0 .. MaxPieces
    BY DEF TypeOK
<1>2. CASE piece'[d] = piece[d]
    <2>1. \A n \in 1 .. piece[d] : n \in Piece
        BY <1>1, ConnectionAssumption DEF Piece
    <2>2. Complete(d)'
        BY <1>1, <1>2, <2>1 DEF Sent, Complete, Moves, InHand, Between
    <2>3. Honest(d)'
        BY <1>1, <1>2 DEF Sent, Honest, Moves, Between
    <2>4. QED
        BY <2>2, <2>3
<1>3. CASE relay[d] = "read" /\ relay'[d] = "write" /\ piece'[d] = piece[d] + 1
    <2>1. \A n \in 1 .. piece[d] : Copied(d, n)
        BY <1>3 DEF Sent, Complete, InHand
    <2>2. Complete(d)'
        BY <1>1, <1>3, <2>1, ConnectionAssumption DEF Complete, InHand, Piece
    <2>3. Honest(d)'
        BY <1>1, <1>3 DEF Sent, Honest, Between, Piece
    <2>4. QED
        BY <2>2, <2>3
<1>4. QED
    BY <1>2, <1>3 DEF Moves

\* Such a move with nothing sent, or a frame that is no piece of d.
LEMMA SentKept ==
    ASSUME TypeOK, NEW d \in Direction, Sent(d), Moves(d),
           \/ UNCHANGED frames
           \/ \E f \in Frames : /\ frames' = Append(frames, f)
                                /\ \A n \in Piece : f # DataFrame(d, n)
    PROVE  Sent(d)'
<1>1. CASE UNCHANGED frames
    <2>1. \A n \in Piece : Copied(d, n)' <=> Copied(d, n)
        BY <1>1 DEF Copied
    <2>2. Ordered(d)'
        BY <1>1 DEF Sent, Ordered
    <2>3. QED
        BY <2>1, <2>2, SentMoves DEF Sent
<1>2. ASSUME NEW f \in Frames, frames' = Append(frames, f),
             \A n \in Piece : f # DataFrame(d, n)
      PROVE  Sent(d)'
    <2>1. \A n \in Piece : Copied(d, n)' <=> Copied(d, n)
        BY <1>2, CopiedGrows
    <2>2. Ordered(d)'
        BY <1>2, OrderedKept DEF Sent
    <2>3. QED
        BY <2>1, <2>2, SentMoves DEF Sent
<1>3. QED
    BY <1>1, <1>2

\* The step that sends.
LEMMA SentSends ==
    ASSUME TypeOK, NEW d \in Direction, Sent(d), relay[d] = "send",
           frames' = Append(frames, DataFrame(d, piece[d])),
           relay'[d] = "check", UNCHANGED piece
    PROVE  Sent(d)'
<1>1. piece[d] \in Piece
    BY ConnectionAssumption DEF TypeOK, Piece
<1>2. frames \in Seq(Frames) /\ DataFrame(d, piece[d]) \in Frames
    BY <1>1 DEF TypeOK, Frames
<1>3. \A n \in Piece : Copied(d, n)' <=> Copied(d, n) \/ n = piece[d]
    BY <1>1, <1>2, CopiedGrows, FrameKinds
<1>4. \A n \in Piece : Copied(d, n) => n < piece[d]
    BY DEF Sent, Honest, Between
<1>5. Complete(d)'
    <2>1. \A n \in 1 .. piece[d] : n \in Piece
        BY <1>1, ConnectionAssumption DEF Piece
    <2>2. QED
        BY <1>3, <2>1 DEF Sent, Complete
<1>6. Honest(d)'
    BY <1>3, <1>4 DEF Honest, Between
<1>7. Ordered(d)'
    <2>1. /\ Len(frames') = Len(frames) + 1 /\ Len(frames) \in Nat
          /\ \A i \in 1 .. Len(frames) : frames'[i] = frames[i]
          /\ frames'[Len(frames) + 1] = DataFrame(d, piece[d])
        BY <1>2, Appended
    <2>2. \A n \in Piece : frames'[Len(frames) + 1] = DataFrame(d, n) => n = piece[d]
        <3> TAKE n \in Piece
        <3> HAVE frames'[Len(frames) + 1] = DataFrame(d, n)
        <3>1. DataFrame(d, n) = DataFrame(d, piece[d])
            BY <2>1
        <3>2. QED
            BY <1>1, <3>1, FrameKinds
    <2>3. \A i \in 1 .. Len(frames) : \A m \in Piece :
             frames'[i] = DataFrame(d, m) => m < piece[d]
        BY <1>4, <2>1 DEF Copied
    <2>4. QED
        BY <2>1, <2>2, <2>3 DEF Sent, Ordered
<1>8. QED
    BY <1>5, <1>6, <1>7 DEF Sent
-----------------------------------------------------------------------------
(* The same for the lines.                                                 *)

LEMMA RecordedKept ==
    ASSUME TypeOK, NEW d \in Direction, Recorded(d), Moves(d),
           held'[d] = held[d], recording' \in Object, recording <= recording',
           \/ UNCHANGED lines
           \/ \E l \in Line : lines' = Append(lines, l) /\ l.dir # d
    PROVE  Recorded(d)'
<1>1. /\ lines \in Seq(Line) /\ piece[d] \in 0 .. MaxPieces
      /\ held[d] \in Object /\ recording \in Object
    BY DEF TypeOK
<1>2. /\ Len(lines) \in Nat /\ Len(lines') \in Nat
      /\ \A i \in 1 .. Len(lines') : lines'[i].dir = d =>
            i \in 1 .. Len(lines) /\ lines'[i] = lines[i]
    <2>1. CASE UNCHANGED lines
        BY <1>1, <2>1, LenProperties
    <2>2. ASSUME NEW l \in Line, lines' = Append(lines, l), l.dir # d
          PROVE  /\ Len(lines) \in Nat /\ Len(lines') \in Nat
                 /\ \A i \in 1 .. Len(lines') : lines'[i].dir = d =>
                       i \in 1 .. Len(lines) /\ lines'[i] = lines[i]
        BY <1>1, <2>2, Appended
    <2>3. QED
        BY <2>1, <2>2
<1>3. \A i \in 1 .. Len(lines) : lines[i].piece \in Piece /\ lines[i].file \in Object
    <2>1. \A i \in 1 .. Len(lines) : lines[i] \in Line
        BY <1>1, ElementOfSeq
    <2>2. QED
        BY <2>1 DEF Line
<1>4. LinesOrdered(d)'
    BY <1>2 DEF Recorded, LinesOrdered
<1>5. LinesHonest(d)'
    BY <1>1, <1>2, <1>3 DEF Recorded, LinesHonest, Moves, Between, Piece
<1>6. Files(d)'
    BY <1>1, <1>2 DEF Recorded, Files, Object
<1>7. QED
    BY <1>4, <1>5, <1>6 DEF Recorded

LEMMA RecordedFetches ==
    ASSUME TypeOK, NEW d \in Direction, Recorded(d), Fetch(d)
    PROVE  Recorded(d)'
<1>1. /\ lines \in Seq(Line) /\ held[d] \in Object /\ recording \in Object
    BY DEF TypeOK
<1>2. \A i \in 1 .. Len(lines) : lines[i].file \in Object
    <2>1. \A i \in 1 .. Len(lines) : lines[i] \in Line
        BY <1>1, ElementOfSeq
    <2>2. QED
        BY <2>1 DEF Line
<1>3. /\ relay[d] = "fetch" /\ relay'[d] = "record" /\ held'[d] = recording
      /\ UNCHANGED <<lines, piece, recording>>
    BY DEF Fetch, Goto, TypeOK
<1>4. LinesOrdered(d)' /\ LinesHonest(d)'
    BY <1>3 DEF Recorded, LinesOrdered, LinesHonest, Between
<1>5. Files(d)'
    BY <1>1, <1>2, <1>3 DEF Recorded, Files, Object
<1>6. QED
    BY <1>4, <1>5 DEF Recorded

LEMMA RecordedRecords ==
    ASSUME TypeOK, NEW d \in Direction, Recorded(d), Record(d)
    PROVE  Recorded(d)'
<1> DEFINE l == [file |-> held[d], dir |-> d, piece |-> piece[d]]
<1>1. /\ lines \in Seq(Line) /\ held[d] \in Object /\ recording \in Object
      /\ piece[d] \in Piece
    BY ConnectionAssumption DEF TypeOK, Record, Piece
<1>2. l \in Line /\ l.file = held[d] /\ l.dir = d /\ l.piece = piece[d]
    BY <1>1 DEF Line
<1>3. /\ relay[d] = "record" /\ relay'[d] = "send" /\ lines' = Append(lines, l)
      /\ UNCHANGED <<held, piece, recording>>
    BY DEF Record, Goto, TypeOK
<1> HIDE DEF l
<1>4. /\ Len(lines') = Len(lines) + 1 /\ Len(lines) \in Nat
      /\ \A i \in 1 .. Len(lines) : lines'[i] = lines[i]
      /\ lines'[Len(lines) + 1] = l
    BY <1>1, <1>2, <1>3, Appended
<1>5. \A i \in 1 .. Len(lines) :
         lines[i].dir = d => lines[i].piece < piece[d] /\ lines[i].file <= held[d]
    BY <1>3 DEF Recorded, LinesHonest, Files, Between
<1>6. LinesOrdered(d)'
    BY <1>2, <1>4, <1>5 DEF Recorded, LinesOrdered
<1>7. LinesHonest(d)'
    BY <1>2, <1>3, <1>4, <1>5 DEF LinesHonest
<1>8. Files(d)'
    BY <1>1, <1>2, <1>3, <1>4, <1>5 DEF Recorded, Files, Object
<1>9. QED
    BY <1>6, <1>7, <1>8 DEF Recorded
-----------------------------------------------------------------------------
\* A step that leaves relay e alone, whatever frame or line it adds for others.
LEMMA OthersKept ==
    ASSUME TypeOK, Stream, NEW e \in Direction,
           piece'[e] = piece[e], relay'[e] = relay[e], held'[e] = held[e],
           recording' \in Object, recording <= recording',
           \/ UNCHANGED frames
           \/ \E f \in Frames : /\ frames' = Append(frames, f)
                                /\ \A n \in Piece : f # DataFrame(e, n),
           \/ UNCHANGED lines
           \/ \E l \in Line : lines' = Append(lines, l) /\ l.dir # e
    PROVE  Sent(e)' /\ Recorded(e)'
<1>1. Moves(e) /\ Sent(e) /\ Recorded(e)
    BY DEF Moves, Stream
<1>2. QED
    BY <1>1, SentKept, RecordedKept

\* A step that moves only relay d, and neither sends nor records.
LEMMA MoveKeeps ==
    ASSUME TypeOK, Stream, NEW d \in Direction, Moves(d),
           \A e \in Direction \ {d} : piece'[e] = piece[e] /\ relay'[e] = relay[e],
           UNCHANGED <<held, recording, frames, lines>>
    PROVE  Stream'
<1>1. recording' \in Object /\ recording <= recording'
    BY DEF TypeOK, Object
<1>2. ASSUME NEW e \in Direction PROVE Sent(e)' /\ Recorded(e)'
    <2>1. Moves(e) /\ held'[e] = held[e] /\ Sent(e) /\ Recorded(e)
        BY DEF Moves, Stream
    <2>2. QED
        BY <1>1, <2>1, SentKept, RecordedKept
<1>3. QED
    BY <1>2 DEF Stream

LEMMA StreamStep == TypeOK /\ TypeOK' /\ Stage /\ Stream /\ [Next]_vars => Stream'
<1> SUFFICES ASSUME TypeOK, TypeOK', Stage, Stream, [Next]_vars PROVE Stream'
    OBVIOUS
<1>0. recording \in Object /\ recording' \in Object
    BY DEF TypeOK
<1>1. CASE UNCHANGED <<piece, relay, held, recording, frames, lines>>
    BY <1>1, OthersKept, <1>0 DEF Stream, Object
<1>2. CASE Start
    <2>1. /\ frames' = Append(frames, OpenFrame) /\ OpenFrame \in Frames
          /\ \A e \in Direction : \A n \in Piece : OpenFrame # DataFrame(e, n)
        BY <1>2, FrameKinds DEF Start, Emit, Frames
    <2>2. ASSUME NEW e \in Direction PROVE Sent(e)' /\ Recorded(e)'
        <3>1. Moves(e) /\ held'[e] = held[e] /\ Sent(e) /\ Recorded(e)
            BY <1>2 DEF Start, Stage, Moves, Stream
        <3>2. recording <= recording' /\ UNCHANGED lines
            BY <1>0, <1>2 DEF Start, Object
        <3>3. QED
            BY <1>0, <2>1, <3>1, <3>2, SentKept, RecordedKept
    <2>3. QED
        BY <2>2 DEF Stream
<1>3. CASE SendClose
    <2>1. /\ frames' = Append(frames, CloseFrame) /\ CloseFrame \in Frames
          /\ \A e \in Direction : \A n \in Piece : CloseFrame # DataFrame(e, n)
        BY <1>3, FrameKinds DEF SendClose, Emit, Frames
    <2>2. UNCHANGED <<piece, relay, held, recording, lines>>
        BY <1>3 DEF SendClose, relays
    <2>3. \A e \in Direction : Sent(e)' /\ Recorded(e)'
        BY <1>0, <2>1, <2>2, OthersKept DEF Object
    <2>4. QED
        BY <2>3 DEF Stream
<1>4. ASSUME NEW d \in Direction, Check(d) PROVE Stream'
    BY <1>4, MoveKeeps DEF Check, Leave, Goto, Moves, Between, TypeOK
<1>5. ASSUME NEW d \in Direction, ReadTimeout(d) PROVE Stream'
    BY <1>5, MoveKeeps DEF ReadTimeout, Goto, Moves, Between, TypeOK
<1>6. ASSUME NEW d \in Direction, Read(d) PROVE Stream'
    BY <1>6, MoveKeeps DEF Read, Goto, Moves, TypeOK
<1>7. ASSUME NEW d \in Direction, ReadFails(d) PROVE Stream'
    BY <1>7, MoveKeeps DEF ReadFails, Leave, Goto, Moves, Between, TypeOK
<1>8. ASSUME NEW d \in Direction, WriteOk(d) PROVE Stream'
    BY <1>8, MoveKeeps DEF WriteOk, Goto, Moves, TypeOK
<1>9. ASSUME NEW d \in Direction, WriteFails(d) PROVE Stream'
    BY <1>9, MoveKeeps DEF WriteFails, Leave, Goto, Moves, TypeOK
<1>10. ASSUME NEW d \in Direction, Decide(d) PROVE Stream'
    BY <1>10, MoveKeeps DEF Decide, Goto, Moves, TypeOK
<1>11. ASSUME NEW d \in Direction, RecordFails(d) PROVE Stream'
    BY <1>11, MoveKeeps DEF RecordFails, Goto, Moves, TypeOK
<1>12. ASSUME NEW d \in Direction, Fetch(d) PROVE Stream'
    <2>1. /\ UNCHANGED <<piece, recording, frames, lines>>
          /\ relay[d] = "fetch" /\ relay'[d] = "record"
          /\ \A e \in Direction \ {d} : relay'[e] = relay[e] /\ held'[e] = held[e]
        BY <1>12 DEF Fetch, Goto, TypeOK
    <2>2. Moves(d) /\ Sent(d) /\ Recorded(d)
        BY <2>1 DEF Moves, Stream
    <2>3. Sent(d)' /\ Recorded(d)'
        BY <1>12, <2>1, <2>2, SentKept, RecordedFetches
    <2>4. \A e \in Direction \ {d} : Sent(e)' /\ Recorded(e)'
        BY <1>0, <2>1, OthersKept DEF Object
    <2>5. QED
        BY <2>3, <2>4 DEF Stream
<1>13. ASSUME NEW d \in Direction, Record(d) PROVE Stream'
    <2> DEFINE l == [file |-> held[d], dir |-> d, piece |-> piece[d]]
    <2>1. /\ UNCHANGED <<piece, held, recording, frames>> /\ lines' = Append(lines, l)
          /\ relay[d] = "record" /\ relay'[d] = "send"
          /\ \A e \in Direction \ {d} : relay'[e] = relay[e]
        BY <1>13 DEF Record, Goto, TypeOK
    <2>2. l \in Line /\ l.dir = d
        BY <2>1, ConnectionAssumption DEF TypeOK, Line, Piece
    <2> HIDE DEF l
    <2>3. Moves(d) /\ Sent(d) /\ Recorded(d)
        BY <2>1 DEF Moves, Stream
    <2>4. Sent(d)' /\ Recorded(d)'
        BY <1>13, <2>1, <2>3, SentKept, RecordedRecords
    <2>5. \A e \in Direction \ {d} : Sent(e)' /\ Recorded(e)'
        BY <1>0, <2>1, <2>2, OthersKept DEF Object
    <2>6. QED
        BY <2>4, <2>5 DEF Stream
<1>14. ASSUME NEW d \in Direction, Send(d) PROVE Stream'
    <2> DEFINE f == DataFrame(d, piece[d])
    <2>1. /\ UNCHANGED <<piece, held, recording, lines>> /\ frames' = Append(frames, f)
          /\ relay[d] = "send" /\ relay'[d] = "check"
          /\ \A e \in Direction \ {d} : relay'[e] = relay[e]
        BY <1>14 DEF Send, Goto, Emit, TypeOK
    <2>2. piece[d] \in Piece
        BY <2>1, ConnectionAssumption DEF TypeOK, Piece
    <2>3. f \in Frames /\ \A e \in Direction \ {d} : \A n \in Piece : f # DataFrame(e, n)
        BY <2>2, FrameKinds DEF Frames
    <2>4. Sent(d)'
        BY <2>1, SentSends DEF Stream
    <2>5. Recorded(d)'
        BY <2>1 DEF Stream, Recorded, LinesOrdered, LinesHonest, Files, Between
    <2> HIDE DEF f
    <2>6. \A e \in Direction \ {d} : Sent(e)' /\ Recorded(e)'
        BY <1>0, <2>1, <2>3, OthersKept DEF Object
    <2>7. QED
        BY <2>4, <2>5, <2>6 DEF Stream
<1>15. CASE SetRecording
    BY <1>0, <1>15, OthersKept DEF SetRecording, relays, Stream, Object
<1>16. QED
    BY <1>1, <1>2, <1>3, <1>4, <1>5, <1>6, <1>7, <1>8, <1>9, <1>10, <1>11, <1>12,
       <1>13, <1>14, <1>15
    DEF Next, Handler, Relay, PeerGoes, DialFails, DialOk, Wait, Release, Signal,
        Exit, relays, vars

(* The Analyzer's copy and the recording are the forwarded stream, in      *)
(* order, whatever the relays, the watcher and the peers do.               *)
THEOREM CopyFaithful == Spec => []CopyIsStream
<1>1. Stream => CopyIsStream
    BY DEF Stream, Sent, Recorded, Complete, Ordered, Honest, LinesOrdered,
           LinesHonest, CopyIsStream, InHand, Between
<1>2. QED
    BY <1>1, TypeInit, TypeStep, BracketInit, BracketStep, StreamInit, StreamStep,
       PTL DEF Spec
=============================================================================
