-------------------------- MODULE IPCClientProofs --------------------------
(***************************************************************************)
(* Theorems about IPCClient, for every ring size, number of frames and set *)
(* of relays.                                                              *)
(***************************************************************************)
EXTENDS IPCClient, SequenceTheorems, TLAPS
-----------------------------------------------------------------------------
(* Arithmetic of the ring.                                                 *)

\* What the remainders of client.go are, for the values that occur.
LEMMA WrapValue ==
    ASSUME NEW x \in 0 .. 3 * BufferSize - 1
    PROVE  Wrap(x) = IF x < BufferSize THEN x
                     ELSE IF x < 2 * BufferSize THEN x - BufferSize
                     ELSE x - 2 * BufferSize
BY ClientAssumption DEF Wrap

LEMMA AfterValue ==
    ASSUME NEW i \in Slot
    PROVE  /\ After(i) = IF i = BufferSize - 1 THEN 0 ELSE i + 1
           /\ After(i) \in Slot
BY ClientAssumption, WrapValue DEF After, Slot

LEMMA BeforeValue ==
    ASSUME NEW i \in Slot
    PROVE  /\ Before(i) = IF i = 0 THEN BufferSize - 1 ELSE i - 1
           /\ Before(i) \in Slot
BY ClientAssumption, WrapValue DEF Before, Slot

\* The tail, count slots after the head, follows every move of Send, popFrame
\* and pushFront.
LEMMA TailFollows ==
    ASSUME NEW h \in Slot, NEW t \in Slot, NEW c \in 0 .. BufferSize + 1,
           t = Wrap(h + c)
    PROVE  /\ c <= BufferSize => After(t) = Wrap(h + (c + 1))
           /\ c <= BufferSize => t = Wrap(Before(h) + (c + 1))
           /\ c > 0 => t = Wrap(After(h) + (c - 1))
           /\ After(t) = Wrap(After(h) + c)
<1> USE ClientAssumption, AfterValue, BeforeValue, WrapValue DEF Slot
<1>1. c <= BufferSize => After(t) = Wrap(h + (c + 1))
    OBVIOUS
<1>2. c <= BufferSize => t = Wrap(Before(h) + (c + 1))
    OBVIOUS
<1>3. c > 0 => t = Wrap(After(h) + (c - 1))
    OBVIOUS
<1>4. After(t) = Wrap(After(h) + c)
    OBVIOUS
<1>5. QED
    BY <1>1, <1>2, <1>3, <1>4
-----------------------------------------------------------------------------
(* Types and indices.                                                      *)

LEMMA GeometryInit == Init => TypeOK /\ RingGeometry
BY ClientAssumption DEF Init, TypeOK, RingGeometry, Slot, Frame, NoFrame

LEMMA GeometryStep ==
    TypeOK /\ RingGeometry /\ [Next]_vars => TypeOK' /\ RingGeometry'
<1> SUFFICES ASSUME TypeOK, RingGeometry, [Next]_vars
             PROVE  TypeOK' /\ RingGeometry'
    OBVIOUS
<1> USE ClientAssumption DEF TypeOK, RingGeometry, Frame, NoFrame
<1>1. ASSUME NEW r \in Relays, Enqueue(r) PROVE TypeOK' /\ RingGeometry'
    <2>1. CASE count < BufferSize
        BY <1>1, <2>1, AfterValue, TailFollows DEF Enqueue, closing, socket
    <2>2. CASE count >= BufferSize
        BY <1>1, <2>2, AfterValue, TailFollows DEF Enqueue, closing, socket
    <2>3. QED
        BY <2>1, <2>2
<1>2. CASE PopFrame
    BY <1>2, AfterValue, TailFollows DEF PopFrame, closing, socket
<1>3. CASE PushFront
    <2>1. overfull' \in BOOLEAN
        BY <1>3, Zenon DEF PushFront
    <2>2. QED
        BY <1>3, <2>1, BeforeValue, TailFollows DEF PushFront, closing, socket
<1>4. CASE WriteOk
    BY <1>4 DEF WriteOk, ring, closing, socket
<1>5. CASE WriteFail
    BY <1>5 DEF WriteFail, ring, closing
<1>6. CASE SelectClose
    BY <1>6 DEF SelectClose, ring, closing, socket
<1>7. CASE SelectSend
    BY <1>7 DEF SelectSend, ring, closing, socket
<1>8. CASE PopNothing
    BY <1>8 DEF PopNothing, ring, closing, socket
<1>9. CASE DropConn
    BY <1>9 DEF DropConn, ring, closing, socket
<1>10. CASE CheckClosed
    BY <1>10 DEF CheckClosed, ring, closing, socket
<1>11. CASE DialOk
    BY <1>11 DEF DialOk, ring, closing, socket
<1>12. CASE DialFail
    BY <1>12 DEF DialFail, ring, closing, socket
<1>13. CASE CloseStart
    BY <1>13 DEF CloseStart, ring, closing, socket
<1>14. CASE CloseConn
    BY <1>14 DEF CloseConn, ring, closing, socket
<1>15. CASE CloseReturn
    BY <1>15 DEF CloseReturn, ring, closing, socket
<1>16. CASE AnalyzerStops
    BY <1>16 DEF AnalyzerStops, ring, closing, socket
<1>17. CASE AnalyzerStarts
    BY <1>17 DEF AnalyzerStarts, ring, closing, socket
<1>18. ASSUME NEW r \in Relays, Signal(r) PROVE TypeOK' /\ RingGeometry'
    BY <1>18 DEF Signal, ring, closing, socket
<1>19. CASE UNCHANGED vars
    BY <1>19 DEF vars
<1>20. QED
    BY <1>1, <1>2, <1>3, <1>4, <1>5, <1>6, <1>7, <1>8, <1>9, <1>10, <1>11, <1>12, <1>13, <1>14, <1>15, <1>16, <1>17, <1>18, <1>19
    DEF Next, Sender, Closer, Analyzer

(* Type correctness.  count's bound needs RingGeometry: pushFront does not *)
(* look at count, and only the sender's holding a frame bounds it.         *)
THEOREM TypeCorrect == Spec => []TypeOK
<1>1. Spec => [](TypeOK /\ RingGeometry)
    BY GeometryInit, GeometryStep, PTL DEF Spec
<1>2. QED
    BY <1>1, PTL

(* The ring's indices agree in every reachable state.                      *)
THEOREM GeometryCorrect == Spec => []RingGeometry
<1>1. Spec => [](TypeOK /\ RingGeometry)
    BY GeometryInit, GeometryStep, PTL DEF Spec
<1>2. QED
    BY <1>1, PTL
-----------------------------------------------------------------------------
(* No frame is ever in two places.                                         *)

\* Every frame the ring, the sender or the socket holds came from a Send.
AllSent ==
    /\ \A s \in Slot : buffer[s] < next
    /\ frame < next
    /\ \A i \in 1 .. Len(written) : written[i] < next

\* The steps that move no frame.
Still == UNCHANGED <<buffer, next, frame, written>>

LEMMA StepKinds ==
    ASSUME [Next]_vars
    PROVE  \/ \E r \in Relays : Enqueue(r)
           \/ PopFrame \/ WriteOk \/ PushFront
           \/ Still /\ UNCHANGED <<head, tail, count, overfull>>
<1> USE DEF Still, ring, closing, socket
<1>1. ASSUME NEW r \in Relays, Signal(r)
      PROVE  Still /\ UNCHANGED <<head, tail, count, overfull>>
    BY <1>1 DEF Signal
<1>2. ASSUME SelectClose \/ SelectSend \/ PopNothing \/ WriteFail \/ DropConn
             \/ CheckClosed \/ DialOk \/ DialFail
      PROVE  Still /\ UNCHANGED <<head, tail, count, overfull>>
    BY <1>2 DEF SelectClose, SelectSend, PopNothing, WriteFail, DropConn,
                CheckClosed, DialOk, DialFail
<1>3. ASSUME Closer \/ Analyzer
      PROVE  Still /\ UNCHANGED <<head, tail, count, overfull>>
    BY <1>3 DEF Closer, CloseStart, CloseConn, CloseReturn, Analyzer,
                AnalyzerStops, AnalyzerStarts
<1>4. ASSUME UNCHANGED vars
      PROVE  Still /\ UNCHANGED <<head, tail, count, overfull>>
    BY <1>4 DEF vars
<1>5. QED
    BY <1>1, <1>2, <1>3, <1>4 DEF Next, Sender

LEMMA WrittenFrames ==
    ASSUME TypeOK
    PROVE  \A i \in 1 .. Len(written) : written[i] \in Frame /\ written[i] \in Int
BY ElementOfSeq, ClientAssumption DEF TypeOK, Frame

LEMMA OnceInit == Init => AtMostOnce /\ AllSent
BY ClientAssumption
DEF Init, AtMostOnce, AllSent, InRing, Written, Slot, Frame, NoFrame

LEMMA OnceStep ==
    TypeOK /\ RingGeometry /\ AtMostOnce /\ AllSent /\ [Next]_vars
        => AtMostOnce' /\ AllSent'
<1> SUFFICES ASSUME TypeOK, RingGeometry, AtMostOnce, AllSent, [Next]_vars
             PROVE  AtMostOnce' /\ AllSent'
    OBVIOUS
<1> USE DEF TypeOK, AtMostOnce, AllSent, InRing, Written, Frame, NoFrame
<1>1. ASSUME NEW r \in Relays, Enqueue(r) PROVE AtMostOnce' /\ AllSent'
    <2>1. /\ next \in Frame /\ next' = next + 1
          /\ frame' = frame /\ written' = written
          /\ buffer' = [buffer EXCEPT ![tail] = next]
        BY <1>1 DEF Enqueue
    <2>2. \A s \in Slot : buffer'[s] = IF s = tail THEN next ELSE buffer[s]
        BY <2>1
    <2>3. AllSent'
        <3>1. \A s \in Slot : buffer[s] \in Int /\ buffer'[s] < next'
            BY <2>1, <2>2
        <3>2. \A i \in 1 .. Len(written) : written[i] \in Int /\ written[i] < next
            BY WrittenFrames
        <3>3. QED
            BY <2>1, <3>1, <3>2
    <2>4. \A s, t \in Slot : buffer'[s] = buffer'[t] /\ buffer'[s] # 0 => s = t
        BY <2>2
    <2>5. \A f \in Frame : Written(f)' => ~InRing(f)' /\ frame' # f
        BY <2>1, <2>2
    <2>6. frame' # 0 => ~InRing(frame)'
        BY <2>1, <2>2
    <2>7. QED
        BY <2>1, <2>3, <2>4, <2>5, <2>6
<1>2. CASE PopFrame
    <2>1. frame = NoFrame
        BY <1>2 DEF PopFrame, RingGeometry
    <2>2. QED
        BY <1>2, <2>1 DEF PopFrame
<1>3. CASE WriteOk
    <2>1. frame \in Frame
        BY <1>3 DEF WriteOk, RingGeometry
    <2>2. /\ Len(written') = Len(written) + 1
          /\ written'[Len(written) + 1] = frame
          /\ \A i \in 1 .. Len(written) : written'[i] = written[i]
        BY <1>3, <2>1 DEF WriteOk
    <2>3. buffer' = buffer /\ next' = next /\ frame' = NoFrame
        BY <1>3 DEF WriteOk, ring
    <2>4. AllSent'
        BY <2>1, <2>2, <2>3
    <2>5. \A i, j \in 1 .. Len(written') : written'[i] = written'[j] => i = j
        BY <2>1, <2>2
    <2>6. \A f \in Frame : Written(f)' => Written(f) \/ f = frame
        BY <2>2
    <2>7. QED
        BY <2>1, <2>3, <2>4, <2>5, <2>6
<1>4. CASE PushFront
    <2>1. frame \in Frame /\ Before(head) \in Slot
        BY <1>4, BeforeValue DEF PushFront, RingGeometry
    <2>2. QED
        BY <1>4, <2>1 DEF PushFront
<1>5. CASE Still
    BY <1>5 DEF Still
<1>6. QED
    BY <1>1, <1>2, <1>3, <1>4, <1>5, StepKinds

(* A frame is in at most one of the ring, the sender's hands and the       *)
(* socket's history, and is written at most once, for every ring size.     *)
THEOREM WrittenAtMostOnce == Spec => []AtMostOnce
<1>1. Init => TypeOK /\ RingGeometry /\ AtMostOnce /\ AllSent
    BY GeometryInit, OnceInit
<1>2. TypeOK /\ RingGeometry /\ AtMostOnce /\ AllSent /\ [Next]_vars
        => (TypeOK /\ RingGeometry /\ AtMostOnce /\ AllSent)'
    BY GeometryStep, OnceStep
<1>3. QED
    BY <1>1, <1>2, PTL DEF Spec
-----------------------------------------------------------------------------
(* Order, and what a full ring drops.                                      *)

\* How far slot s is from slot h, going up.
Dist(h, s) == IF s >= h THEN s - h ELSE s - h + BufferSize

LEMMA DistMoves ==
    ASSUME NEW h \in Slot, NEW s \in Slot
    PROVE  /\ Dist(h, s) \in 0 .. BufferSize - 1
           /\ Dist(h, s) = 0 <=> s = h
           /\ Dist(After(h), s) = IF s = h THEN BufferSize - 1 ELSE Dist(h, s) - 1
           /\ Dist(Before(h), s) = IF s = Before(h) THEN 0 ELSE Dist(h, s) + 1
BY ClientAssumption, AfterValue, BeforeValue DEF Dist, Slot

LEMMA DistTail ==
    ASSUME NEW h \in Slot, NEW s \in Slot, NEW c \in 0 .. BufferSize
    PROVE  /\ c < BufferSize => (s = Wrap(h + c) <=> Dist(h, s) = c)
           /\ c = BufferSize => Wrap(h + c) = h
BY ClientAssumption, WrapValue DEF Dist, Slot

\* Ring b with c frames from slot h on holds the c frames before frame n, in
\* order and without a gap, and nothing else.
Holds(b, h, c, n) ==
    \A s \in Slot : b[s] = IF Dist(h, s) < c THEN n - c + Dist(h, s) ELSE NoFrame

\* What Send (into a ring with room, and into a full one), popFrame and
\* pushFront make of such a ring.
LEMMA HoldsMoves ==
    ASSUME NEW b \in [Slot -> Int], NEW h \in Slot, NEW n \in Int,
           NEW c \in 0 .. BufferSize, Holds(b, h, c, n)
    PROVE  /\ c < BufferSize =>
                Holds([b EXCEPT ![Wrap(h + c)] = n], h, c + 1, n + 1)
           /\ c = BufferSize =>
                Holds([b EXCEPT ![Wrap(h + c)] = n], After(h), c, n + 1)
           /\ c > 0 =>
                /\ b[h] = n - c
                /\ Holds([b EXCEPT ![h] = NoFrame], After(h), c - 1, n)
           /\ c < BufferSize =>
                Holds([b EXCEPT ![Before(h)] = n - c - 1], Before(h), c + 1, n)
<1> USE ClientAssumption, DistMoves DEF Holds, NoFrame
<1>1. ASSUME c < BufferSize
      PROVE  Holds([b EXCEPT ![Wrap(h + c)] = n], h, c + 1, n + 1)
    BY <1>1, DistTail
<1>2. ASSUME c = BufferSize
      PROVE  Holds([b EXCEPT ![Wrap(h + c)] = n], After(h), c, n + 1)
    BY <1>2, DistTail
<1>3. ASSUME c > 0
      PROVE  /\ b[h] = n - c
             /\ Holds([b EXCEPT ![h] = NoFrame], After(h), c - 1, n)
    BY <1>3
<1>4. ASSUME c < BufferSize
      PROVE  Holds([b EXCEPT ![Before(h)] = n - c - 1], Before(h), c + 1, n)
    BY <1>4, BeforeValue
<1>5. QED
    BY <1>1, <1>2, <1>3, <1>4

(* InOrder is not inductive: it does not say which frame follows the       *)
(* ring's last, nor that the frame the sender holds comes right before the *)
(* ring's first.  While the ring is not overfull it holds the last count   *)
(* frames of Send, without a gap, and its other slots are nil; the held    *)
(* frame directly precedes them unless the ring filled up meanwhile (and   *)
(* then pushFront makes it overfull).                                      *)
Window ==
    /\ count <= BufferSize /\ count < next
    /\ Holds(buffer, head, count, next)
    /\ frame # NoFrame =>
          /\ frame < next - count
          /\ count < BufferSize => frame = next - count - 1

WrittenFirst ==
    /\ \A i, j \in 1 .. Len(written) : i < j => written[i] < written[j]
    /\ \A i \in 1 .. Len(written) :
          /\ written[i] < next - count
          /\ frame # NoFrame => written[i] < frame

Order == ~overfull => Window /\ WrittenFirst

LEMMA OrderInit == Init => Order
BY ClientAssumption
DEF Init, Order, Window, WrittenFirst, Holds, Dist, Slot, NoFrame

LEMMA RingTypes ==
    ASSUME TypeOK
    PROVE  /\ head \in Slot /\ tail \in Slot /\ count \in Nat
           /\ next \in Int /\ frame \in Int /\ buffer \in [Slot -> Int]
BY ClientAssumption DEF TypeOK, Frame, NoFrame

LEMMA OrderStep ==
    TypeOK /\ RingGeometry /\ Order /\ [Next]_vars => Order'
<1> SUFFICES ASSUME TypeOK, RingGeometry, Order, [Next]_vars, ~overfull'
             PROVE  Window' /\ WrittenFirst'
    BY DEF Order
<1> USE ClientAssumption, RingTypes
<1>1. ASSUME NEW r \in Relays, Enqueue(r) PROVE Window' /\ WrittenFirst'
    <2>1. Window /\ WrittenFirst
        BY <1>1 DEF Order, Enqueue
    <2>2. /\ head' = IF count < BufferSize THEN head ELSE After(head)
          /\ count' = IF count < BufferSize THEN count + 1 ELSE count
          /\ next' = next + 1 /\ frame' = frame /\ written' = written
          /\ buffer' = [buffer EXCEPT ![Wrap(head + count)] = next]
        BY <1>1, <2>1 DEF Enqueue, Window, RingGeometry
    <2>3. Holds(buffer', head', count', next')
        <3>1. count \in 0 .. BufferSize /\ Holds(buffer, head, count, next)
            BY <2>1 DEF Window
        <3>2. CASE count < BufferSize
            <4>1. Holds([buffer EXCEPT ![Wrap(head + count)] = next], head,
                        count + 1, next + 1)
                BY <3>1, <3>2, HoldsMoves
            <4>2. QED
                BY <4>1, <2>2, <3>2
        <3>3. CASE count = BufferSize
            <4>1. Holds([buffer EXCEPT ![Wrap(head + count)] = next], After(head),
                        count, next + 1)
                BY <3>1, <3>3, HoldsMoves
            <4>2. QED
                BY <4>1, <2>2, <3>3
        <3>4. QED
            BY <3>1, <3>2, <3>3
    <2>4. Window'
        BY <2>1, <2>2, <2>3 DEF Window
    <2>5. WrittenFirst'
        BY <2>1, <2>2, WrittenFrames DEF Window, WrittenFirst
    <2>6. QED
        BY <2>4, <2>5
<1>2. CASE PopFrame
    <2>1. /\ Window /\ WrittenFirst /\ count > 0 /\ frame = NoFrame
          /\ frame' = buffer[head] /\ buffer' = [buffer EXCEPT ![head] = NoFrame]
          /\ head' = After(head) /\ count' = count - 1
          /\ next' = next /\ written' = written
        BY <1>2 DEF PopFrame, Order, RingGeometry
    <2>2. frame' = next - count /\ Holds(buffer', head', count', next')
        <3>1. count \in 0 .. BufferSize /\ Holds(buffer, head, count, next)
            BY <2>1 DEF Window
        <3>2. /\ buffer[head] = next - count
              /\ Holds([buffer EXCEPT ![head] = NoFrame], After(head), count - 1, next)
            BY <2>1, <3>1, HoldsMoves
        <3>3. QED
            BY <2>1, <3>2
    <2>3. Window'
        BY <2>1, <2>2 DEF Window
    <2>4. WrittenFirst'
        BY <2>1, <2>2, WrittenFrames DEF WrittenFirst
    <2>5. QED
        BY <2>3, <2>4
<1>3. CASE WriteOk
    <2>1. /\ Window /\ WrittenFirst /\ frame \in Frame /\ frame # NoFrame
          /\ buffer' = buffer /\ head' = head /\ count' = count
          /\ next' = next /\ frame' = NoFrame
        BY <1>3 DEF WriteOk, Order, RingGeometry, ring, TypeOK, NoFrame
    <2>2. /\ Len(written') = Len(written) + 1
          /\ written'[Len(written) + 1] = frame
          /\ \A i \in 1 .. Len(written) : written'[i] = written[i]
        BY <1>3, <2>1 DEF WriteOk, TypeOK
    <2>3. Window'
        BY <2>1 DEF Window
    <2>4. \A i \in 1 .. Len(written') : written'[i] < next' - count'
        <3>1. frame < next - count
            BY <2>1 DEF Window
        <3>2. Len(written) \in Nat
            BY LenProperties DEF TypeOK
        <3>3. QED
            BY <2>1, <2>2, <3>1, <3>2 DEF WrittenFirst
    <2>5. \A i, j \in 1 .. Len(written') : i < j => written'[i] < written'[j]
        <3>1. \A i \in 1 .. Len(written) : written[i] < frame
            BY <2>1 DEF WrittenFirst
        <3>2. Len(written) \in Nat
            BY LenProperties DEF TypeOK
        <3>3. QED
            BY <2>1, <2>2, <3>1, <3>2 DEF WrittenFirst
    <2>6. QED
        BY <2>1, <2>3, <2>4, <2>5 DEF WrittenFirst
<1>4. CASE PushFront
    <2>1. /\ Window /\ WrittenFirst /\ frame # NoFrame
          /\ head' = Before(head) /\ count' = count + 1
          /\ buffer' = [buffer EXCEPT ![Before(head)] = frame]
          /\ next' = next /\ frame' = NoFrame /\ written' = written
        BY <1>4 DEF PushFront, Order, RingGeometry
    <2>2. count < BufferSize
        <3>1. ~(count' > BufferSize)
            BY <1>4, Zenon DEF PushFront
        <3>2. QED
            BY <2>1, <3>1
    <2>3. frame = next - count - 1 /\ frame > 0
        BY <2>1, <2>2 DEF Window, TypeOK, Frame, NoFrame
    <2>4. Holds(buffer', head', count', next')
        <3>1. count \in 0 .. BufferSize /\ Holds(buffer, head, count, next)
            BY <2>1 DEF Window
        <3>2. Holds([buffer EXCEPT ![Before(head)] = next - count - 1], Before(head),
                    count + 1, next)
            BY <2>2, <3>1, HoldsMoves
        <3>3. QED
            BY <2>1, <2>3, <3>2
    <2>5. Window'
        BY <2>1, <2>2, <2>3, <2>4 DEF Window
    <2>6. WrittenFirst'
        BY <2>1, <2>3, WrittenFrames DEF WrittenFirst
    <2>7. QED
        BY <2>5, <2>6
<1>5. CASE Still /\ UNCHANGED <<head, tail, count, overfull>>
    BY <1>5 DEF Still, Order, Window, WrittenFirst
<1>6. QED
    BY <1>1, <1>2, <1>3, <1>4, <1>5, StepKinds

LEMMA OrderInvariant == Spec => [](TypeOK /\ RingGeometry /\ Order)
<1>1. Init => TypeOK /\ RingGeometry /\ Order
    BY GeometryInit, OrderInit
<1>2. TypeOK /\ RingGeometry /\ Order /\ [Next]_vars
        => (TypeOK /\ RingGeometry /\ Order)'
    BY GeometryStep, OrderStep
<1>3. QED
    BY <1>1, <1>2, PTL DEF Spec

LEMMA QueueValue ==
    ASSUME TypeOK, Window, NEW i \in 1 .. count
    PROVE  /\ Wrap(head + i - 1) \in Slot
           /\ Queue[i] = next - count + i - 1
<1> DEFINE s == Wrap(head + (i - 1))
<1> USE RingTypes, ClientAssumption
<1>1. head + i - 1 = head + (i - 1)
    BY DEF Slot
<1>2. s \in Slot
    <2>1. head + (i - 1) \in 0 .. 2 * BufferSize - 1
        BY DEF Window, Slot
    <2>2. QED
        BY <2>1, WrapValue DEF Slot
<1>3. Dist(head, s) = i - 1
    BY <1>2, DistTail DEF Window
<1>4. buffer[s] = next - count + i - 1
    BY <1>2, <1>3 DEF Window, Holds
<1>5. QED
    BY <1>1, <1>2, <1>4 DEF Queue

(* Frames are written, held and kept in the order Send stored them, unless *)
(* the ring became overfull.                                               *)
THEOREM OrderKept == Spec => []InOrder
<1>1. ASSUME TypeOK, RingGeometry, Order PROVE InOrder
    <2> SUFFICES ASSUME ~overfull PROVE InOrder
        BY DEF InOrder
    <2> USE RingTypes
    <2>1. Window /\ WrittenFirst
        BY <1>1 DEF Order
    <2>2. \A i \in 1 .. count : Queue[i] = next - count + i - 1
        BY <1>1, <2>1, QueueValue
    <2>3. \A i \in 1 .. count : frame < Queue[i]
        BY <1>1, <2>1, <2>2 DEF Window, NoFrame
    <2>4. \A i \in 1 .. Len(written), j \in 1 .. count : written[i] < Queue[j]
        BY <1>1, <2>1, <2>2, WrittenFrames DEF WrittenFirst
    <2>5. \A i, j \in 1 .. count : i < j => Queue[i] < Queue[j]
        BY <1>1, <2>2
    <2>6. QED
        BY <2>1, <2>3, <2>4, <2>5 DEF InOrder, WrittenFirst
<1>2. QED
    BY <1>1, OrderInvariant, PTL

(* What the ring dropped is older than all it still holds, unless it       *)
(* became overfull.                                                        *)
THEOREM OldestLost == Spec => []DropsOldest
<1>1. ASSUME TypeOK, RingGeometry, Order PROVE DropsOldest
    <2> SUFFICES ASSUME ~overfull, NEW f \in Frame, NEW g \in Frame,
                        Lost(f), InRing(g)
                 PROVE  f < g
        BY DEF DropsOldest
    <2> USE RingTypes, ClientAssumption
    <2>1. Window
        BY <1>1 DEF Order
    <2>2. next - count <= g
        <3>1. PICK s \in Slot : buffer[s] = g
            BY DEF InRing
        <3>2. Dist(head, s) \in Nat
            BY <1>1, DistMoves
        <3>3. QED
            BY <1>1, <2>1, <3>1, <3>2 DEF Window, Holds, Frame, NoFrame
    <2>3. f < next - count
        <3> SUFFICES ASSUME f >= next - count PROVE FALSE
            BY <1>1 DEF Frame
        <3> DEFINE i == f - (next - count) + 1
        <3>1. i \in 1 .. count
            BY <1>1 DEF Lost, Sent, Frame
        <3>2. Wrap(head + i - 1) \in Slot /\ Queue[i] = f
            BY <1>1, <2>1, <3>1, QueueValue DEF Frame
        <3>3. InRing(f)
            BY <3>1, <3>2 DEF InRing, Queue
        <3>4. QED
            BY <3>3 DEF Lost
    <2>4. QED
        BY <1>1, <2>2, <2>3 DEF Frame
<1>2. QED
    BY <1>1, OrderInvariant, PTL

(* The three together: what the Analyzer gets of the relays' frames.       *)
THEOREM QueueIsOrdered == Spec => []QueueOrder
<1>1. AtMostOnce /\ InOrder /\ DropsOldest => QueueOrder
    BY DEF QueueOrder
<1>2. QED
    BY <1>1, WrittenAtMostOnce, OrderKept, OldestLost, PTL
-----------------------------------------------------------------------------
(* Wake-ups.                                                               *)

LEMMA WakeupStep ==
    TypeOK /\ RingGeometry /\ Order /\ NoLostWakeup /\ [Next]_vars
        => NoLostWakeup'
<1> SUFFICES ASSUME TypeOK, RingGeometry, Order, NoLostWakeup, [Next]_vars
             PROVE  NoLostWakeup'
    OBVIOUS
<1> USE DEF NoLostWakeup, ring, closing, socket
<1>1. CASE SelectClose
    BY <1>1 DEF SelectClose
<1>2. CASE SelectSend
    BY <1>2 DEF SelectSend
<1>3. CASE PopNothing
    BY <1>3 DEF PopNothing
<1>4. CASE WriteOk
    BY <1>4 DEF WriteOk
<1>5. CASE WriteFail
    BY <1>5 DEF WriteFail
<1>6. CASE PushFront
    BY <1>6 DEF PushFront
<1>7. CASE DropConn
    BY <1>7 DEF DropConn
<1>8. CASE CheckClosed
    BY <1>8 DEF CheckClosed
<1>9. CASE DialOk
    BY <1>9 DEF DialOk
<1>10. CASE DialFail
    BY <1>10 DEF DialFail
<1>11. CASE CloseStart
    BY <1>11 DEF CloseStart
<1>12. CASE CloseConn
    BY <1>12 DEF CloseConn
<1>13. CASE CloseReturn
    BY <1>13 DEF CloseReturn
<1>14. CASE AnalyzerStops
    BY <1>14 DEF AnalyzerStops
<1>15. CASE AnalyzerStarts
    BY <1>15 DEF AnalyzerStarts
<1>16. ASSUME NEW r \in Relays, Enqueue(r) PROVE NoLostWakeup'
    BY <1>16 DEF Enqueue, TypeOK
<1>17. ASSUME NEW r \in Relays, Signal(r) PROVE NoLostWakeup'
    BY <1>17 DEF Signal
<1>18. CASE PopFrame
    <2> SUFFICES ASSUME ~overfull PROVE pc' # "select"
        BY <1>18 DEF PopFrame
    <2>1. Window /\ count > 0
        BY <1>18 DEF PopFrame, Order
    <2>2. buffer[head] = next - count
        <3>1. /\ buffer \in [Slot -> Int] /\ head \in Slot /\ next \in Int
              /\ count \in 1 .. BufferSize /\ Holds(buffer, head, count, next)
            BY <2>1, RingTypes, ClientAssumption DEF Window
        <3>2. Dist(head, head) = 0
            BY <3>1, DistMoves
        <3>3. QED
            BY <3>1, <3>2, ClientAssumption DEF Holds
    <2>3. buffer[head] # NoFrame
        BY <2>1, <2>2, RingTypes DEF Window, NoFrame
    <2>4. QED
        BY <1>18, <2>3 DEF PopFrame
<1>19. CASE UNCHANGED vars
    BY <1>19 DEF vars
<1>20. QED
    BY <1>1, <1>2, <1>3, <1>4, <1>5, <1>6, <1>7, <1>8, <1>9, <1>10,
       <1>11, <1>12, <1>13, <1>14, <1>15, <1>16, <1>17, <1>18, <1>19
    DEF Next, Sender, Closer, Analyzer

(* No wake-up is lost: while frames wait and the sender is idle, a token is *)
(* on its way.  It needs Order: a nil slot inside the ring would send the   *)
(* sender back to its select with frames waiting.                           *)
THEOREM WakeupsKept == Spec => []NoLostWakeup
<1>1. Init => NoLostWakeup
    BY DEF Init, NoLostWakeup
<1>2. QED
    BY <1>1, WakeupStep, OrderInvariant, PTL DEF Spec
-----------------------------------------------------------------------------
(* The connection.                                                         *)

\* Where the sender may be while its connection holds a partial frame.
TornLast == torn /\ conn = "open" => pc \in {"pushFront", "reconnect"}

LEMMA TornStep == TornLast /\ [Next]_vars => TornLast'
<1> SUFFICES ASSUME TornLast, [Next]_vars PROVE TornLast'
    OBVIOUS
<1> USE DEF TornLast, ring, closing, socket
<1>1. CASE SelectClose
    BY <1>1 DEF SelectClose
<1>2. CASE SelectSend
    BY <1>2 DEF SelectSend
<1>3. CASE PopNothing
    BY <1>3 DEF PopNothing
<1>4. CASE WriteOk
    BY <1>4 DEF WriteOk
<1>5. CASE WriteFail
    BY <1>5 DEF WriteFail
<1>6. CASE PushFront
    BY <1>6 DEF PushFront
<1>7. CASE DropConn
    BY <1>7 DEF DropConn
<1>8. CASE CheckClosed
    BY <1>8 DEF CheckClosed
<1>9. CASE DialOk
    BY <1>9 DEF DialOk
<1>10. CASE DialFail
    BY <1>10 DEF DialFail
<1>11. CASE CloseStart
    BY <1>11 DEF CloseStart
<1>12. CASE CloseConn
    BY <1>12 DEF CloseConn
<1>13. CASE CloseReturn
    BY <1>13 DEF CloseReturn
<1>14. CASE AnalyzerStops
    BY <1>14 DEF AnalyzerStops
<1>15. CASE AnalyzerStarts
    BY <1>15 DEF AnalyzerStarts
<1>16. ASSUME NEW r \in Relays, Enqueue(r) PROVE TornLast'
    BY <1>16 DEF Enqueue
<1>17. ASSUME NEW r \in Relays, Signal(r) PROVE TornLast'
    BY <1>17 DEF Signal
<1>18. CASE PopFrame
    BY <1>18 DEF PopFrame
<1>19. CASE UNCHANGED vars
    BY <1>19 DEF vars
<1>20. QED
    BY <1>1, <1>2, <1>3, <1>4, <1>5, <1>6, <1>7, <1>8, <1>9, <1>10,
       <1>11, <1>12, <1>13, <1>14, <1>15, <1>16, <1>17, <1>18, <1>19
    DEF Next, Sender, Closer, Analyzer

(* Nothing is written after a frame that the deadline cut short.           *)
THEOREM TornFrameIsLast == Spec => []NothingAfterTorn
<1>1. Init => TornLast
    BY DEF Init, TornLast
<1>2. TornLast => NothingAfterTorn
    BY DEF TornLast, NothingAfterTorn
<1>3. QED
    BY <1>1, <1>2, TornStep, PTL DEF Spec

\* NoConnLeft, and that no dial is in flight once Close has the mutex.
CloseSeen ==
    /\ closer # "idle" => closed
    /\ closer \in {"wait", "done"} => conn # "open" /\ pc # "dial"

LEMMA CloseStep == CloseSeen /\ [Next]_vars => CloseSeen'
<1> SUFFICES ASSUME CloseSeen, [Next]_vars PROVE CloseSeen'
    OBVIOUS
<1> USE DEF CloseSeen, MutexHeld, ring, closing, socket
<1>1. CASE SelectClose
    BY <1>1 DEF SelectClose
<1>2. CASE SelectSend
    BY <1>2 DEF SelectSend
<1>3. CASE PopNothing
    BY <1>3 DEF PopNothing
<1>4. CASE WriteOk
    BY <1>4 DEF WriteOk
<1>5. CASE WriteFail
    BY <1>5 DEF WriteFail
<1>6. CASE PushFront
    BY <1>6 DEF PushFront
<1>7. CASE DropConn
    BY <1>7 DEF DropConn
<1>8. CASE CheckClosed
    BY <1>8 DEF CheckClosed
<1>9. CASE DialOk
    BY <1>9 DEF DialOk
<1>10. CASE DialFail
    BY <1>10 DEF DialFail
<1>11. CASE CloseStart
    BY <1>11 DEF CloseStart
<1>12. CASE CloseConn
    BY <1>12 DEF CloseConn
<1>13. CASE CloseReturn
    BY <1>13 DEF CloseReturn
<1>14. CASE AnalyzerStops
    BY <1>14 DEF AnalyzerStops
<1>15. CASE AnalyzerStarts
    BY <1>15 DEF AnalyzerStarts
<1>16. ASSUME NEW r \in Relays, Enqueue(r) PROVE CloseSeen'
    BY <1>16 DEF Enqueue
<1>17. ASSUME NEW r \in Relays, Signal(r) PROVE CloseSeen'
    BY <1>17 DEF Signal
<1>18. CASE PopFrame
    BY <1>18 DEF PopFrame
<1>19. CASE UNCHANGED vars
    BY <1>19 DEF vars
<1>20. QED
    BY <1>1, <1>2, <1>3, <1>4, <1>5, <1>6, <1>7, <1>8, <1>9, <1>10,
       <1>11, <1>12, <1>13, <1>14, <1>15, <1>16, <1>17, <1>18, <1>19
    DEF Next, Sender, Closer, Analyzer

(* Close leaves no open connection, even when it races a dial.             *)
THEOREM CloseReleases == Spec => []NoConnLeft
<1>1. Init => CloseSeen
    BY DEF Init, CloseSeen
<1>2. CloseSeen => NoConnLeft
    BY DEF CloseSeen, NoConnLeft
<1>3. QED
    BY <1>1, <1>2, CloseStep, PTL DEF Spec

(* After a failed write and after Close: no frame follows a torn one, and  *)
(* no socket stays open.                                                   *)
THEOREM SocketsAreSound == Spec => []SocketsSound
<1>1. NothingAfterTorn /\ NoConnLeft => SocketsSound
    BY DEF SocketsSound
<1>2. QED
    BY <1>1, TornFrameIsLast, CloseReleases, PTL
-----------------------------------------------------------------------------
(* The refinement of FrameQueue.                                           *)

\* The c frames from frame a on, as a sequence.
Run(a, c) == [i \in 1 .. c |-> a + i - 1]

LEMMA RunLength ==
    ASSUME NEW a \in Int, NEW c \in Nat
    PROVE  Run(a, c) \in Seq(Int) /\ Len(Run(a, c)) = c
BY DEF Run

LEMMA RunGrows ==
    ASSUME NEW a \in Int, NEW c \in Nat
    PROVE  /\ Append(Run(a, c), a + c) = Run(a, c + 1)
           /\ <<a - 1>> \o Run(a, c) = Run(a - 1, c + 1)
<1>1. Append(Run(a, c), a + c) = Run(a, c + 1)
    BY RunLength DEF Run
<1>2. <<a - 1>> \o Run(a, c) = Run(a - 1, c + 1)
    BY RunLength DEF Run
<1>3. QED
    BY <1>1, <1>2

LEMMA RunShrinks ==
    ASSUME NEW a \in Int, NEW c \in Nat, c > 0
    PROVE  /\ Run(a, c) # <<>>
           /\ Head(Run(a, c)) = a
           /\ Tail(Run(a, c)) = Run(a + 1, c - 1)
           /\ Append(Tail(Run(a, c)), a + c) = Run(a + 1, c)
<1>1. Run(a, c) # <<>>
    BY RunLength, EmptySeq
<1>2. Head(Run(a, c)) = a /\ Tail(Run(a, c)) = Run(a + 1, c - 1)
    BY RunLength DEF Run
<1>3. Run(a + 1, c - 1) \in Seq(Int) /\ Len(Run(a + 1, c - 1)) = c - 1
    BY DEF Run
<1>4. Append(Run(a + 1, c - 1), a + c) = Run(a + 1, c)
    BY <1>3 DEF Run
<1>5. QED
    BY <1>1, <1>2, <1>4

LEMMA QueueIsRun == TypeOK /\ Window => Queue = Run(next - count, count)
<1> SUFFICES ASSUME TypeOK, Window PROVE Queue = Run(next - count, count)
    OBVIOUS
<1>1. \A i \in 1 .. count : Queue[i] = next - count + i - 1
    BY QueueValue
<1>2. QED
    BY <1>1 DEF Queue, Run

LEMMA PromiseStep ==
    ASSUME TypeOK, RingGeometry, Order, TypeOK', RingGeometry', Order', [Next]_vars
    PROVE  [Promise!Next]_Promise!vars
<1> USE RingTypes, ClientAssumption
<1>1. CASE overfull
    <2>1. overfull'
        BY <1>1, StepKinds
        DEF Enqueue, PopFrame, WriteOk, PushFront, ring, Still
    <2>2. QED
        BY <1>1, <2>1 DEF Promise!Next
<1>2. CASE ~overfull /\ overfull'
    <2>1. PushFront
        BY <1>2, StepKinds DEF Enqueue, PopFrame, WriteOk, PushFront, ring, Still
    <2>2. Window /\ frame # NoFrame
        BY <1>2, <2>1 DEF Order, PushFront, RingGeometry
    <2>3. count = BufferSize
        <3>1. count + 1 > BufferSize
            BY <1>2, <2>1, Zenon DEF PushFront
        <3>2. QED
            BY <2>2, <3>1 DEF Window
    <2>4. Len(Queue) = BufferSize
        <3>1. Len(Run(next - count, count)) = count
            BY RunLength
        <3>2. QED
            BY <2>2, <2>3, <3>1, QueueIsRun
    <2>5. QED
        BY <1>2, <2>2, <2>4
        DEF Promise!Next, Promise!TakeBackWhenFull, Promise!None, NoFrame
<1>3. CASE ~overfull /\ ~overfull'
    <2> DEFINE a == next - count
    <2> DEFINE b == next' - count'
    <2>1. Window /\ Window'
        BY <1>3 DEF Order
    <2>2. /\ a \in Int /\ count \in Nat /\ next = a + count
          /\ count <= BufferSize
        BY <2>1 DEF Window
    <2>3. Queue = Run(a, count)
        BY <2>1, QueueIsRun
    <2>4. Queue' = Run(b, count') /\ count' <= BufferSize
        <3>1. (TypeOK /\ Window => Queue = Run(next - count, count))'
            BY QueueIsRun, PTL
        <3>2. QED
            BY <2>1, <3>1 DEF Window
    <2>5. b = next' - count'
        OBVIOUS
    <2> HIDE DEF a, b
    <2>6. ASSUME NEW r \in Relays, Enqueue(r) PROVE Promise!Put
        <3>1. next' = next + 1 /\ UNCHANGED <<frame, written, overfull>>
            BY <2>6 DEF Enqueue
        <3>2. CASE count < BufferSize
            <4>1. count' = count + 1 /\ b = a
                BY <2>2, <2>5, <2>6, <3>1, <3>2 DEF Enqueue
            <4>2. Queue' = Append(Queue, next) /\ Len(Queue) # BufferSize
                <5>1. /\ Append(Run(a, count), a + count) = Run(a, count + 1)
                      /\ Len(Run(a, count)) = count
                    BY <2>2, RunLength, RunGrows
                <5>2. QED
                    BY <5>1, <2>2, <2>3, <2>4, <3>2, <4>1
            <4>3. QED
                BY <3>1, <4>2 DEF Promise!Put
        <3>3. CASE count = BufferSize
            <4>1. count' = count /\ b = a + 1
                BY <2>2, <2>5, <2>6, <3>1, <3>3 DEF Enqueue
            <4>2. Queue' = Append(Tail(Queue), next) /\ Len(Queue) = BufferSize
                <5>1. count > 0 /\ Len(Run(a, count)) = count
                    BY <2>2, <3>3, RunLength
                <5>2. Append(Tail(Run(a, count)), a + count) = Run(a + 1, count)
                    BY <2>2, <5>1, RunShrinks
                <5>3. QED
                    BY <5>1, <5>2, <2>2, <2>3, <2>4, <3>3, <4>1
            <4>3. QED
                BY <3>1, <4>2 DEF Promise!Put
        <3>4. QED
            BY <2>2, <3>2, <3>3
    <2>7. ASSUME PopFrame PROVE Promise!Take
        <3>1. /\ count > 0 /\ frame = NoFrame /\ frame' = buffer[head]
              /\ count' = count - 1 /\ UNCHANGED <<next, written, overfull>>
            BY <2>7 DEF PopFrame, RingGeometry
        <3>2. buffer[head] = a /\ b = a + 1
            <4>1. Dist(head, head) = 0
                BY DistMoves
            <4>2. buffer[head] = next - count + 0
                BY <2>1, <3>1, <4>1 DEF Window, Holds
            <4>3. QED
                BY <2>2, <2>5, <3>1, <4>2
        <3>3. Head(Queue) = a /\ Tail(Queue) = Queue' /\ Queue # <<>>
            <4>1. /\ Head(Run(a, count)) = a
                  /\ Tail(Run(a, count)) = Run(a + 1, count - 1)
                  /\ Run(a, count) # <<>>
                BY <2>2, <3>1, RunShrinks
            <4>2. QED
                BY <4>1, <2>3, <2>4, <3>1, <3>2
        <3>4. QED
            BY <3>1, <3>2, <3>3 DEF Promise!Take, Promise!None, NoFrame
    <2>8. ASSUME WriteOk PROVE Promise!Deliver
        <3>1. /\ frame # NoFrame /\ written' = Append(written, frame)
              /\ frame' = NoFrame /\ UNCHANGED <<next, count, overfull>>
            BY <2>8 DEF WriteOk, RingGeometry, ring
        <3>2. Queue' = Queue
            BY <2>2, <2>3, <2>4, <2>5, <3>1
        <3>3. QED
            BY <3>1, <3>2 DEF Promise!Deliver, Promise!None, NoFrame
    <2>9. ASSUME PushFront PROVE Promise!TakeBack
        <3>1. /\ frame # NoFrame /\ frame' = NoFrame /\ count' = count + 1
              /\ UNCHANGED <<next, written>>
            BY <2>9 DEF PushFront, RingGeometry
        <3>2. count < BufferSize
            BY <2>2, <2>4, <3>1
        <3>3. frame = a - 1 /\ b = a - 1
            BY <2>1, <2>2, <2>5, <3>1, <3>2 DEF Window
        <3>4. Queue' = <<frame>> \o Queue /\ Len(Queue) < BufferSize
            <4>1. /\ <<a - 1>> \o Run(a, count) = Run(a - 1, count + 1)
                  /\ Len(Run(a, count)) = count
                BY <2>2, RunLength, RunGrows
            <4>2. QED
                BY <4>1, <2>2, <2>3, <2>4, <3>1, <3>2, <3>3
        <3>5. overfull' = overfull
            BY <1>3 DEF TypeOK
        <3>6. QED
            BY <3>1, <3>4, <3>5 DEF Promise!TakeBack, Promise!None, NoFrame
    <2>10. ASSUME Still /\ UNCHANGED <<head, tail, count, overfull>>
           PROVE  UNCHANGED Promise!vars
        <3>1. Queue' = Queue
            BY <2>2, <2>3, <2>4, <2>5, <2>10 DEF Still
        <3>2. QED
            BY <2>10, <3>1 DEF Still, Promise!vars
    <2>11. QED
        BY <1>3, <2>6, <2>7, <2>8, <2>9, <2>10, StepKinds DEF Promise!Next
<1>4. QED
    BY <1>1, <1>2, <1>3

(* The client implements the bounded, drop-oldest queue of FrameQueue, for *)
(* every ring size: every step of Send, popFrame, the write and pushFront  *)
(* is a step of that queue, as long as the ring is not overfull.           *)
THEOREM ClientKeepsPromise == Spec => KeepsPromise
<1>1. Init => Promise!Init
    BY DEF Init, Promise!Init, Promise!None, Queue, NoFrame
<1>2. Spec => [](TypeOK /\ RingGeometry /\ Order)
    BY OrderInvariant
<1>3. QED
    BY <1>1, <1>2, PromiseStep, PTL DEF Spec, KeepsPromise, Promise!Spec
=============================================================================
