-------------------------- MODULE IPCServerProofs --------------------------
(***************************************************************************)
(* Theorems about IPCServer, for every number of sockets and frames and    *)
(* every channel capacity.                                                 *)
(***************************************************************************)
EXTENDS IPCServer, FiniteSetTheorems, SequenceTheorems, TLAPS

\* The sockets with a handler at work.
Live == {s \in Socket : handler[s] \notin {"none", "exited"}}

\* What the WaitGroup counts: acceptLoop and the handlers at work.
Counted == wg = Cardinality(Live) + (IF acceptor = "exited" THEN 0 ELSE 1)

\* NoSendAfterClose, with the reason why Put never meets a closed channel.
Shut ==
    /\ ~crashed
    /\ chanClosed => closer = "done"
    /\ closer \in {"chan", "done"} => acceptor = "exited" /\ Live = {}

\* Handlers is what TypeOK says of handler.
Handlers == [Socket -> {"none", "check", "read", "send", "gone", "exited"}]
-----------------------------------------------------------------------------
(* How the set of live handlers changes.                                   *)

LEMMA LiveFinite == IsFiniteSet(Live) /\ Cardinality(Live) \in Nat
<1>1. IsFiniteSet(Socket)
    BY FS_Interval, ServerAssumption DEF Socket
<1>2. IsFiniteSet(Live)
    BY <1>1, FS_Subset DEF Live
<1>3. QED
    BY <1>2, FS_CardinalityType

LEMMA LiveStays ==
    ASSUME handler \in Handlers, NEW s \in Socket, handler[s] \notin {"none", "exited"},
           NEW v \in {"check", "read", "send", "gone"},
           handler' = [handler EXCEPT ![s] = v]
    PROVE  Live' = Live
BY DEF Live, Handlers

LEMMA LiveGrows ==
    ASSUME handler \in Handlers, NEW s \in Socket, handler[s] = "none",
           handler' = [handler EXCEPT ![s] = "check"]
    PROVE  Cardinality(Live') = Cardinality(Live) + 1
<1>1. Live' = Live \cup {s} /\ s \notin Live
    BY DEF Live, Handlers
<1>2. QED
    BY <1>1, LiveFinite, FS_AddElement

LEMMA LiveShrinks ==
    ASSUME handler \in Handlers, NEW s \in Socket, handler[s] \notin {"none", "exited"},
           handler' = [handler EXCEPT ![s] = "exited"]
    PROVE  /\ Live # {} /\ Cardinality(Live) - 1 \in Nat
           /\ Cardinality(Live') = Cardinality(Live) - 1
<1>1. Live' = Live \ {s} /\ s \in Live
    BY DEF Live, Handlers
<1>2. Cardinality(Live \ {s}) = Cardinality(Live) - 1
    BY <1>1, LiveFinite, FS_RemoveElement
<1>3. Cardinality(Live) # 0
    BY <1>1, LiveFinite, FS_EmptySet
<1>4. QED
    BY <1>1, <1>2, <1>3, LiveFinite

LEMMA PutType ==
    ASSUME TypeOK, NEW m \in Message, Put(m)
    PROVE  /\ frameChan' \in Seq(Message) /\ Len(frameChan') <= ChanCap
           /\ lost' \subseteq Message /\ chanClosed' = chanClosed
           /\ crashed' = chanClosed
<1>1. frameChan \in Seq(Message) /\ Len(frameChan) <= ChanCap /\ Len(frameChan) \in Nat
    BY LenProperties DEF TypeOK
<1>2. CASE ~chanClosed /\ Len(frameChan) < ChanCap
    <2>1. frameChan' = Append(frameChan, m) /\ lost' = lost
        BY <1>2 DEF Put
    <2>2. frameChan' \in Seq(Message) /\ Len(frameChan') = Len(frameChan) + 1
        BY <1>1, <2>1, AppendProperties
    <2>3. QED
        BY <1>1, <1>2, <2>1, <2>2, ServerAssumption DEF Put, TypeOK
<1>3. CASE ~(~chanClosed /\ Len(frameChan) < ChanCap)
    BY <1>1, <1>3 DEF Put, TypeOK
<1>4. QED
    BY <1>2, <1>3
-----------------------------------------------------------------------------
Inv == TypeOK /\ Counted /\ Shut

LEMMA InvInit == Init => Inv
<1> SUFFICES ASSUME Init PROVE Inv
    OBVIOUS
<1>1. Live = {}
    BY DEF Init, Live
<1>2. Cardinality(Live) = 0
    BY <1>1, FS_EmptySet
<1>3. frameChan \in Seq(Message) /\ received \in Seq(Message) /\ Len(frameChan) = 0
    BY EmptySeq DEF Init
<1>4. /\ peer \in [Socket -> {"none", "open", "closed"}]
      /\ sent \in [Socket -> 0 .. MaxFrames] /\ read \in [Socket -> 0 .. MaxFrames]
      /\ handler \in [Socket -> {"none", "check", "read", "send", "gone", "exited"}]
    BY ServerAssumption DEF Init
<1>5. wg \in Nat /\ Len(frameChan) <= ChanCap /\ lost \subseteq Message
    BY <1>3, ServerAssumption DEF Init
<1>6. TypeOK
    BY <1>3, <1>4, <1>5 DEF Init, TypeOK
<1>7. QED
    BY <1>1, <1>2, <1>6 DEF Init, Inv, Counted, Shut

\* A step that leaves the server's goroutines and the channel alone.
LEMMA InvIdle ==
    ASSUME Inv, UNCHANGED <<acceptor, handler, wg, closer, chanClosed, crashed>>
    PROVE  Counted' /\ Shut'
<1>1. Live' = Live
    BY DEF Live
<1>2. QED
    BY <1>1 DEF Inv, Counted, Shut

LEMMA InvStep == Inv /\ [Next]_vars => Inv'
<1> SUFFICES ASSUME Inv, [Next]_vars PROVE Inv'
    OBVIOUS
<1> USE ServerAssumption DEF proxy, server, output, main
<1>a. TypeOK /\ Counted /\ Shut /\ handler \in Handlers
    BY DEF Inv, TypeOK, Handlers
<1>1. CASE Proxy
    <2>1. TypeOK'
        <3>1. PICK s \in Socket : Dial(s) \/ Write(s) \/ Hangup(s)
            BY <1>1 DEF Proxy
        <3>2. CASE Dial(s) \/ Hangup(s)
            BY <1>a, <3>2 DEF Dial, Hangup, TypeOK
        <3>3. CASE Write(s)
            <4>1. sent[s] + 1 \in 0 .. MaxFrames
                BY <1>a, <3>3 DEF Write, TypeOK
            <4>2. sent' \in [Socket -> 0 .. MaxFrames]
                BY <1>a, <3>3, <4>1 DEF Write, TypeOK
            <4>3. QED
                BY <1>a, <3>3, <4>2 DEF Write, TypeOK
        <3>4. QED
            BY <3>1, <3>2, <3>3
    <2>2. QED
        BY <1>1, <2>1, InvIdle DEF Proxy, Dial, Write, Hangup, Inv
<1>2. CASE AcceptCheck \/ AcceptFails \/ AcceptRecheck
    <2>1. Live' = Live /\ Cardinality(Live) \in Nat
        BY <1>2, LiveFinite DEF AcceptCheck, AcceptFails, AcceptRecheck, Live
    <2>2. Counted' /\ wg' \in Nat
        BY <1>a, <1>2, <2>1
        DEF AcceptCheck, AcceptFails, AcceptRecheck, Counted, Done, TypeOK
    <2>3. Shut'
        BY <1>a, <1>2, <2>1 DEF AcceptCheck, AcceptFails, AcceptRecheck, Shut
    <2>4. TypeOK'
        BY <1>a, <1>2, <2>2 DEF AcceptCheck, AcceptFails, AcceptRecheck, TypeOK
    <2>5. QED
        BY <2>2, <2>3, <2>4 DEF Inv
<1>3. ASSUME NEW s \in Socket, Accept(s) PROVE Inv'
    <2>1. Cardinality(Live') = Cardinality(Live) + 1 /\ Cardinality(Live) \in Nat
        BY <1>a, <1>3, LiveGrows, LiveFinite DEF Accept
    <2>2. Counted' /\ wg' \in Nat
        BY <1>a, <1>3, <2>1 DEF Accept, Counted
    <2>3. Shut'
        BY <1>a, <1>3 DEF Accept, Shut
    <2>4. TypeOK'
        BY <1>a, <1>3, <2>2 DEF Accept, TypeOK
    <2>5. QED
        BY <2>2, <2>3, <2>4 DEF Inv
<1>4. ASSUME NEW s \in Socket, handler[s] \notin {"none", "exited"}, ~crashed,
             handler' = [handler EXCEPT ![s] = "exited"], Done,
             UNCHANGED <<acceptor, closer, chanClosed>>
      PROVE  Counted' /\ wg' \in Nat /\ ~chanClosed /\ closer' \notin {"chan", "done"}
    <2>1. /\ Live # {} /\ Cardinality(Live) - 1 \in Nat
          /\ Cardinality(Live') = Cardinality(Live) - 1
        BY <1>a, <1>4, LiveShrinks
    <2>2. Cardinality(Live) \in Nat
        BY LiveFinite
    <2>3. QED
        BY <1>a, <1>4, <2>1, <2>2 DEF Counted, Shut, Done
<1>5. ASSUME NEW s \in Socket, handler[s] \notin {"none", "exited"}, ~crashed,
             NEW v \in {"check", "read", "send", "gone"},
             handler' = [handler EXCEPT ![s] = v],
             UNCHANGED <<acceptor, closer, wg, chanClosed>>
      PROVE  Counted' /\ ~chanClosed /\ closer' \notin {"chan", "done"}
    <2>1. Live' = Live /\ s \in Live
        BY <1>a, <1>5, LiveStays DEF Live
    <2>2. QED
        BY <1>a, <1>5, <2>1 DEF Counted, Shut
<1>6. ASSUME NEW s \in Socket, HandlerCheck(s) PROVE Inv'
    <2>1. CASE ctxDone \/ Closing
        <3>1. Counted' /\ wg' \in Nat /\ ~chanClosed /\ closer' \notin {"chan", "done"}
            BY <1>4, <1>6, <2>1 DEF HandlerCheck
        <3>2. QED
            BY <1>a, <1>6, <2>1, <3>1 DEF HandlerCheck, Inv, Shut, TypeOK
    <2>2. CASE ~(ctxDone \/ Closing)
        <3>1. Counted' /\ ~chanClosed /\ closer' \notin {"chan", "done"}
            BY <1>5, <1>6, <2>2 DEF HandlerCheck
        <3>2. QED
            BY <1>a, <1>6, <2>2, <3>1 DEF HandlerCheck, Inv, Shut, TypeOK
    <2>3. QED
        BY <2>1, <2>2
<1>7. ASSUME NEW s \in Socket, ReadFrame(s) PROVE Inv'
    <2>1. Counted' /\ ~chanClosed /\ closer' \notin {"chan", "done"}
        BY <1>5, <1>7 DEF ReadFrame
    <2>2. read[s] + 1 \in 0 .. MaxFrames
        <3>1. read[s] \in 0 .. MaxFrames /\ sent[s] \in 0 .. MaxFrames
            BY <1>a DEF TypeOK
        <3>2. QED
            BY <1>7, <3>1 DEF ReadFrame
    <2>3. /\ read' \in [Socket -> 0 .. MaxFrames]
          /\ handler' \in [Socket -> {"none", "check", "read", "send", "gone", "exited"}]
        BY <1>a, <1>7, <2>2 DEF ReadFrame, TypeOK
    <2>4. QED
        BY <1>a, <1>7, <2>1, <2>3 DEF ReadFrame, Inv, Shut, TypeOK
<1>8. ASSUME NEW s \in Socket, ReadFails(s) PROVE Inv'
    <2>1. Counted' /\ ~chanClosed /\ closer' \notin {"chan", "done"}
        BY <1>5, <1>8 DEF ReadFails
    <2>2. QED
        BY <1>a, <1>8, <2>1 DEF ReadFails, Inv, Shut, TypeOK
<1>9. ASSUME NEW s \in Socket, SendFrame(s) PROVE Inv'
    <2>1. Counted' /\ ~chanClosed /\ closer' \notin {"chan", "done"}
        BY <1>5, <1>9 DEF SendFrame, Put
    <2>2. <<s, read[s]>> \in Message
        BY <1>a DEF TypeOK, Message, Marker
    <2>3. /\ frameChan' \in Seq(Message) /\ Len(frameChan') <= ChanCap
          /\ lost' \subseteq Message /\ chanClosed' = chanClosed
          /\ crashed' = chanClosed
        BY <1>a, <1>9, <2>2, PutType DEF SendFrame
    <2>4. QED
        BY <1>a, <1>9, <2>1, <2>3 DEF SendFrame, Inv, Shut, TypeOK
<1>10. ASSUME NEW s \in Socket, NotifyGone(s) PROVE Inv'
    <2>1. Counted' /\ wg' \in Nat /\ ~chanClosed /\ closer' \notin {"chan", "done"}
        BY <1>4, <1>10 DEF NotifyGone, Put
    <2>2. <<s, Marker>> \in Message
        BY DEF Message, Marker
    <2>3. /\ frameChan' \in Seq(Message) /\ Len(frameChan') <= ChanCap
          /\ lost' \subseteq Message /\ chanClosed' = chanClosed
          /\ crashed' = chanClosed
        BY <1>a, <1>10, <2>2, PutType DEF NotifyGone
    <2>4. QED
        BY <1>a, <1>10, <2>1, <2>3 DEF NotifyGone, Inv, Shut, TypeOK
<1>11. CASE Cancel
    <2>1. TypeOK'
        BY <1>a, <1>11 DEF Cancel, TypeOK
    <2>2. QED
        BY <1>11, <2>1, InvIdle DEF Cancel, Inv
<1>12. CASE Receive
    <2>1. Head(frameChan) \in Message /\ Tail(frameChan) \in Seq(Message)
          /\ Len(Tail(frameChan)) <= ChanCap
        BY <1>a, <1>12, HeadTailProperties, LenProperties DEF Receive, TypeOK
    <2>2. TypeOK'
        BY <1>a, <1>12, <2>1, AppendProperties DEF Receive, TypeOK
    <2>3. QED
        BY <1>12, <2>2, InvIdle DEF Receive, Inv
<1>13. CASE CloseStart \/ CloseListener \/ CloseWait \/ CloseChan
    <2>1. UNCHANGED <<acceptor, handler, wg, crashed>> /\ Live' = Live
        BY <1>13 DEF CloseStart, CloseListener, CloseWait, CloseChan, Live
    <2>2. Counted'
        BY <1>a, <2>1 DEF Counted
    <2>3. wg = 0 => acceptor = "exited" /\ Live = {}
        BY <1>a, LiveFinite, FS_EmptySet DEF Counted
    <2>4. Shut'
        BY <1>a, <1>13, <2>1, <2>3
        DEF CloseStart, CloseListener, CloseWait, CloseChan, Shut
    <2>5. TypeOK'
        BY <1>a, <1>13 DEF CloseStart, CloseListener, CloseWait, CloseChan, TypeOK
    <2>6. QED
        BY <2>2, <2>4, <2>5 DEF Inv
<1>14. CASE UNCHANGED vars
    <2>1. TypeOK'
        BY <1>a, <1>14 DEF vars, TypeOK
    <2>2. QED
        BY <1>14, <2>1, InvIdle DEF vars, Inv
<1>15. QED
    BY <1>1, <1>2, <1>3, <1>6, <1>7, <1>8, <1>9, <1>10, <1>11, <1>12, <1>13, <1>14
    DEF Next, Handler, Main

LEMMA InvHolds == Spec => []Inv
BY InvInit, InvStep, PTL DEF Spec

(* Type correctness: the WaitGroup never goes below zero, and the channel  *)
(* never holds more than its capacity.                                     *)
THEOREM TypeCorrect == Spec => []TypeOK
<1>1. Inv => TypeOK
    BY DEF Inv
<1>2. QED
    BY <1>1, InvHolds, PTL

(* Close closes the channel only when acceptLoop and every handler have    *)
(* returned, and no goroutine sends on it afterwards.                      *)
THEOREM ClosedIsQuiet == Spec => []NoSendAfterClose
<1>1. Inv => NoSendAfterClose
    BY DEF Inv, TypeOK, Shut, Live, NoSendAfterClose
<1>2. QED
    BY <1>1, InvHolds, PTL
-----------------------------------------------------------------------------
(* What the processor gets.                                                *)

\* Every message that socket s has sent on so far is below passed[s].
passed == [s \in Socket |->
    IF handler[s] = "exited" THEN Marker + 1
    ELSE IF handler[s] = "send" THEN read[s] ELSE read[s] + 1]

Ordered(q)  == \A i, j \in 1 .. Len(q) : i < j /\ q[i][1] = q[j][1] => q[i][2] < q[j][2]
Below(q, p) == \A i \in 1 .. Len(q) : q[i][2] < p[q[i][1]]

\* PassedOnInOrder, and why the next message of a socket is above the others.
InOrder == Ordered(Output) /\ Below(Output, passed) /\ ReadIsPassedOn

\* A message that is not below its socket's limit keeps the order.
LEMMA OrderAppend ==
    ASSUME NEW q \in Seq(Message), NEW p \in [Socket -> Int], NEW r \in [Socket -> Int],
           NEW s \in Socket, NEW n \in 0 .. Marker,
           Ordered(q), Below(q, p), p[s] <= n, n < r[s], \A t \in Socket : p[t] <= r[t]
    PROVE  Ordered(Append(q, <<s, n>>)) /\ Below(Append(q, <<s, n>>), r)
<1> DEFINE k == Len(q)
           a == Append(q, <<s, n>>)
<1>1. Len(a) = k + 1 /\ k \in Nat /\ (\A i \in 1 .. k : a[i] = q[i]) /\ a[k + 1] = <<s, n>>
    <2>1. <<s, n>> \in Message
        BY DEF Message
    <2>2. QED
        BY <2>1, AppendProperties, LenProperties
<1>2. ASSUME NEW i \in 1 .. k
      PROVE  q[i][1] \in Socket /\ q[i][2] \in Int /\ q[i][2] < p[q[i][1]]
    <2>1. q[i] \in Message
        BY <1>2, ElementOfSeq
    <2>2. QED
        BY <1>2, <2>1, ServerAssumption DEF Message, Below, Marker
<1> HIDE DEF a, k
<1>3. ASSUME NEW i \in 1 .. k + 1 PROVE a[i][2] < r[a[i][1]]
    <2>1. CASE i = k + 1
        BY <1>1, <2>1
    <2>2. CASE i \in 1 .. k
        <3>1. q[i][2] < p[q[i][1]] /\ p[q[i][1]] <= r[q[i][1]]
            BY <1>2, <2>2
        <3>2. q[i][2] < r[q[i][1]]
            BY <1>2, <2>2, <3>1
        <3>3. QED
            BY <1>1, <2>2, <3>2
    <2>3. QED
        BY <1>1, <2>1, <2>2
<1>4. ASSUME NEW i \in 1 .. k + 1, NEW j \in 1 .. k + 1, i < j, a[i][1] = a[j][1]
      PROVE  a[i][2] < a[j][2]
    <2>1. CASE j \in 1 .. k
        <3>1. i \in 1 .. k /\ a[i] = q[i] /\ a[j] = q[j]
            BY <1>1, <1>4, <2>1
        <3>2. q[i][1] = q[j][1]
            BY <1>4, <3>1
        <3>3. q[i][2] < q[j][2]
            BY <1>4, <2>1, <3>1, <3>2 DEF Ordered, k
        <3>4. QED
            BY <3>1, <3>3
    <2>2. CASE j = k + 1
        <3>1. i \in 1 .. k /\ q[i][1] = s /\ a[i] = q[i] /\ a[j] = <<s, n>>
            BY <1>1, <1>4, <2>2
        <3>2. q[i][2] < p[s] /\ q[i][2] \in Int
            BY <1>2, <3>1
        <3>3. q[i][2] < n
            BY <3>2, ServerAssumption DEF Marker
        <3>4. QED
            BY <3>1, <3>3
    <2>3. QED
        BY <1>1, <2>1, <2>2
<1>5. QED
    BY <1>1, <1>3, <1>4 DEF Ordered, Below, a

\* Raising the limits keeps it too.
LEMMA OrderRaised ==
    ASSUME NEW q \in Seq(Message), NEW p \in [Socket -> Int], NEW r \in [Socket -> Int],
           Below(q, p), \A t \in Socket : p[t] <= r[t]
    PROVE  Below(q, r)
<1> SUFFICES ASSUME NEW i \in 1 .. Len(q) PROVE q[i][2] < r[q[i][1]]
    BY DEF Below
<1>1. q[i] \in Message
    BY ElementOfSeq
<1>2. q[i][1] \in Socket /\ q[i][2] \in Int /\ q[i][2] < p[q[i][1]]
    BY <1>1, ServerAssumption DEF Message, Below, Marker
<1>3. QED
    BY <1>2

LEMMA PassedType ==
    /\ TypeOK => passed \in [Socket -> Int]
    /\ TypeOK' => passed' \in [Socket -> Int]
BY ServerAssumption DEF TypeOK, passed, Marker

LEMMA OutputType ==
    ASSUME TypeOK
    PROVE  /\ Output \in Seq(Message) /\ Len(Output) \in Nat
           /\ \A i \in 1 .. Len(Output) :
                 Output[i][1] \in Socket /\ Output[i][2] \in 0 .. Marker
<1>1. Output \in Seq(Message)
    BY ConcatProperties DEF TypeOK, Output
<1>2. \A i \in 1 .. Len(Output) : Output[i] \in Message
    BY <1>1, ElementOfSeq
<1>3. QED
    BY <1>1, <1>2, LenProperties DEF Message

\* A message that is put comes last, or is lost.
LEMMA OutputPut ==
    ASSUME TypeOK, ~chanClosed, NEW m \in Message, Put(m), received' = received
    PROVE  \/ Output' = Append(Output, m) /\ lost' = lost
           \/ Output' = Output /\ lost' = lost \cup {m}
<1>1. CASE frameChan' = Append(frameChan, m) /\ lost' = lost
    <2>1. received \in Seq(Message) /\ frameChan \in Seq(Message) /\ <<m>> \in Seq(Message)
        BY DEF TypeOK
    <2>2. received \o (frameChan \o <<m>>) = (received \o frameChan) \o <<m>>
        BY <2>1, ConcatAssociative
    <2>3. Append(frameChan, m) = frameChan \o <<m>>
        BY <2>1, AppendIsConcat
    <2>4. Append(Output, m) = Output \o <<m>>
        BY OutputType, AppendIsConcat
    <2>5. QED
        BY <1>1, <2>2, <2>3, <2>4 DEF Output
<1>2. CASE lost' = lost \cup {m} /\ frameChan' = frameChan
    BY <1>2 DEF Output
<1>3. QED
    BY <1>1, <1>2 DEF Put

\* Receiving moves a message and changes nothing of the whole.
LEMMA OutputReceive == ASSUME TypeOK, Receive PROVE Output' = Output
<1> DEFINE h == Head(frameChan)
<1>1. /\ received \in Seq(Message) /\ frameChan \in Seq(Message) /\ frameChan # <<>>
      /\ h \in Message /\ Tail(frameChan) \in Seq(Message) /\ <<h>> \in Seq(Message)
    BY HeadTailProperties DEF TypeOK, Receive
<1>2. Append(received, h) = received \o <<h>>
    BY <1>1, AppendIsConcat
<1>3. frameChan = <<h>> \o Tail(frameChan)
    BY <1>1, HeadTailProperties, SeqEqual, ConcatProperties, LenProperties
<1>4. (received \o <<h>>) \o Tail(frameChan) = received \o (<<h>> \o Tail(frameChan))
    BY <1>1, ConcatAssociative
<1>5. QED
    BY <1>2, <1>3, <1>4 DEF Output, Receive

\* What arrived or was lost stays so.
LEMMA ArrivedStays ==
    ASSUME TypeOK, NEW m,
           \/ Output' = Output /\ lost \subseteq lost'
           \/ \E x \in Message : Output' = Append(Output, x) /\ lost' = lost,
           Arrived(m) \/ m \in lost
    PROVE  (Arrived(m) \/ m \in lost)'
<1>1. CASE Output' = Output /\ lost \subseteq lost'
    BY <1>1 DEF Arrived
<1>2. ASSUME NEW x \in Message, Output' = Append(Output, x), lost' = lost
      PROVE  (Arrived(m) \/ m \in lost)'
    <2>1. /\ Len(Output') = Len(Output) + 1 /\ Len(Output) \in Nat
          /\ \A i \in 1 .. Len(Output) : Output'[i] = Output[i]
        BY <1>2, OutputType, AppendProperties
    <2>2. QED
        BY <1>2, <2>1 DEF Arrived
<1>3. QED
    BY <1>1, <1>2

\* A step that puts nothing on the channel.
LEMMA QuietStep ==
    ASSUME TypeOK, TypeOK', InOrder, UNCHANGED <<received, frameChan, lost, read>>,
           \A t \in Socket : handler[t] = "send" <=> handler'[t] = "send",
           \A t \in Socket : handler[t] = "exited" => handler'[t] = "exited"
    PROVE  InOrder'
<1>1. Output' = Output
    BY DEF Output
<1>2. /\ \A t \in Socket : passed[t] <= passed'[t]
      /\ passed \in [Socket -> Int] /\ passed' \in [Socket -> Int]
    <2>1. passed \in [Socket -> Int] /\ passed' \in [Socket -> Int]
        BY PassedType
    <2>2. QED
        BY <2>1, ServerAssumption DEF passed, TypeOK, Marker
<1>3. Below(Output, passed')
    BY <1>2, OrderRaised, OutputType DEF InOrder
<1>4. ReadIsPassedOn'
    BY <1>1 DEF InOrder, ReadIsPassedOn, Arrived
<1>5. QED
    BY <1>1, <1>3, <1>4 DEF InOrder

\* A step that puts the next message of socket s.
LEMMA PutStep ==
    ASSUME TypeOK, TypeOK', InOrder, ~chanClosed, UNCHANGED <<received, read>>,
           NEW s \in Socket, NEW n \in 0 .. Marker, Put(<<s, n>>),
           passed[s] <= n, n < passed'[s],
           handler[s] = "send" => n = read[s],
           \A t \in Socket \ {s} : handler'[t] = handler[t]
    PROVE  InOrder'
<1>1. \/ Output' = Append(Output, <<s, n>>) /\ lost' = lost
      \/ Output' = Output /\ lost' = lost \cup {<<s, n>>}
    <2>1. <<s, n>> \in Message
        BY DEF Message
    <2>2. QED
        BY <2>1, OutputPut
<1>2. /\ passed \in [Socket -> Int] /\ passed' \in [Socket -> Int]
      /\ \A t \in Socket : passed[t] <= passed'[t]
    <2>1. passed \in [Socket -> Int] /\ passed' \in [Socket -> Int]
        BY PassedType
    <2>2. \A t \in Socket \ {s} : passed[t] = passed'[t]
        BY DEF passed, Marker
    <2>3. passed[s] <= passed'[s]
        BY <2>1, ServerAssumption DEF Marker
    <2>4. QED
        BY <2>1, <2>2, <2>3
<1>3. Ordered(Output') /\ Below(Output', passed')
    <2>1. Output \in Seq(Message) /\ Ordered(Output) /\ Below(Output, passed)
        BY OutputType DEF InOrder
    <2>2. CASE Output' = Append(Output, <<s, n>>)
        BY <1>2, <2>1, <2>2, OrderAppend
    <2>3. CASE Output' = Output
        BY <1>2, <2>1, <2>3, OrderRaised
    <2>4. QED
        BY <1>1, <2>2, <2>3
<1>4. ReadIsPassedOn'
    <2> SUFFICES ASSUME NEW t \in Socket, NEW m \in 1 .. read[t]
                 PROVE  (Arrived(<<t, m>>) \/ <<t, m>> \in lost)'
                        \/ (m = read[t] /\ handler'[t] = "send")
        BY DEF ReadIsPassedOn
    <2>1. \/ Arrived(<<t, m>>) \/ <<t, m>> \in lost
          \/ (m = read[t] /\ handler[t] = "send")
        BY DEF InOrder, ReadIsPassedOn
    <2>2. CASE Arrived(<<t, m>>) \/ <<t, m>> \in lost
        <3>1. <<s, n>> \in Message
            BY DEF Message
        <3>2. QED
            BY <1>1, <2>2, <3>1, ArrivedStays
    <2>3. CASE m = read[t] /\ handler[t] = "send" /\ t # s
        BY <2>3
    <2>4. CASE m = read[t] /\ handler[t] = "send" /\ t = s
        <3>1. <<t, m>> = <<s, n>>
            BY <2>4
        <3>2. CASE Output' = Append(Output, <<s, n>>)
            <4>1. <<s, n>> \in Message
                BY DEF Message
            <4>2. Len(Output') = Len(Output) + 1 /\ Output'[Len(Output) + 1] = <<s, n>>
                BY <3>2, <4>1, OutputType, AppendProperties
            <4>3. QED
                BY <3>1, <4>2, OutputType DEF Arrived
        <3>3. CASE lost' = lost \cup {<<s, n>>}
            BY <3>1, <3>3
        <3>4. QED
            BY <1>1, <3>2, <3>3
    <2>5. QED
        BY <2>1, <2>2, <2>3, <2>4
<1>5. QED
    BY <1>3, <1>4 DEF InOrder, Ordered, Below

LEMMA InOrderInit == Init => InOrder
<1> SUFFICES ASSUME Init PROVE InOrder
    OBVIOUS
<1>1. Output = <<>> /\ Len(Output) = 0
    <2>1. Output = <<>>
        BY DEF Init, Output
    <2>2. QED
        BY <2>1, EmptySeq
<1>2. Ordered(Output) /\ Below(Output, passed)
    BY <1>1 DEF Ordered, Below
<1>3. ReadIsPassedOn
    BY DEF Init, ReadIsPassedOn
<1>4. QED
    BY <1>2, <1>3 DEF InOrder

LEMMA InOrderStep == Inv /\ Inv' /\ InOrder /\ [Next]_vars => InOrder'
<1> SUFFICES ASSUME Inv, Inv', InOrder, [Next]_vars PROVE InOrder'
    OBVIOUS
<1> USE DEF proxy, server, output, main
<1>a. TypeOK /\ TypeOK' /\ (chanClosed => \A s \in Socket : handler[s] \in {"none", "exited"})
    BY DEF Inv, Shut, Live, TypeOK
<1>1. CASE Proxy \/ AcceptCheck \/ AcceptFails \/ AcceptRecheck
    BY <1>a, <1>1, QuietStep
    DEF Proxy, Dial, Write, Hangup, AcceptCheck, AcceptFails, AcceptRecheck
<1>2. ASSUME NEW s \in Socket, Accept(s) PROVE InOrder'
    BY <1>a, <1>2, QuietStep DEF Accept, TypeOK
<1>3. ASSUME NEW s \in Socket, HandlerCheck(s) PROVE InOrder'
    BY <1>a, <1>3, QuietStep DEF HandlerCheck, TypeOK
<1>4. ASSUME NEW s \in Socket, ReadFails(s) PROVE InOrder'
    BY <1>a, <1>4, QuietStep DEF ReadFails, TypeOK
<1>5. ASSUME NEW s \in Socket, ReadFrame(s) PROVE InOrder'
    <2>1. Output' = Output /\ lost' = lost
        BY <1>5 DEF ReadFrame, Output
    <2>2. passed' = passed
        BY <1>a, <1>5, ServerAssumption DEF ReadFrame, passed, TypeOK
    <2>3. ReadIsPassedOn'
        <3> SUFFICES ASSUME NEW t \in Socket, NEW m \in 1 .. read'[t]
                     PROVE  \/ (Arrived(<<t, m>>) \/ <<t, m>> \in lost)'
                            \/ (m = read'[t] /\ handler'[t] = "send")
            BY DEF ReadIsPassedOn
        <3>1. CASE t = s /\ m = read[s] + 1
            BY <1>a, <1>5, <3>1 DEF ReadFrame, TypeOK
        <3>2. CASE ~(t = s /\ m = read[s] + 1)
            <4>1. m \in 1 .. read[t] /\ (handler[t] = "send" => t # s)
                BY <1>a, <1>5, <3>2 DEF ReadFrame, TypeOK
            <4>2. \/ Arrived(<<t, m>>) \/ <<t, m>> \in lost
                  \/ (m = read[t] /\ handler[t] = "send")
                BY <4>1 DEF InOrder, ReadIsPassedOn
            <4>3. QED
                BY <1>a, <1>5, <2>1, <4>1, <4>2 DEF ReadFrame, TypeOK, Arrived
        <3>3. QED
            BY <3>1, <3>2
    <2>4. QED
        BY <2>1, <2>2, <2>3 DEF InOrder
<1>6. ASSUME NEW s \in Socket, SendFrame(s) PROVE InOrder'
    <2>1. handler[s] = "send" /\ handler' = [handler EXCEPT ![s] = "check"]
        BY <1>6 DEF SendFrame
    <2>2. ~chanClosed /\ read[s] \in 0 .. Marker
        BY <1>a, <2>1, ServerAssumption DEF TypeOK, Marker
    <2>3. UNCHANGED <<received, read>> /\ Put(<<s, read[s]>>)
        BY <1>6 DEF SendFrame
    <2>4. passed[s] = read[s] /\ passed'[s] = read[s] + 1
        BY <1>a, <2>1, <2>3 DEF TypeOK, passed
    <2>5. passed[s] <= read[s] /\ read[s] < passed'[s]
        BY <2>2, <2>4, ServerAssumption DEF Marker
    <2>6. \A t \in Socket \ {s} : handler'[t] = handler[t]
        BY <1>a, <2>1 DEF TypeOK
    <2>7. QED
        BY <1>a, <2>2, <2>3, <2>5, <2>6, PutStep
<1>7. ASSUME NEW s \in Socket, NotifyGone(s) PROVE InOrder'
    <2>1. handler[s] = "gone" /\ handler' = [handler EXCEPT ![s] = "exited"]
        BY <1>7 DEF NotifyGone
    <2>2. ~chanClosed /\ read[s] \in 0 .. MaxFrames /\ Marker \in 0 .. Marker
        <3>1. ~chanClosed
            BY <1>a, <2>1
        <3>2. read[s] \in 0 .. MaxFrames
            BY <1>a DEF TypeOK
        <3>3. QED
            BY <3>1, <3>2, ServerAssumption DEF Marker
    <2>3. UNCHANGED <<received, read>> /\ Put(<<s, Marker>>)
        BY <1>7 DEF NotifyGone
    <2>4. passed[s] = read[s] + 1 /\ passed'[s] = Marker + 1
        BY <1>a, <2>1, <2>3 DEF TypeOK, passed
    <2>5. passed[s] <= Marker /\ Marker < passed'[s]
        BY <2>2, <2>4, ServerAssumption DEF Marker
    <2>6. \A t \in Socket \ {s} : handler'[t] = handler[t]
        BY <1>a, <2>1 DEF TypeOK
    <2>7. QED
        BY <1>a, <2>1, <2>2, <2>3, <2>5, <2>6, PutStep
<1>8. CASE Receive
    <2>1. Output' = Output /\ UNCHANGED <<lost, read, handler>>
        BY <1>a, <1>8, OutputReceive DEF Receive
    <2>2. QED
        BY <2>1 DEF InOrder, Ordered, Below, passed, ReadIsPassedOn, Arrived
<1>9. CASE Cancel \/ CloseStart \/ CloseListener \/ CloseWait \/ CloseChan
    BY <1>a, <1>9, QuietStep DEF Cancel, CloseStart, CloseListener, CloseWait, CloseChan
<1>10. CASE UNCHANGED vars
    BY <1>a, <1>10, QuietStep DEF vars
<1>11. QED
    BY <1>1, <1>2, <1>3, <1>4, <1>5, <1>6, <1>7, <1>8, <1>9, <1>10
    DEF Next, Handler, Main

(* What the processor gets is, socket by socket, what the proxy wrote, in  *)
(* order and with the marker last, short only of what a full channel drops.*)
THEOREM FramesPassedOn == Spec => []PassedOnInOrder
<1>1. InOrder => PassedOnInOrder
    BY DEF InOrder, Ordered, SocketOrder, PassedOnInOrder
<1>2. QED
    BY <1>1, InvHolds, InOrderInit, InOrderStep, PTL DEF Spec
=============================================================================
