----------------------------- MODULE LinkProofs -----------------------------
(***************************************************************************)
(* Theorems about Link: the composition keeps to its components, so what   *)
(* is proved of the server and of the processor alone holds of the two     *)
(* together, for every number of connections, sockets and frames; what is  *)
(* left when the proxy is gone; the order of events across redials.        *)
(***************************************************************************)
EXTENDS Link, SequenceTheorems, TLAPS

SP == INSTANCE IPCServerProofs WITH MaxFrames <- MaxWrites, crashed <- serverCrashed
PP == INSTANCE ProcessorProofs
-----------------------------------------------------------------------------
(* The composition and its components.                                     *)

\* What a frame taken from the channel makes the processor do.
LEMMA HandleFrameStep == ASSUME NEW n, HandleFrame(n) PROVE Analyzer!Next
<1>1. CASE n = 0
    BY <1>1 DEF HandleFrame, Analyzer!Next, Analyzer!ProcessLoop
<1>2. CASE n # 0
    BY <1>2 DEF HandleFrame, Analyzer!Next, Analyzer!ProcessLoop
<1>3. QED
    BY <1>1, <1>2

LEMMA ServerIdle == UNCHANGED server => UNCHANGED Server!vars
BY DEF server, Server!vars

LEMMA AnalyzerIdle == UNCHANGED analyzer => UNCHANGED Analyzer!vars
BY DEF analyzer, Analyzer!vars

LEMMA ServerStep == [Next]_vars => [Server!Next]_(Server!vars)
<1> SUFFICES ASSUME [Next]_vars PROVE [Server!Next]_(Server!vars)
    OBVIOUS
<1>1. CASE Proxy
    <2>1. ASSUME NEW s \in Server!Socket, NEW c \in Conns,
                 NEW type \in {"open", "data", "close"}, Write(s, type, c)
          PROVE  Server!Next
        BY <2>1 DEF Write, Server!Next, Server!Proxy
    <2>2. ASSUME NEW c \in Conns, NEW type \in {"open", "data", "close"}, Drop(type, c)
          PROVE  UNCHANGED Server!vars
        BY <2>2, ServerIdle DEF Drop
    <2>3. ASSUME NEW s \in Server!Socket, Redial(s) PROVE Server!Next
        BY <2>3 DEF Redial, Server!Next, Server!Proxy
    <2>4. QED
        BY <1>1, <2>1, <2>2, <2>3 DEF Proxy
<1>2. CASE AcceptLoop
    BY <1>2 DEF AcceptLoop, AcceptCheck, AcceptFails, AcceptRecheck, Server!Next
<1>3. ASSUME NEW s \in Server!Socket, Accept(s) \/ Handle(s) PROVE Server!Next
    BY <1>3 DEF Accept, Handle, Server!Next
<1>4. CASE Take
    BY <1>4 DEF Take, Server!Next, Server!Main
<1>5. CASE SendChunk \/ \E w \in Analyzer!Serial : WorkerStep(w)
    BY <1>5, ServerIdle DEF SendChunk, WorkerStep
<1>6. CASE UNCHANGED vars
    BY <1>6, ServerIdle DEF vars, server
<1>7. QED
    BY <1>1, <1>2, <1>3, <1>4, <1>5, <1>6 DEF Next

LEMMA AnalyzerStep == [Next]_vars => [Analyzer!Next]_(Analyzer!vars)
<1> SUFFICES ASSUME [Next]_vars PROVE [Analyzer!Next]_(Analyzer!vars)
    OBVIOUS
<1>1. CASE Proxy
    <2>1. UNCHANGED analyzer
        BY <1>1 DEF Proxy, Write, Drop, Redial
    <2>2. QED
        BY <2>1, AnalyzerIdle
<1>2. CASE AcceptLoop \/ \E s \in Server!Socket : Accept(s) \/ Handle(s)
    BY <1>2, AnalyzerIdle DEF AcceptLoop, AcceptCheck, AcceptFails, AcceptRecheck, Accept,
       Handle
<1>3. CASE Take
    BY <1>3, HandleFrameStep DEF Take
<1>4. CASE SendChunk
    BY <1>4 DEF SendChunk, Analyzer!Next, Analyzer!ProcessLoop
<1>5. CASE \E w \in Analyzer!Serial : WorkerStep(w)
    BY <1>5 DEF WorkerStep, Analyzer!Next
<1>6. CASE UNCHANGED vars
    BY <1>6, AnalyzerIdle DEF vars, analyzer
<1>7. QED
    BY <1>1, <1>2, <1>3, <1>4, <1>5, <1>6 DEF Next

(* The server's part of the link behaves as IPCServer allows: no step of   *)
(* the processor or of the proxy's events interferes with it.              *)
THEOREM LinkKeepsServer == Spec => Server!Spec
<1>1. Init => Server!Init
    BY DEF Init
<1>2. QED
    BY <1>1, ServerStep, PTL DEF Spec, Server!Spec

(* The processor's part behaves as Processor allows: the frames that come  *)
(* over the link are among those Processor is proved for.                  *)
THEOREM LinkKeepsProcessor == Spec => Analyzer!Spec
<1>1. Init => Analyzer!Init
    BY DEF Init
<1>2. QED
    BY <1>1, AnalyzerStep, PTL DEF Spec, Analyzer!Spec
-----------------------------------------------------------------------------
(* What was proved of the components.                                      *)

LEMMA SameServer ==
    (Server!Init <=> SP!Init) /\ ([Server!Next]_(Server!vars) <=> [SP!Next]_(SP!vars))
<1>1. Server!Init <=> SP!Init
    BY DEF Server!Init, SP!Init, Server!Socket, SP!Socket
<1>2. Server!Next <=> SP!Next
    BY DEF Server!Next, SP!Next, Server!Socket, SP!Socket, Server!Marker, SP!Marker,
       Server!Closing, SP!Closing, Server!Put, SP!Put, Server!Done, SP!Done,
       Server!proxy, SP!proxy, Server!server, SP!server, Server!output, SP!output,
       Server!main, SP!main, Server!Proxy, SP!Proxy, Server!Dial, SP!Dial,
       Server!Write, SP!Write, Server!Hangup, SP!Hangup,
       Server!AcceptCheck, SP!AcceptCheck, Server!AcceptFails, SP!AcceptFails,
       Server!AcceptRecheck, SP!AcceptRecheck, Server!Accept, SP!Accept,
       Server!Handler, SP!Handler, Server!HandlerCheck, SP!HandlerCheck,
       Server!ReadFrame, SP!ReadFrame, Server!ReadFails, SP!ReadFails,
       Server!SendFrame, SP!SendFrame, Server!NotifyGone, SP!NotifyGone,
       Server!Main, SP!Main, Server!Cancel, SP!Cancel, Server!Receive, SP!Receive,
       Server!CloseStart, SP!CloseStart, Server!CloseListener, SP!CloseListener,
       Server!CloseWait, SP!CloseWait, Server!CloseChan, SP!CloseChan
<1>3. Server!vars' = Server!vars <=> SP!vars' = SP!vars
    BY DEF Server!vars, SP!vars
<1>4. QED
    BY <1>1, <1>2, <1>3

LEMMA SameAnalyzer ==
    (Analyzer!Init <=> PP!Init) /\ ([Analyzer!Next]_(Analyzer!vars) <=> [PP!Next]_(PP!vars))
<1>1. Analyzer!Init <=> PP!Init
    BY DEF Analyzer!Init, PP!Init, Analyzer!NoWorker, PP!NoWorker, Analyzer!Serial, PP!Serial
<1>2. Analyzer!Next <=> PP!Next
    BY DEF Analyzer!Next, PP!Next, Analyzer!NoWorker, PP!NoWorker, Analyzer!Serial, PP!Serial,
       Analyzer!MutexHeld, PP!MutexHeld, Analyzer!InMap, PP!InMap, Analyzer!Active, PP!Active,
       Analyzer!dispatch, PP!dispatch, Analyzer!pool, PP!pool, Analyzer!control, PP!control,
       Analyzer!StartWorker, PP!StartWorker, Analyzer!CloseWorkers, PP!CloseWorkers,
       Analyzer!Takes, PP!Takes, Analyzer!ProcessLoop, PP!ProcessLoop,
       Analyzer!ConnOpen, PP!ConnOpen, Analyzer!ConnClose, PP!ConnClose,
       Analyzer!IPCDisconnect, PP!IPCDisconnect, Analyzer!Data, PP!Data,
       Analyzer!SendChunk, PP!SendChunk, Analyzer!CleanupStart, PP!CleanupStart,
       Analyzer!CleanupClose, PP!CleanupClose, Analyzer!CleanupWait, PP!CleanupWait,
       Analyzer!CleanupEnd, PP!CleanupEnd, Analyzer!Main, PP!Main,
       Analyzer!SignalCancel, PP!SignalCancel, Analyzer!StopStart, PP!StopStart,
       Analyzer!StopClose, PP!StopClose, Analyzer!StopReturn, PP!StopReturn,
       Analyzer!WorkerStep, PP!WorkerStep, Analyzer!WorkerTake, PP!WorkerTake,
       Analyzer!WorkerDrain, PP!WorkerDrain, Analyzer!WorkerExit, PP!WorkerExit
<1>3. Analyzer!vars' = Analyzer!vars <=> PP!vars' = PP!vars
    BY DEF Analyzer!vars, PP!vars
<1>4. QED
    BY <1>1, <1>2, <1>3

Components == SP!TypeOK /\ SP!PassedOnInOrder /\ PP!TypeOK /\ PP!TablesAgree

LEMMA ComponentsHold == Spec => []Components
<1>1. SP!ServerAssumption /\ PP!ProcessorAssumption
    BY LinkAssumption DEF SP!ServerAssumption, PP!ProcessorAssumption, MaxFrames
<1>2. Server!Spec => SP!Spec
    BY SameServer, PTL DEF Server!Spec, SP!Spec
<1>3. Analyzer!Spec => PP!Spec
    BY SameAnalyzer, PTL DEF Analyzer!Spec, PP!Spec
<1>4. SP!Spec => []SP!TypeOK
    BY <1>1, SP!TypeCorrect
<1>5. SP!Spec => []SP!PassedOnInOrder
    BY <1>1, SP!FramesPassedOn
<1>6. PP!Spec => []PP!TypeOK
    BY <1>1, PP!TypeCorrect
<1>7. PP!Spec => []PP!TablesAgree
    BY <1>1, PP!TablesStayEqual
<1>8. SP!TypeOK /\ SP!PassedOnInOrder /\ PP!TypeOK /\ PP!TablesAgree => Components
    BY DEF Components
<1>9. QED
    BY <1>2, <1>3, <1>4, <1>5, <1>6, <1>7, <1>8, LinkKeepsServer, LinkKeepsProcessor, PTL
-----------------------------------------------------------------------------
(* What is left when the proxy is gone.                                    *)

\* The messages of all sockets, handled and waiting.
flow == received \o frameChan

\* No shutdown runs.
Running == ~ctxDone /\ closer = "run" /\ ~chanClosed /\ pc \in {"loop", "send"}

\* A handler that ended has sent its marker, or lost it ...
Told ==
    \A s \in SP!Socket : handler[s] = "exited" =>
        <<s, SP!Marker>> \in lost \/ \E i \in 1 .. Len(flow) : flow[i] = <<s, SP!Marker>>

\* ... every message is from a handler that was started ...
Started == \A i \in 1 .. Len(flow) : handler[flow[i][1]] # "none"

\* ... and after a marker nothing is left in the tables.
Cleared ==
    Len(received) > 0 /\ received[Len(received)][2] = SP!Marker
        => PP!Active = {} /\ connections = {}

Gone == Running /\ Told /\ Started /\ Cleared

LEMMA FlowType ==
    ASSUME Components
    PROVE  /\ flow \in Seq(SP!Message) /\ Len(flow) \in Nat /\ Len(received) \in Nat
           /\ \A i \in 1 .. Len(flow) : flow[i] \in SP!Message
           /\ \A m \in SP!Message : m[1] \in SP!Socket /\ m[2] \in 0 .. SP!Marker
<1>1. received \in Seq(SP!Message) /\ frameChan \in Seq(SP!Message)
    BY DEF Components, SP!TypeOK
<1>2. flow \in Seq(SP!Message)
    BY <1>1, ConcatProperties DEF flow
<1>3. \A m \in SP!Message : m[1] \in SP!Socket /\ m[2] \in 0 .. SP!Marker
    BY DEF SP!Message
<1>4. QED
    BY <1>1, <1>2, <1>3, LenProperties, ElementOfSeq

LEMMA AppendFacts ==
    ASSUME NEW S, NEW q \in Seq(S), NEW x \in S
    PROVE  /\ Append(q, x) \in Seq(S) /\ Len(q) \in Nat
           /\ Len(Append(q, x)) = Len(q) + 1
           /\ \A i \in 1 .. Len(q) : Append(q, x)[i] = q[i]
           /\ Append(q, x)[Len(q) + 1] = x
BY AppendProperties, LenProperties

LEMMA AppendTail ==
    ASSUME NEW S, NEW d \in Seq(S), NEW c \in Seq(S), NEW x \in S
    PROVE  d \o Append(c, x) = Append(d \o c, x)
<1>1. <<x>> \in Seq(S) /\ d \o c \in Seq(S)
    BY ConcatProperties
<1>2. Append(c, x) = c \o <<x>> /\ Append(d \o c, x) = (d \o c) \o <<x>>
    BY <1>1, AppendIsConcat
<1>3. d \o (c \o <<x>>) = (d \o c) \o <<x>>
    BY <1>1, ConcatAssociative
<1>4. QED
    BY <1>2, <1>3

\* The first of c moved to the end of d.
LEMMA MoveHead ==
    ASSUME NEW S, NEW d \in Seq(S), NEW c \in Seq(S), c # <<>>
    PROVE  Append(d, Head(c)) \o Tail(c) = d \o c
<1>1. Head(c) \in S /\ Tail(c) \in Seq(S) /\ <<Head(c)>> \in Seq(S)
    BY HeadTailProperties
<1>2. Append(d, Head(c)) = d \o <<Head(c)>>
    BY <1>1, AppendIsConcat
<1>3. c = <<Head(c)>> \o Tail(c)
    BY <1>1, HeadTailProperties, SeqEqual, ConcatProperties, LenProperties
<1>4. (d \o <<Head(c)>>) \o Tail(c) = d \o (<<Head(c)>> \o Tail(c))
    BY <1>1, ConcatAssociative
<1>5. QED
    BY <1>2, <1>3, <1>4

\* A step that passes nothing on.
LEMMA SilentStep ==
    ASSUME Gone, UNCHANGED <<received, frameChan, ctxDone, closer, chanClosed, workers, connections>>,
           lost \subseteq lost', pc' \in {"loop", "send"},
           \A s \in SP!Socket : handler'[s] = "exited" => handler[s] = "exited",
           \A s \in SP!Socket : handler'[s] = "none" => handler[s] = "none",
           Components
    PROVE  Gone'
<1>1. flow' = flow /\ PP!Active' = PP!Active
    BY DEF flow, PP!Active
<1>2. \A i \in 1 .. Len(flow) : flow[i][1] \in SP!Socket
    BY FlowType
<1>3. Started'
    BY <1>1, <1>2 DEF Gone, Started
<1>4. Told'
    BY <1>1 DEF Gone, Told
<1>5. QED
    BY <1>1, <1>3, <1>4 DEF Gone, Running, Cleared

\* A handler puts a message on the channel, and ends if it is the marker.
LEMMA PutStep ==
    ASSUME Gone, Components, NEW s \in SP!Socket, NEW n \in 0 .. SP!Marker, NEW h,
           Server!Put(<<s, n>>), handler[s] # "none", h # "none",
           handler' = [handler EXCEPT ![s] = h],
           h = "exited" => n = SP!Marker,
           UNCHANGED <<received, ctxDone, closer, pc, workers, connections>>
    PROVE  Gone'
<1> DEFINE m == <<s, n>>
<1>1. m \in SP!Message /\ handler \in [SP!Socket -> {"none", "check", "read", "send", "gone", "exited"}]
    BY DEF SP!Message, Components, SP!TypeOK
<1>2. received \in Seq(SP!Message) /\ frameChan \in Seq(SP!Message) /\ flow \in Seq(SP!Message)
    BY FlowType DEF Components, SP!TypeOK
<1>3. \/ flow' = Append(flow, m) /\ lost' = lost
      \/ flow' = flow /\ lost' = lost \cup {m}
    <2>1. \/ frameChan' = Append(frameChan, m) /\ lost' = lost
          \/ frameChan' = frameChan /\ lost' = lost \cup {m}
        BY DEF Server!Put, Gone, Running
    <2>2. received \o Append(frameChan, m) = Append(received \o frameChan, m)
        <3> HIDE DEF m
        <3>1. QED
            BY <1>1, <1>2, AppendTail
    <2>3. QED
        BY <2>1, <2>2 DEF flow
<1>4. /\ \A i \in 1 .. Len(flow) : i \in 1 .. Len(flow') /\ flow'[i] = flow[i]
      /\ \A i \in 1 .. Len(flow') : flow'[i] = m \/ (i \in 1 .. Len(flow) /\ flow'[i] = flow[i])
      /\ m \in lost' \/ \E i \in 1 .. Len(flow') : flow'[i] = m
    <2>1. Len(flow) \in Nat
        BY <1>2, LenProperties
    <2>2. CASE flow' = flow /\ lost' = lost \cup {m}
        BY <2>2
    <2>3. CASE flow' = Append(flow, m) /\ lost' = lost
        <3> HIDE DEF m
        <3>1. /\ Len(flow') = Len(flow) + 1 /\ flow'[Len(flow) + 1] = m
              /\ \A i \in 1 .. Len(flow) : flow'[i] = flow[i]
            BY <1>1, <1>2, <2>3, AppendFacts
        <3>2. QED
            BY <2>1, <3>1
    <2>4. QED
        BY <1>3, <2>2, <2>3
<1>5. Told'
    <2> SUFFICES ASSUME NEW t \in SP!Socket, handler'[t] = "exited"
                 PROVE  <<t, SP!Marker>> \in lost'
                           \/ \E i \in 1 .. Len(flow') : flow'[i] = <<t, SP!Marker>>
        BY DEF Told, SP!Socket, SP!Marker
    <2>1. CASE t = s
        BY <1>1, <1>4, <2>1
    <2>2. CASE t # s
        <3>1. <<t, SP!Marker>> \in lost \/ \E i \in 1 .. Len(flow) : flow[i] = <<t, SP!Marker>>
            BY <1>1, <2>2 DEF Gone, Told
        <3>2. lost \subseteq lost'
            BY <1>3
        <3>3. QED
            BY <1>4, <3>1, <3>2
    <2>3. QED
        BY <2>1, <2>2
<1>6. Started'
    <2> SUFFICES ASSUME NEW i \in 1 .. Len(flow') PROVE handler'[flow'[i][1]] # "none"
        BY DEF Started
    <2>1. CASE flow'[i] = m
        BY <1>1, <2>1
    <2>2. CASE i \in 1 .. Len(flow) /\ flow'[i] = flow[i]
        <3>1. flow[i][1] \in SP!Socket /\ handler[flow[i][1]] # "none"
            BY <2>2, FlowType DEF Gone, Started
        <3>2. QED
            BY <1>1, <2>2, <3>1
    <2>3. QED
        BY <1>4, <2>1, <2>2
<1>7. Running' /\ Cleared'
    BY DEF Gone, Running, Cleared, Server!Put, PP!Active
<1>8. QED
    BY <1>5, <1>6, <1>7 DEF Gone
LEMMA SameNames ==
    Server!Socket = SP!Socket /\ Server!Marker = SP!Marker
        /\ Analyzer!Active = PP!Active /\ Analyzer!NoWorker = PP!NoWorker
BY DEF Server!Socket, SP!Socket, Server!Marker, SP!Marker, Analyzer!Active, PP!Active,
       Analyzer!NoWorker, PP!NoWorker

LEMMA HandlerStep ==
    ASSUME Gone, Components, NEW s \in Server!Socket, Handle(s) PROVE Gone'
<1>1. s \in SP!Socket /\ handler \in [SP!Socket -> {"none", "check", "read", "send", "gone", "exited"}]
      /\ read[s] \in 0 .. SP!Marker /\ SP!Marker \in 0 .. SP!Marker
    BY SameNames, LinkAssumption DEF Components, SP!TypeOK, SP!Marker
<1>2. UNCHANGED <<received, ctxDone, closer, pc, workers, connections>>
    BY DEF Handle, analyzer, Server!Handler, Server!HandlerCheck, Server!ReadFrame,
       Server!ReadFails, Server!SendFrame, Server!NotifyGone, Server!main
<1>3. CASE Server!HandlerCheck(s) \/ Server!ReadFrame(s) \/ Server!ReadFails(s)
    <2>1. UNCHANGED <<frameChan, lost, chanClosed>>
        BY <1>3 DEF Server!HandlerCheck, Server!ReadFrame, Server!ReadFails, Server!output
    <2>2. handler[s] # "none" /\ \E h \in {"read", "send", "gone"} :
             handler' = [handler EXCEPT ![s] = h]
        BY <1>3 DEF Gone, Running, Server!Closing, Server!HandlerCheck, Server!ReadFrame,
           Server!ReadFails
    <2>3. \A t \in SP!Socket : /\ handler'[t] = "exited" => handler[t] = "exited"
                               /\ handler'[t] = "none" => handler[t] = "none"
        BY <1>1, <2>2
    <2>4. pc' \in {"loop", "send"}
        BY <1>2 DEF Gone, Running
    <2>5. QED
        BY <1>2, <2>1, <2>3, <2>4, SilentStep
<1>4. CASE Server!SendFrame(s)
    <2>1. /\ Server!Put(<<s, read[s]>>) /\ handler[s] # "none"
          /\ handler' = [handler EXCEPT ![s] = "check"]
        BY <1>4 DEF Server!SendFrame
    <2>2. QED
        BY <1>1, <1>2, <2>1, PutStep
<1>5. CASE Server!NotifyGone(s)
    <2>1. /\ Server!Put(<<s, SP!Marker>>) /\ handler[s] # "none"
          /\ handler' = [handler EXCEPT ![s] = "exited"]
        BY <1>5, SameNames DEF Server!NotifyGone
    <2>2. QED
        BY <1>1, <1>2, <2>1, PutStep
<1>6. QED
    BY <1>3, <1>4, <1>5 DEF Handle, Server!Handler

LEMMA TakeStep == ASSUME Gone, Components, Take PROVE Gone'
<1> DEFINE m == Head(frameChan)
<1>1. /\ frameChan # <<>> /\ received' = Append(received, m) /\ frameChan' = Tail(frameChan)
      /\ UNCHANGED <<ctxDone, closer, chanClosed, lost, handler>>
    BY DEF Take, Server!Receive, Server!main, Server!server
<1>2. received \in Seq(SP!Message) /\ frameChan \in Seq(SP!Message) /\ m \in SP!Message
    BY <1>1, HeadTailProperties DEF Components, SP!TypeOK
<1>3. flow' = flow
    BY <1>1, <1>2, MoveHead DEF flow
<1>4. Len(received') > 0 /\ received'[Len(received')] = m
    <2> HIDE DEF m
    <2>1. QED
        BY <1>1, <1>2, AppendFacts
<1>5. PICK n : /\ n = IF IsMarker(m) THEN 0 ELSE content[m[1]][m[2]]
               /\ HandleFrame(n)
    BY DEF Take
<1>6. pc = "loop" /\ pc' \in {"loop", "send"}
    BY <1>5 DEF HandleFrame, Analyzer!IPCDisconnect, Analyzer!ConnOpen, Analyzer!Data,
       Analyzer!ConnClose, Analyzer!Takes
<1>7. Told' /\ Started'
    BY <1>1, <1>3 DEF Gone, Told, Started
<1>8. Cleared'
    <2>1. CASE m[2] # SP!Marker
        BY <1>4, <2>1 DEF Cleared, SP!Marker
    <2>2. CASE m[2] = SP!Marker
        <3>1. Analyzer!IPCDisconnect
            BY <1>5, <2>2, SameNames DEF IsMarker, HandleFrame
        <3>2. workers' = [c \in Conns |-> PP!NoWorker] /\ connections' = connections \ PP!Active
            BY <3>1, SameNames DEF Analyzer!IPCDisconnect
        <3>3. connections = PP!Active
            BY <1>6 DEF Components, PP!TablesAgree, PP!DashboardMatches
        <3>4. PP!Active' = {} /\ connections' = {}
            BY <3>2, <3>3 DEF PP!Active, PP!NoWorker
        <3>5. QED
            BY <3>4 DEF Cleared
    <2>3. QED
        BY <2>1, <2>2
<1>9. QED
    BY <1>1, <1>6, <1>7, <1>8 DEF Gone, Running

LEMMA GoneStep == Components /\ Gone /\ [Next]_vars => Gone'
<1> SUFFICES ASSUME Components, Gone, [Next]_vars PROVE Gone'
    OBVIOUS
<1> USE SilentStep
<1>0. pc \in {"loop", "send"}
    BY DEF Gone, Running
<1>1. CASE UNCHANGED vars
    BY <1>0, <1>1 DEF vars
<1>2. CASE Proxy
    <2>1. UNCHANGED <<received, frameChan, ctxDone, closer, chanClosed, workers, connections,
                      lost, pc, handler>>
        BY <1>2 DEF Proxy, Write, Drop, Redial, Server!Write, Server!Dial, Server!Hangup,
           Server!server, Server!main, Server!output, server, analyzer
    <2>2. QED
        BY <1>0, <2>1
<1>3. CASE AcceptLoop
    <2>1. UNCHANGED <<received, frameChan, ctxDone, closer, chanClosed, workers, connections,
                      lost, pc, handler>>
        BY <1>3 DEF AcceptLoop, AcceptCheck, AcceptFails, AcceptRecheck, Server!AcceptCheck,
           Server!AcceptFails, Server!AcceptRecheck, Server!main, Server!output, analyzer
    <2>2. QED
        BY <1>0, <2>1
<1>4. ASSUME NEW s \in Server!Socket, Accept(s) PROVE Gone'
    <2>1. UNCHANGED <<received, frameChan, ctxDone, closer, chanClosed, workers, connections,
                      lost, pc>>
        BY <1>4 DEF Accept, Server!Accept, Server!main, Server!output, analyzer
    <2>2. handler' = [handler EXCEPT ![s] = "check"]
        BY <1>4 DEF Accept, Server!Accept
    <2>3. \A t \in SP!Socket : /\ handler'[t] = "exited" => handler[t] = "exited"
                               /\ handler'[t] = "none" => handler[t] = "none"
        BY <2>2 DEF Components, SP!TypeOK
    <2>4. QED
        BY <1>0, <2>1, <2>3
<1>5. ASSUME NEW s \in Server!Socket, Handle(s) PROVE Gone'
    BY <1>5, HandlerStep
<1>6. CASE Take
    BY <1>6, TakeStep
<1>7. CASE SendChunk
    <2>1. UNCHANGED <<received, frameChan, ctxDone, closer, chanClosed, workers, connections,
                      lost, handler>> /\ pc' = "loop"
        BY <1>7 DEF SendChunk, Analyzer!SendChunk, Analyzer!control, server
    <2>2. QED
        BY <2>1
<1>8. ASSUME NEW w \in Analyzer!Serial, WorkerStep(w) PROVE Gone'
    <2>1. UNCHANGED <<received, frameChan, ctxDone, closer, chanClosed, workers, connections,
                      lost, handler, pc>>
        BY <1>8 DEF WorkerStep, Analyzer!WorkerStep, Analyzer!WorkerTake, Analyzer!WorkerDrain,
           Analyzer!WorkerExit, Analyzer!dispatch, server
    <2>2. QED
        BY <1>0, <2>1
<1>9. QED
    BY <1>1, <1>2, <1>3, <1>4, <1>5, <1>6, <1>7, <1>8 DEF Next

LEMMA GoneInit == Init => Gone
<1> SUFFICES ASSUME Init PROVE Gone
    OBVIOUS
<1>1. received = <<>> /\ frameChan = <<>> /\ handler = [s \in SP!Socket |-> "none"]
      /\ ~ctxDone /\ closer = "run" /\ ~chanClosed /\ pc = "loop"
    BY SameNames DEF Init, Server!Init, Analyzer!Init
<1>2. flow = <<>>
    BY <1>1 DEF flow
<1>3. Len(flow) = 0 /\ Len(received) = 0
    BY <1>1, <1>2
<1>4. QED
    BY <1>1, <1>3 DEF Gone, Running, Told, Started, Cleared

\* The last message handled is from a handler that ended, and it is its marker.
LEMMA GoneImplies == Components /\ Gone => GoneIsEmpty
<1> SUFFICES ASSUME Components, Gone,
                    \A s \in SP!Socket : handler[s] \in {"none", "exited"},
                    NEW s \in SP!Socket, handler[s] = "exited",
                    frameChan = <<>>, pc = "loop", ~MarkerLost
             PROVE  PP!Active = {} /\ connections = {}
    BY SameNames DEF GoneIsEmpty
<1> DEFINE n == Len(received)
           m == received[n]
<1>1. flow = received
    BY ConcatEmptySeq DEF flow, Components, SP!TypeOK
<1>2. \A t \in SP!Socket : handler[t] = "exited" =>
         \E i \in 1 .. n : received[i] = <<t, SP!Marker>>
    BY <1>1, SameNames DEF Gone, Told, MarkerLost
<1>3. n \in Nat /\ n > 0
    BY <1>1, <1>2, FlowType
<1>4. m \in SP!Message /\ m[1] \in SP!Socket /\ m[2] \in 0 .. SP!Marker
      /\ handler[m[1]] # "none"
    BY <1>1, <1>3, FlowType DEF Gone, Started
<1>5. PICK i \in 1 .. n : received[i] = <<m[1], SP!Marker>>
    BY <1>2, <1>4
<1>6. i = n
    <2> SUFFICES ASSUME i < n PROVE FALSE
        BY <1>3
    <2>1. SP!Output = received
        BY <1>1 DEF SP!Output, flow
    <2>2. received[i][1] = m[1] /\ received[i][2] = SP!Marker
        BY <1>5
    <2>3. SP!Marker < m[2]
        BY <1>3, <2>1, <2>2 DEF Components, SP!PassedOnInOrder, SP!SocketOrder
    <2>4. QED
        BY <1>4, <2>3, LinkAssumption DEF SP!Marker
<1>7. m[2] = SP!Marker
    BY <1>5, <1>6
<1>8. QED
    BY <1>3, <1>7 DEF Gone, Cleared

(* When every socket is gone and the channel is empty, the Analyzer lists  *)
(* no connection and holds no worker, unless a full channel dropped a      *)
(* marker: handleConnection's last message is the marker, whichever handler*)
(* ends last, and handleIPCDisconnect clears both tables.                  *)
THEOREM NothingLeftBehind == Spec => []GoneIsEmpty
BY ComponentsHold, GoneInit, GoneStep, GoneImplies, PTL DEF Spec
-----------------------------------------------------------------------------
(* The order of the events across sockets.                                 *)

Event == [type : {"open", "data", "close"}, conn : Conns]

\* A socket is dialled when those before it are closed.
OneSocket ==
    /\ \A s \in SP!Socket : peer[s] = "none" => sent[s] = 0
    /\ \A s, t \in SP!Socket : s < t /\ peer[t] # "none" => peer[s] = "closed"

\* What is written on the sockets, one after another, is in the events' order.
Written ==
    /\ \A s \in SP!Socket : Len(content[s]) = sent[s]
    /\ \A s \in SP!Socket : \A i \in 1 .. sent[s] : content[s][i] \in 1 .. Len(events)
    /\ \A s, t \in SP!Socket : \A i \in 1 .. sent[s], j \in 1 .. sent[t] :
          s < t \/ (s = t /\ i < j) => content[s][i] < content[t][j]

\* Nothing happens on a connection after its CLOSE.
CloseIsLast ==
    \A i, j \in 1 .. Len(events) :
        i < j /\ events[i].type = "close" => events[i].conn # events[j].conn

Proxied == /\ events \in Seq(Event) /\ content \in [SP!Socket -> Seq(Nat)]
           /\ OneSocket /\ Written /\ CloseIsLast

LEMMA ProxiedInit == Init => Proxied
<1> SUFFICES ASSUME Init PROVE Proxied
    OBVIOUS
<1>1. /\ events = <<>> /\ content = [s \in SP!Socket |-> <<>>]
      /\ peer = [s \in SP!Socket |-> "none"] /\ sent = [s \in SP!Socket |-> 0]
    BY SameNames DEF Init, Server!Init
<1>2. Len(events) = 0 /\ \A s \in SP!Socket : sent[s] = 0 /\ content[s] = <<>>
    BY <1>1
<1>3. OneSocket
    BY <1>1 DEF OneSocket
<1>4. Written
    <2>1. \A s \in SP!Socket : sent[s] = 0 /\ Len(content[s]) = 0
        BY <1>2
    <2>2. QED
        BY <2>1 DEF Written
<1>5. content \in [SP!Socket -> Seq(Nat)] /\ events \in Seq(Event)
    BY <1>1
<1>6. QED
    BY <1>2, <1>3, <1>4, <1>5 DEF Proxied, CloseIsLast

\* One more event.
LEMMA EventHappens ==
    ASSUME Proxied, NEW c \in Conns, NEW type \in {"open", "data", "close"},
           Happens(type, c)
    PROVE  /\ events' \in Seq(Event) /\ Len(events) \in Nat /\ Len(events') = Len(events) + 1
           /\ \A i \in 1 .. Len(events) : events'[i] = events[i]
           /\ CloseIsLast'
<1> DEFINE e == [type |-> type, conn |-> c]
<1>1. e \in Event /\ events \in Seq(Event) /\ events' = Append(events, e)
    BY DEF Event, Proxied, Happens
<1>2. /\ events' \in Seq(Event) /\ Len(events) \in Nat /\ Len(events') = Len(events) + 1
      /\ \A i \in 1 .. Len(events) : events'[i] = events[i]
      /\ events'[Len(events) + 1] = e
    <2> HIDE DEF e
    <2>1. QED
        BY <1>1, AppendFacts
<1>3. \A i \in 1 .. Len(events) : events[i].type = "close" => events[i].conn # c
    BY <1>1 DEF Happens, Allowed, Opened, ClosedBy, EventsOf
<1>4. CloseIsLast'
    <2> SUFFICES ASSUME NEW i \in 1 .. Len(events'), NEW j \in 1 .. Len(events'),
                        i < j, events'[i].type = "close"
                 PROVE  events'[i].conn # events'[j].conn
        BY DEF CloseIsLast
    <2>1. i \in 1 .. Len(events) /\ events'[i] = events[i]
        BY <1>2
    <2>2. CASE j = Len(events) + 1
        BY <1>2, <1>3, <2>1, <2>2
    <2>3. CASE j # Len(events) + 1
        <3>1. j \in 1 .. Len(events) /\ events'[j] = events[j]
            BY <1>2, <2>3
        <3>2. QED
            BY <2>1, <3>1 DEF Proxied, CloseIsLast
    <2>4. QED
        BY <2>2, <2>3
<1>5. QED
    BY <1>2, <1>4

\* The current socket takes the next event.
LEMMA WriteStep ==
    ASSUME Proxied, Components, NEW s \in SP!Socket, NEW c \in Conns,
           NEW type \in {"open", "data", "close"}, Write(s, type, c)
    PROVE  Proxied'
<1> DEFINE k == Len(events) + 1
<1>1. /\ Server!Write(s) /\ Happens(type, c)
      /\ content' = [content EXCEPT ![s] = Append(@, k)]
    BY DEF Write
<1>2. /\ events' \in Seq(Event) /\ Len(events) \in Nat /\ Len(events') = k /\ k \in Nat
      /\ CloseIsLast'
    BY <1>1, EventHappens
<1>3. /\ peer[s] = "open" /\ sent' = [sent EXCEPT ![s] = @ + 1] /\ UNCHANGED peer
      /\ sent \in [SP!Socket -> Nat] /\ peer \in [SP!Socket -> {"none", "open", "closed"}]
    BY <1>1, LinkAssumption DEF Server!Write, Components, SP!TypeOK
<1>4. \A t \in SP!Socket : s < t => sent[t] = 0
    BY <1>3 DEF Proxied, OneSocket, SP!Socket
<1>5. content[s] \in Seq(Nat) /\ Len(content[s]) = sent[s] /\ content \in [SP!Socket -> Seq(Nat)]
    BY DEF Proxied, Written
<1>6. /\ Append(content[s], k) \in Seq(Nat)
      /\ Len(Append(content[s], k)) = sent[s] + 1
      /\ \A i \in 1 .. sent[s] : Append(content[s], k)[i] = content[s][i]
      /\ Append(content[s], k)[sent[s] + 1] = k
    <2> HIDE DEF k
    <2>1. QED
        BY <1>2, <1>5, AppendFacts
<1>7. content' \in [SP!Socket -> Seq(Nat)] /\ content'[s] = Append(content[s], k)
      /\ (\A t \in SP!Socket : t # s => content'[t] = content[t] /\ sent'[t] = sent[t])
      /\ sent'[s] = sent[s] + 1
    BY <1>1, <1>3, <1>5, <1>6
<1>8. OneSocket'
    BY <1>3 DEF Proxied, OneSocket, SP!Socket
<1>9. ASSUME NEW t \in SP!Socket, NEW i \in 1 .. sent'[t]
      PROVE  \/ t = s /\ i = sent[s] + 1 /\ content'[t][i] = k
             \/ i \in 1 .. sent[t] /\ content'[t][i] = content[t][i]
    <2>1. CASE t # s
        BY <1>7, <2>1
    <2>2. CASE t = s /\ i = sent[s] + 1
        BY <1>6, <1>7, <2>2
    <2>3. CASE t = s /\ i # sent[s] + 1
        <3>1. sent[s] \in Nat /\ i \in 1 .. (sent[s] + 1)
            BY <1>3, <1>7, <2>3
        <3>2. i \in 1 .. sent[s]
            BY <2>3, <3>1
        <3>3. QED
            BY <1>6, <1>7, <2>3, <3>2
    <2>4. QED
        BY <2>1, <2>2, <2>3
<1>10. \A t \in SP!Socket : \A i \in 1 .. sent[t] : content[t][i] \in 1 .. Len(events)
    BY DEF Proxied, Written
<1>11. Written'
    <2>1. ASSUME NEW t \in SP!Socket PROVE Len(content'[t]) = sent'[t]
        BY <1>6, <1>7 DEF Proxied, Written
    <2>2. ASSUME NEW t \in SP!Socket, NEW i \in 1 .. sent'[t]
          PROVE  content'[t][i] \in 1 .. k
        BY <1>2, <1>9, <1>10
    <2>3. ASSUME NEW a \in SP!Socket, NEW b \in SP!Socket,
                 NEW i \in 1 .. sent'[a], NEW j \in 1 .. sent'[b],
                 a < b \/ (a = b /\ i < j)
          PROVE  content'[a][i] < content'[b][j]
        <3>1. CASE b = s /\ j = sent[s] + 1
            <4>1. content'[b][j] = k
                BY <1>6, <1>7, <3>1
            <4>2. i \in 1 .. sent[a] /\ content'[a][i] = content[a][i]
                BY <1>9, <2>3, <3>1 DEF SP!Socket
            <4>3. QED
                BY <1>2, <1>10, <4>1, <4>2
        <3>2. CASE ~(b = s /\ j = sent[s] + 1)
            <4>1. j \in 1 .. sent[b] /\ content'[b][j] = content[b][j]
                BY <1>9, <3>2
            <4>2. CASE i \in 1 .. sent[a] /\ content'[a][i] = content[a][i]
                <5>1. content[a][i] < content[b][j]
                    BY <2>3, <4>1, <4>2 DEF Proxied, Written
                <5>2. QED
                    BY <4>1, <4>2, <5>1
            <4>3. CASE a = s /\ i = sent[s] + 1
                <5>1. CASE a < b
                    BY <1>4, <4>1, <4>3, <5>1
                <5>2. CASE a = b /\ i < j
                    <6>1. sent[s] \in Nat /\ j \in 1 .. sent[s] /\ sent[s] + 1 < j
                        BY <1>3, <4>1, <4>3, <5>2
                    <6>2. QED
                        BY <6>1
                <5>3. QED
                    BY <2>3, <5>1, <5>2
            <4>4. QED
                BY <1>9, <4>2, <4>3
        <3>3. QED
            BY <3>1, <3>2
    <2>4. QED
        BY <1>2, <2>1, <2>2, <2>3 DEF Written, SP!Socket
<1>12. QED
    BY <1>2, <1>7, <1>8, <1>11 DEF Proxied, SP!Socket, Event

LEMMA ProxiedStep == Components /\ Proxied /\ [Next]_vars => Proxied'
<1> SUFFICES ASSUME Components, Proxied, [Next]_vars PROVE Proxied'
    OBVIOUS
<1>1. ASSUME NEW s \in Server!Socket, NEW c \in Conns,
             NEW type \in {"open", "data", "close"}, Write(s, type, c)
      PROVE  Proxied'
    BY <1>1, WriteStep, SameNames
<1>2. ASSUME NEW c \in Conns, NEW type \in {"open", "data", "close"}, Drop(type, c)
      PROVE  Proxied'
    <2>1. UNCHANGED <<content, sent, peer>> /\ Happens(type, c)
        BY <1>2 DEF Drop, server
    <2>2. /\ events' \in Seq(Event) /\ CloseIsLast'
          /\ Len(events) \in Nat /\ Len(events') = Len(events) + 1
        BY <2>1, EventHappens
    <2>3. Written'
        BY <2>1, <2>2 DEF Proxied, Written, SP!Socket
    <2>4. QED
        BY <2>1, <2>2, <2>3 DEF Proxied, OneSocket, SP!Socket, Event
<1>3. ASSUME NEW s \in Server!Socket, Redial(s) PROVE Proxied'
    <2>1. UNCHANGED <<content, sent, events>>
        BY <1>3 DEF Redial, Server!Dial, Server!Hangup
    <2>2. /\ s \in SP!Socket /\ sent \in [SP!Socket -> Nat]
          /\ peer \in [SP!Socket -> {"none", "open", "closed"}]
        BY SameNames, LinkAssumption DEF Components, SP!TypeOK
    <2>3. OneSocket'
        <3>1. CASE Server!Dial(s)
            BY <2>1, <2>2, <3>1, SameNames DEF Server!Dial, Proxied, OneSocket, SP!Socket
        <3>2. CASE Server!Hangup(s)
            BY <2>1, <2>2, <3>2 DEF Server!Hangup, Proxied, OneSocket, SP!Socket
        <3>3. QED
            BY <1>3, <3>1, <3>2 DEF Redial
    <2>4. QED
        BY <2>1, <2>3 DEF Proxied, Written, CloseIsLast, SP!Socket, Event
<1>4. ASSUME UNCHANGED <<events, content, peer, sent>> PROVE Proxied'
    BY <1>4 DEF Proxied, OneSocket, Written, CloseIsLast, SP!Socket, Event
<1>5. ASSUME NEW s \in Server!Socket, Accept(s) \/ Handle(s)
      PROVE  UNCHANGED <<events, content, peer, sent>>
    BY <1>5 DEF Accept, Handle, Server!Accept, Server!Handler, Server!HandlerCheck,
       Server!ReadFrame, Server!ReadFails, Server!SendFrame, Server!NotifyGone, Server!proxy
<1>6. AcceptLoop \/ Take \/ SendChunk \/ (\E w \in Analyzer!Serial : WorkerStep(w))
         \/ UNCHANGED vars => UNCHANGED <<events, content, peer, sent>>
    BY DEF AcceptLoop, AcceptCheck, AcceptFails, AcceptRecheck, Take, SendChunk, WorkerStep,
       Server!AcceptCheck, Server!AcceptFails, Server!AcceptRecheck, Server!Receive,
       Server!proxy, server, vars
<1>7. QED
    BY <1>1, <1>2, <1>3, <1>4, <1>5, <1>6 DEF Next, Proxy

\* A handler starts when those of the sockets before have ended ...
InTurn ==
    ~overlapped => \A s, t \in SP!Socket : s < t /\ handler[t] # "none" => handler[s] = "exited"

\* ... so the messages are in the order of the sockets ...
SocketsInTurn ==
    ~overlapped => \A i, j \in 1 .. Len(flow) : i < j => flow[i][1] <= flow[j][1]

\* ... and every message but a marker was written.
AllWritten ==
    /\ \A s \in SP!Socket : read[s] <= sent[s] /\ (handler[s] = "send" => read[s] > 0)
    /\ \A i \in 1 .. Len(flow) :
          flow[i][2] = SP!Marker \/ flow[i][2] \in 1 .. sent[flow[i][1]]

LEMMA InTurnStep == Components /\ Gone /\ InTurn /\ [Next]_vars => InTurn'
<1> SUFFICES ASSUME Components, Gone, InTurn, [Next]_vars PROVE InTurn'
    OBVIOUS
<1>0. handler \in [SP!Socket -> {"none", "check", "read", "send", "gone", "exited"}]
    BY DEF Components, SP!TypeOK
<1>1. ASSUME UNCHANGED <<handler, overlapped>> PROVE InTurn'
    BY <1>1 DEF InTurn, SP!Socket
<1>2. Proxy \/ AcceptLoop \/ Take \/ SendChunk \/ (\E w \in Analyzer!Serial : WorkerStep(w))
         \/ UNCHANGED vars => UNCHANGED <<handler, overlapped>>
    BY DEF Proxy, Write, Drop, Redial, Server!Write, Server!Dial, Server!Hangup, AcceptLoop,
       AcceptCheck, AcceptFails, AcceptRecheck,
       Take, SendChunk, WorkerStep, Server!AcceptCheck, Server!AcceptFails,
       Server!AcceptRecheck, Server!Receive, Server!server,
       server, vars
<1>3. ASSUME NEW s \in Server!Socket, Accept(s) PROVE InTurn'
    <2>1. /\ overlapped' = (overlapped \/ \E t \in SP!Socket : handler[t] \notin {"none", "exited"})
          /\ handler[s] = "none" /\ handler' = [handler EXCEPT ![s] = "check"]
          /\ \A t \in SP!Socket : t < s => handler[t] # "none"
        BY <1>3, SameNames DEF Accept, Server!Accept
    <2>2. QED
        BY <1>0, <2>1 DEF InTurn, SP!Socket
<1>4. ASSUME NEW s \in Server!Socket, Handle(s) PROVE InTurn'
    <2>1. /\ UNCHANGED overlapped /\ handler[s] \notin {"none", "exited"}
          /\ \E h \in {"check", "read", "send", "gone", "exited"} :
                handler' = [handler EXCEPT ![s] = h]
        BY <1>4 DEF Handle, Server!Handler, Server!HandlerCheck, Server!ReadFrame,
           Server!ReadFails, Server!SendFrame, Server!NotifyGone
    <2>2. QED
        BY <1>0, <2>1 DEF InTurn, SP!Socket
<1>5. QED
    BY <1>1, <1>2, <1>3, <1>4 DEF Next

\* What a step adds to the messages.
LEMMA FlowStep ==
    ASSUME Components, Gone, [Next]_vars
    PROVE  \/ flow' = flow
           \/ \E s \in SP!Socket, n \in 0 .. SP!Marker :
                 /\ flow' = Append(flow, <<s, n>>)
                 /\ UNCHANGED <<overlapped, sent, read>>
                 /\ \/ handler[s] = "send" /\ n = read[s]
                    \/ handler[s] = "gone" /\ n = SP!Marker
<1>1. UNCHANGED <<received, frameChan>> => flow' = flow
    BY DEF flow
<1>2. Proxy \/ AcceptLoop \/ SendChunk \/ (\E w \in Analyzer!Serial : WorkerStep(w))
         \/ UNCHANGED vars \/ (\E s \in Server!Socket : Accept(s))
      => UNCHANGED <<received, frameChan>>
    BY DEF Proxy, Write, Drop, Redial, Server!Write, Server!Dial, Server!Hangup, AcceptLoop,
       AcceptCheck, AcceptFails, AcceptRecheck,
       SendChunk, WorkerStep, Server!AcceptCheck, Server!AcceptFails, Server!AcceptRecheck,
       Accept, Server!Accept, Server!output,
       server, vars
<1>3. received \in Seq(SP!Message) /\ frameChan \in Seq(SP!Message)
    BY DEF Components, SP!TypeOK
<1>4. CASE Take
    <2>1. /\ frameChan # <<>> /\ received' = Append(received, Head(frameChan))
          /\ frameChan' = Tail(frameChan)
        BY <1>4 DEF Take, Server!Receive
    <2>2. QED
        BY <1>3, <2>1, MoveHead DEF flow
<1>5. ASSUME NEW s \in SP!Socket, NEW n \in 0 .. SP!Marker, Server!Put(<<s, n>>),
             UNCHANGED received
      PROVE  flow' = flow \/ flow' = Append(flow, <<s, n>>)
    <2>1. frameChan' = frameChan \/ frameChan' = Append(frameChan, <<s, n>>)
        BY <1>5 DEF Server!Put
    <2> DEFINE m == <<s, n>>
    <2>2. m \in SP!Message
        BY DEF SP!Message
    <2>3. received \o Append(frameChan, m) = Append(received \o frameChan, m)
        <3> HIDE DEF m
        <3>1. QED
            BY <1>3, <2>2, AppendTail
    <2>4. QED
        BY <1>5, <2>1, <2>3 DEF flow
<1>6. ASSUME NEW s \in Server!Socket, Handle(s)
      PROVE  \/ UNCHANGED <<received, frameChan>>
             \/ \E n \in 0 .. SP!Marker :
                   /\ Server!Put(<<s, n>>) /\ UNCHANGED <<received, overlapped, sent, read>>
                   /\ \/ handler[s] = "send" /\ n = read[s]
                      \/ handler[s] = "gone" /\ n = SP!Marker
    <2>1. read[s] \in 0 .. SP!Marker /\ SP!Marker \in 0 .. SP!Marker
        BY SameNames, LinkAssumption DEF Components, SP!TypeOK, SP!Marker
    <2>2. CASE Server!HandlerCheck(s) \/ Server!ReadFrame(s) \/ Server!ReadFails(s)
        BY <2>2 DEF Server!HandlerCheck, Server!ReadFrame, Server!ReadFails, Server!output
    <2>3. CASE Server!SendFrame(s)
        BY <1>6, <2>1, <2>3 DEF Handle, Server!SendFrame, Server!proxy
    <2>4. CASE Server!NotifyGone(s)
        BY <1>6, <2>1, <2>4, SameNames DEF Handle, Server!NotifyGone, Server!proxy
    <2>5. QED
        BY <1>6, <2>2, <2>3, <2>4 DEF Handle, Server!Handler
<1>7. QED
    BY <1>1, <1>2, <1>4, <1>5, <1>6, SameNames DEF Next

\* The messages after one more.
LEMMA FlowGrows ==
    ASSUME Components, NEW m \in SP!Message, flow' = Append(flow, m)
    PROVE  /\ Len(flow) \in Nat /\ Len(flow') = Len(flow) + 1 /\ flow'[Len(flow) + 1] = m
           /\ \A i \in 1 .. Len(flow) : flow'[i] = flow[i]
BY FlowType, AppendFacts

LEMMA SocketsInTurnStep ==
    Components /\ Gone /\ InTurn /\ SocketsInTurn /\ [Next]_vars => SocketsInTurn'
<1> SUFFICES ASSUME Components, Gone, InTurn, SocketsInTurn, [Next]_vars, ~overlapped',
                    NEW i \in 1 .. Len(flow'), NEW j \in 1 .. Len(flow'), i < j
             PROVE  flow'[i][1] <= flow'[j][1]
    BY DEF SocketsInTurn
<1>1. ~overlapped
    <2>1. UNCHANGED overlapped \/ \E s \in Server!Socket : Accept(s)
        BY DEF Next, Proxy, Write, Drop, Redial, AcceptLoop, AcceptCheck, AcceptFails,
           AcceptRecheck, Handle, Take, SendChunk,
           WorkerStep, vars
    <2>2. QED
        BY <2>1 DEF Accept
<1>2. CASE flow' = flow
    BY <1>1, <1>2 DEF SocketsInTurn
<1>3. ASSUME NEW s \in SP!Socket, NEW n \in 0 .. SP!Marker, flow' = Append(flow, <<s, n>>),
             handler[s] \in {"send", "gone"}
      PROVE  flow'[i][1] <= flow'[j][1]
    <2> DEFINE m == <<s, n>>
    <2>1. m \in SP!Message /\ m[1] = s /\ s \in Int
        BY DEF SP!Message, SP!Socket
    <2>2. /\ Len(flow) \in Nat /\ Len(flow') = Len(flow) + 1 /\ flow'[Len(flow) + 1] = m
          /\ \A k \in 1 .. Len(flow) : flow'[k] = flow[k]
        <3> HIDE DEF m
        <3>1. flow' = Append(flow, m)
            BY <1>3 DEF m
        <3>2. QED
            BY <2>1, <3>1, FlowGrows
    <2>3. i \in 1 .. Len(flow) /\ flow'[i] = flow[i]
        BY <2>2
    <2>4. flow[i][1] \in SP!Socket /\ handler[flow[i][1]] # "none"
        BY <2>3, FlowType DEF Gone, Started
    <2>5. ~(s < flow[i][1])
        BY <1>1, <1>3, <2>4 DEF InTurn
    <2>6. CASE j = Len(flow) + 1
        BY <2>1, <2>2, <2>3, <2>4, <2>5, <2>6 DEF SP!Socket
    <2>7. CASE j # Len(flow) + 1
        <3>1. j \in 1 .. Len(flow) /\ flow'[j] = flow[j]
            BY <2>2, <2>7
        <3>2. QED
            BY <1>1, <2>3, <3>1 DEF SocketsInTurn
    <2>8. QED
        BY <2>6, <2>7
<1>4. QED
    BY <1>2, <1>3, FlowStep

LEMMA AllWrittenStep ==
    Components /\ Gone /\ AllWritten /\ [Next]_vars => AllWritten'
<1> SUFFICES ASSUME Components, Gone, AllWritten, [Next]_vars PROVE AllWritten'
    OBVIOUS
<1>0. /\ sent \in [SP!Socket -> Nat] /\ read \in [SP!Socket -> Nat]
      /\ handler \in [SP!Socket -> {"none", "check", "read", "send", "gone", "exited"}]
    BY LinkAssumption DEF Components, SP!TypeOK
<1>1. \A s \in SP!Socket : sent'[s] \in Nat /\ sent[s] <= sent'[s]
    <2>1. UNCHANGED sent \/ \E s \in SP!Socket : sent' = [sent EXCEPT ![s] = @ + 1]
        BY SameNames DEF Next, Proxy, Write, Drop, Redial, AcceptLoop, AcceptCheck,
           AcceptFails, AcceptRecheck, Accept, Handle, Take,
           SendChunk, WorkerStep, vars, server, Server!Write, Server!Dial, Server!Hangup,
           Server!AcceptCheck, Server!AcceptFails, Server!AcceptRecheck, Server!Accept,
           Server!Handler, Server!HandlerCheck,
           Server!ReadFrame, Server!ReadFails, Server!SendFrame, Server!NotifyGone,
           Server!Receive, Server!proxy
    <2>2. QED
        BY <1>0, <2>1
<1>2. \A s \in SP!Socket : read'[s] <= sent'[s] /\ (handler'[s] = "send" => read'[s] > 0)
    <2>1. ASSUME UNCHANGED <<read, handler>>
          PROVE  \A s \in SP!Socket : read'[s] <= sent'[s] /\ (handler'[s] = "send" => read'[s] > 0)
        BY <1>0, <1>1, <2>1 DEF AllWritten
    <2>2. Proxy \/ AcceptLoop \/ Take \/ SendChunk \/ (\E w \in Analyzer!Serial : WorkerStep(w))
             \/ UNCHANGED vars => UNCHANGED <<read, handler>>
        BY DEF Proxy, Write, Drop, Redial, Server!Write, Server!Dial, Server!Hangup,
           AcceptLoop, AcceptCheck, AcceptFails, AcceptRecheck, Take, SendChunk, WorkerStep,
           Server!AcceptCheck, Server!AcceptFails, Server!AcceptRecheck, Server!Receive,
           Server!server, server, vars
    <2>3. ASSUME NEW t \in Server!Socket, Accept(t) \/ Handle(t)
          PROVE  \A s \in SP!Socket : read'[s] <= sent'[s] /\ (handler'[s] = "send" => read'[s] > 0)
        <3>1. CASE Server!ReadFrame(t)
            <4>1. read[t] < sent[t] /\ read' = [read EXCEPT ![t] = @ + 1]
                  /\ handler' = [handler EXCEPT ![t] = "send"] /\ UNCHANGED sent
                BY <3>1 DEF Server!ReadFrame, Server!proxy
            <4>2. QED
                BY <1>0, <4>1 DEF AllWritten
        <3>2. CASE ~Server!ReadFrame(t)
            <4>1. /\ UNCHANGED read
                  /\ \E h \in {"check", "read", "gone", "exited"} :
                        handler' = [handler EXCEPT ![t] = h]
                BY <2>3, <3>2 DEF Accept, Handle, Server!Accept, Server!Handler,
                   Server!HandlerCheck, Server!ReadFails, Server!SendFrame, Server!NotifyGone
            <4>2. QED
                BY <1>0, <1>1, <4>1 DEF AllWritten
        <3>3. QED
            BY <3>1, <3>2
    <2>4. QED
        BY <2>1, <2>2, <2>3 DEF Next
<1>3. ASSUME NEW i \in 1 .. Len(flow)
      PROVE  flow[i][2] = SP!Marker \/ flow[i][2] \in 1 .. sent'[flow[i][1]]
    <2>1. flow[i][1] \in SP!Socket
        BY FlowType
    <2>2. QED
        BY <1>0, <1>1, <2>1 DEF AllWritten
<1>4. CASE flow' = flow
    BY <1>2, <1>3, <1>4 DEF AllWritten, SP!Socket, SP!Marker
<1>5. ASSUME NEW s \in SP!Socket, NEW n \in 0 .. SP!Marker, flow' = Append(flow, <<s, n>>),
             n = SP!Marker \/ (handler[s] = "send" /\ n = read[s])
      PROVE  AllWritten'
    <2> DEFINE m == <<s, n>>
    <2>1. m \in SP!Message /\ m[1] = s /\ m[2] = n
        BY DEF SP!Message
    <2>2. m[2] = SP!Marker \/ m[2] \in 1 .. sent'[m[1]]
        BY <1>0, <1>1, <1>5, <2>1 DEF AllWritten
    <2>3. /\ Len(flow) \in Nat /\ Len(flow') = Len(flow) + 1 /\ flow'[Len(flow) + 1] = m
          /\ \A k \in 1 .. Len(flow) : flow'[k] = flow[k]
        <3> HIDE DEF m
        <3>1. flow' = Append(flow, m)
            BY <1>5 DEF m
        <3>2. QED
            BY <2>1, <3>1, FlowGrows
    <2>4. ASSUME NEW i \in 1 .. Len(flow')
          PROVE  flow'[i][2] = SP!Marker \/ flow'[i][2] \in 1 .. sent'[flow'[i][1]]
        <3>1. CASE i = Len(flow) + 1
            BY <2>2, <2>3, <3>1
        <3>2. CASE i # Len(flow) + 1
            <4>1. i \in 1 .. Len(flow) /\ flow'[i] = flow[i]
                BY <2>3, <3>2
            <4>2. QED
                BY <1>3, <4>1
        <3>3. QED
            BY <3>1, <3>2
    <2>5. QED
        BY <1>2, <2>4 DEF AllWritten, SP!Socket, SP!Marker
<1>6. QED
    BY <1>4, <1>5, FlowStep

\* got tells the event of each frame received.
GotMatches ==
    /\ got \in Seq(Nat) /\ Len(got) = Len(received)
    /\ \A i \in 1 .. Len(got) :
          got[i] = IF received[i][2] = SP!Marker THEN 0
                   ELSE content[received[i][1]][received[i][2]]

LEMMA ReceivedWritten ==
    ASSUME Components, Proxied, AllWritten
    PROVE  /\ Len(received) \in Nat
           /\ \A i \in 1 .. Len(received) :
                 /\ received[i] = flow[i] /\ i \in 1 .. Len(flow)
                 /\ received[i][1] \in SP!Socket
                 /\ received[i][2] = SP!Marker \/ received[i][2] \in 1 .. sent[received[i][1]]
           /\ \A s \in SP!Socket : \A i \in 1 .. sent[s] :
                 content[s][i] \in 1 .. Len(events) /\ content[s][i] \in Nat \ {0}
<1>1. received \in Seq(SP!Message) /\ frameChan \in Seq(SP!Message)
    BY DEF Components, SP!TypeOK
<1>2. /\ Len(received) \in Nat /\ Len(frameChan) \in Nat
      /\ Len(flow) = Len(received) + Len(frameChan)
      /\ \A i \in 1 .. Len(received) : flow[i] = received[i]
    BY <1>1, ConcatProperties, LenProperties DEF flow
<1>3. \A i \in 1 .. Len(received) : i \in 1 .. Len(flow) /\ received[i] = flow[i]
    BY <1>2
<1>4. \A i \in 1 .. Len(flow) : flow[i][1] \in SP!Socket
    BY FlowType
<1>5. Len(events) \in Nat
    BY LenProperties DEF Proxied
<1>6. QED
    BY <1>2, <1>3, <1>4, <1>5 DEF AllWritten, Proxied, Written

LEMMA ContentStable ==
    ASSUME Components, Proxied, [Next]_vars
    PROVE  \A s \in SP!Socket : \A i \in 1 .. sent[s] : content'[s][i] = content[s][i]
<1>1. ASSUME NEW s \in SP!Socket, NEW c \in Conns, NEW type \in {"open", "data", "close"},
             Write(s, type, c)
      PROVE  \A t \in SP!Socket : \A i \in 1 .. sent[t] : content'[t][i] = content[t][i]
    <2>1. content' = [content EXCEPT ![s] = Append(@, Len(events) + 1)]
        BY <1>1 DEF Write
    <2>2. Len(events) + 1 \in Nat /\ content[s] \in Seq(Nat) /\ Len(content[s]) = sent[s]
        BY LenProperties DEF Proxied, Written
    <2>3. \A i \in 1 .. sent[s] : Append(content[s], Len(events) + 1)[i] = content[s][i]
        BY <2>2, AppendFacts
    <2>4. QED
        BY <2>1, <2>3 DEF Proxied
<1>2. UNCHANGED content \/ \E s \in SP!Socket, c \in Conns, type \in {"open", "data", "close"} :
                              Write(s, type, c)
    BY SameNames DEF Next, Proxy, Drop, Redial, AcceptLoop, AcceptCheck, AcceptFails,
       AcceptRecheck, Accept, Handle, Take, SendChunk,
       WorkerStep, vars
<1>3. QED
    BY <1>1, <1>2

LEMMA GotStep ==
    Components /\ Proxied /\ AllWritten /\ GotMatches /\ [Next]_vars => GotMatches'
<1> SUFFICES ASSUME Components, Proxied, AllWritten, GotMatches, [Next]_vars PROVE GotMatches'
    OBVIOUS
<1>1. CASE UNCHANGED <<got, received>>
    <2>1. ASSUME NEW i \in 1 .. Len(got), received[i][2] # SP!Marker
          PROVE  content'[received[i][1]][received[i][2]] = content[received[i][1]][received[i][2]]
        BY <2>1, ReceivedWritten, ContentStable DEF GotMatches
    <2>2. QED
        BY <1>1, <2>1 DEF GotMatches, SP!Marker
<1>2. CASE Take
    <2> DEFINE m == Head(frameChan)
               n == IF m[2] = SP!Marker THEN 0 ELSE content[m[1]][m[2]]
    <2>1. /\ received' = Append(received, m) /\ got' = Append(got, n) /\ frameChan # <<>>
          /\ UNCHANGED content
        BY <1>2, SameNames DEF Take, Server!Receive, IsMarker
    <2>2. received \in Seq(SP!Message) /\ frameChan \in Seq(SP!Message) /\ m \in SP!Message
        BY <2>1, HeadTailProperties DEF Components, SP!TypeOK
    <2>3. m = flow[Len(received) + 1] /\ Len(received) + 1 \in 1 .. Len(flow)
        <3>1. /\ Len(received) \in Nat /\ Len(frameChan) \in Nat \ {0}
              /\ Len(flow) = Len(received) + Len(frameChan)
            BY <2>1, <2>2, ConcatProperties, LenProperties, EmptySeq DEF flow
        <3>2. flow[Len(received) + 1] = frameChan[1]
            BY <2>2, <3>1, ConcatProperties DEF flow
        <3>3. m = frameChan[1]
            BY <2>1, <2>2, HeadTailProperties
        <3>4. QED
            BY <3>1, <3>2, <3>3
    <2>4. n \in Nat
        <3>1. m[2] = SP!Marker \/ m[2] \in 1 .. sent[m[1]]
            BY <2>3 DEF AllWritten
        <3>2. m[1] \in SP!Socket
            BY <2>3, FlowType
        <3>3. QED
            BY <3>1, <3>2, ReceivedWritten
    <2>5. /\ Len(received) \in Nat /\ Len(received') = Len(received) + 1
          /\ received'[Len(received) + 1] = m
          /\ \A i \in 1 .. Len(received) : received'[i] = received[i]
        <3> HIDE DEF m
        <3>1. QED
            BY <2>1, <2>2, AppendFacts
    <2>6. /\ got' \in Seq(Nat) /\ Len(got') = Len(got) + 1 /\ got'[Len(got) + 1] = n
          /\ \A i \in 1 .. Len(got) : got'[i] = got[i]
        <3> HIDE DEF n
        <3>1. QED
            BY <2>1, <2>4, AppendFacts DEF GotMatches
    <2>7. ASSUME NEW i \in 1 .. Len(got')
          PROVE  got'[i] = IF received'[i][2] = SP!Marker THEN 0
                           ELSE content'[received'[i][1]][received'[i][2]]
        <3>1. CASE i = Len(got) + 1
            BY <2>1, <2>5, <2>6, <3>1 DEF GotMatches
        <3>2. CASE i # Len(got) + 1
            <4>1. i \in 1 .. Len(got) /\ got'[i] = got[i] /\ received'[i] = received[i]
                BY <2>5, <2>6, <3>2 DEF GotMatches
            <4>2. QED
                BY <2>1, <4>1 DEF GotMatches
        <3>3. QED
            BY <3>1, <3>2
    <2>8. QED
        BY <2>5, <2>6, <2>7 DEF GotMatches, SP!Marker
<1>3. Take \/ UNCHANGED <<got, received>>
    BY DEF Next, Proxy, Write, Drop, Redial, AcceptLoop, AcceptCheck, AcceptFails,
       AcceptRecheck, Accept, Handle, SendChunk,
       WorkerStep, vars, server, Server!Write, Server!Dial, Server!Hangup,
       Server!AcceptCheck, Server!AcceptFails, Server!AcceptRecheck,
       Server!Accept, Server!Handler, Server!HandlerCheck, Server!ReadFrame,
       Server!ReadFails, Server!SendFrame, Server!NotifyGone, Server!output
<1>4. QED
    BY <1>1, <1>2, <1>3

\* What orders the events handled.
Handled == Gone /\ Proxied /\ InTurn /\ SocketsInTurn /\ AllWritten /\ GotMatches

LEMMA HandledInit == Init => Handled
<1> SUFFICES ASSUME Init PROVE Handled
    OBVIOUS
<1>1. /\ received = <<>> /\ frameChan = <<>> /\ got = <<>>
      /\ handler = [s \in SP!Socket |-> "none"]
      /\ read = [s \in SP!Socket |-> 0] /\ sent = [s \in SP!Socket |-> 0]
    BY SameNames DEF Init, Server!Init
<1>2. Len(flow) = 0 /\ Len(got) = 0 /\ Len(received) = 0 /\ got \in Seq(Nat)
    <2>1. flow = <<>>
        BY <1>1 DEF flow
    <2>2. QED
        BY <1>1, <2>1
<1>3. InTurn /\ SocketsInTurn /\ AllWritten
    BY <1>1, <1>2 DEF InTurn, SocketsInTurn, AllWritten
<1>4. GotMatches
    BY <1>2 DEF GotMatches
<1>5. QED
    BY <1>3, <1>4, GoneInit, ProxiedInit DEF Handled

LEMMA HandledStep == Components /\ Handled /\ [Next]_vars => Handled'
BY GoneStep, ProxiedStep, InTurnStep, SocketsInTurnStep, AllWrittenStep, GotStep DEF Handled

\* By socket, then by place on the socket, then by what was written there.
LEMMA HandledImplies == Components /\ Handled => OrderAcrossRedial
<1> SUFFICES ASSUME Components, Handled, ~overlapped, NEW i \in DOMAIN got, NEW j \in DOMAIN got,
                    i < j, got[i] # 0, got[j] # 0
             PROVE  got[i] < got[j]
    BY DEF OrderAcrossRedial
<1> DEFINE a == received[i]
           b == received[j]
<1>1. i \in 1 .. Len(received) /\ j \in 1 .. Len(received)
    BY DEF Handled, GotMatches
<1>2. /\ a[2] # SP!Marker /\ got[i] = content[a[1]][a[2]]
      /\ b[2] # SP!Marker /\ got[j] = content[b[1]][b[2]]
    BY <1>1 DEF Handled, GotMatches
<1>3. /\ a = flow[i] /\ b = flow[j] /\ i \in 1 .. Len(flow) /\ j \in 1 .. Len(flow)
      /\ a[1] \in SP!Socket /\ b[1] \in SP!Socket
      /\ a[2] \in 1 .. sent[a[1]] /\ b[2] \in 1 .. sent[b[1]]
    BY <1>1, <1>2, ReceivedWritten DEF Handled
<1>4. a[1] <= b[1]
    BY <1>3 DEF Handled, SocketsInTurn
<1>5. a[1] = b[1] => a[2] < b[2]
    <2>1. SP!Output = flow
        BY DEF SP!Output, flow
    <2>2. QED
        BY <1>3, <2>1 DEF Components, SP!PassedOnInOrder, SP!SocketOrder
<1>6. a[1] < b[1] \/ (a[1] = b[1] /\ a[2] < b[2])
    BY <1>3, <1>4, <1>5 DEF SP!Socket
<1>7. QED
    BY <1>2, <1>3, <1>6 DEF Handled, Proxied, Written

\* got holds numbers of events.
GotEvents ==
    /\ Len(got) \in Nat /\ DOMAIN got = 1 .. Len(got) /\ Len(events) \in Nat
    /\ \A i \in 1 .. Len(got) : got[i] = 0 \/ got[i] \in 1 .. Len(events)
    /\ \A i \in 1 .. Len(events) : events[i] \in Event

LEMMA GotAreEvents == Components /\ Handled => GotEvents
<1> SUFFICES ASSUME Components, Handled PROVE GotEvents
    OBVIOUS
<1>1. got \in Seq(Nat) /\ events \in Seq(Event)
    BY DEF Handled, GotMatches, Proxied
<1>2. Len(got) \in Nat /\ DOMAIN got = 1 .. Len(got) /\ Len(events) \in Nat
      /\ \A i \in 1 .. Len(events) : events[i] \in Event
    BY <1>1, LenProperties, ElementOfSeq
<1>3. ASSUME NEW i \in 1 .. Len(got) PROVE got[i] = 0 \/ got[i] \in 1 .. Len(events)
    <2>1. i \in 1 .. Len(received)
        BY DEF Handled, GotMatches
    <2>2. CASE received[i][2] = SP!Marker
        BY <2>2 DEF Handled, GotMatches
    <2>3. CASE received[i][2] # SP!Marker
        <3>1. /\ received[i][1] \in SP!Socket
              /\ received[i][2] \in 1 .. sent[received[i][1]]
              /\ got[i] = content[received[i][1]][received[i][2]]
            BY <2>1, <2>3, ReceivedWritten DEF Handled, GotMatches
        <3>2. QED
            BY <3>1 DEF Handled, Proxied, Written
    <2>4. QED
        BY <2>2, <2>3
<1>4. QED
    BY <1>2, <1>3 DEF GotEvents

LEMMA ClosedStep ==
    Components /\ Components' /\ Handled /\ Handled' /\ NoWorkerAfterClose /\ [Next]_vars
        => NoWorkerAfterClose'
<1> SUFFICES ASSUME Components, Components', Handled, Handled', NoWorkerAfterClose, [Next]_vars,
                    ~overlapped', NEW i \in DOMAIN got', got'[i] # 0,
                    events'[got'[i]].type = "close"
             PROVE  workers'[events'[got'[i]].conn] = PP!NoWorker
    BY SameNames DEF NoWorkerAfterClose, PP!NoWorker
<1> USE DEF GotEvents
<1>numbers. GotEvents /\ GotEvents'
    BY GotAreEvents, PTL
<1>0. workers \in [Conns -> PP!Serial \cup {PP!NoWorker}]
    BY DEF Components, PP!TypeOK
<1>1. CASE UNCHANGED <<got, workers>>
    <2>1. /\ i \in DOMAIN got /\ got'[i] = got[i] /\ got[i] \in 1 .. Len(events)
        BY <1>1, <1>numbers
    <2>2. \A k \in 1 .. Len(events) : events'[k] = events[k]
        <3>1. UNCHANGED events \/ \E c \in Conns, type \in {"open", "data", "close"} :
                                     Happens(type, c)
            BY DEF Next, Proxy, Write, Drop, Redial, AcceptLoop, AcceptCheck, AcceptFails,
               AcceptRecheck, Accept, Handle, Take,
               SendChunk, WorkerStep, vars
        <3>2. QED
            BY <3>1, EventHappens DEF Handled
    <2>3. ~overlapped
        BY DEF Next, Proxy, Write, Drop, Redial, AcceptLoop, AcceptCheck, AcceptFails,
           AcceptRecheck, Accept, Handle, Take,
           SendChunk, WorkerStep, vars
    <2>4. QED
        BY <1>1, <2>1, <2>2, <2>3, SameNames DEF NoWorkerAfterClose
<1>2. CASE Take
    <2>1. PICK n : HandleFrame(n) /\ got' = Append(got, n)
        BY <1>2 DEF Take
    <2>2. UNCHANGED <<events, overlapped>>
        BY <1>2 DEF Take
    <2>3. got \in Seq(Nat) /\ got' \in Seq(Nat) /\ Len(got) \in Nat
        BY <1>numbers DEF Handled, GotMatches
    <2>4. /\ Len(got') = Len(got) + 1 /\ got'[Len(got) + 1] = n
          /\ \A k \in 1 .. Len(got) : got'[k] = got[k]
        BY <2>1, <2>3
    <2>5. /\ i \in 1 .. Len(got') /\ got'[i] \in 1 .. Len(events)
          /\ n = 0 \/ n \in 1 .. Len(events)
        <3>1. /\ DOMAIN got' = 1 .. Len(got')
              /\ \A k \in 1 .. Len(got') : got'[k] = 0 \/ got'[k] \in 1 .. Len(events')
            BY <1>numbers
        <3>2. QED
            BY <2>2, <2>3, <2>4, <3>1
    <2>6. events[got'[i]].conn \in Conns
        BY <2>5, <1>numbers DEF Event
    <2>7. CASE n = 0
        <3>1. workers' = [c \in Conns |-> PP!NoWorker]
            BY <2>1, <2>7, SameNames DEF HandleFrame, Analyzer!IPCDisconnect
        <3>2. QED
            BY <2>2, <2>6, <3>1
    <2>8. CASE n # 0 /\ i = Len(got) + 1
        <3>1. PICK c \in Conns : /\ events[n].conn = c /\ Analyzer!ConnClose(c)
            BY <2>1, <2>2, <2>4, <2>8 DEF HandleFrame
        <3>2. QED
            BY <1>0, <2>2, <2>4, <2>8, <3>1, SameNames DEF Analyzer!ConnClose
    <2>9. CASE n # 0 /\ i # Len(got) + 1
        <3>1. i \in 1 .. Len(got) /\ got'[i] = got[i] /\ i \in DOMAIN got
            BY <2>3, <2>4, <2>5, <2>9, <1>numbers
        <3>2. got[i] < n
            <4>1. OrderAcrossRedial'
                BY HandledImplies, PTL
            <4>2. Len(got) + 1 \in DOMAIN got' /\ i < Len(got) + 1
                BY <2>3, <2>4, <3>1
            <4>3. QED
                BY <2>4, <2>9, <3>1, <4>1, <4>2 DEF OrderAcrossRedial
        <3>3. events[got[i]].conn # events[n].conn
            BY <2>2, <2>5, <2>9, <3>1, <3>2 DEF Handled, Proxied, CloseIsLast
        <3>4. workers[events[got[i]].conn] = PP!NoWorker
            BY <2>2, <3>1, SameNames DEF NoWorkerAfterClose
        <3>5. \A c \in Conns : c # events[n].conn => workers'[c] = workers[c]
            BY <1>0, <2>1, <2>9 DEF HandleFrame, Analyzer!ConnOpen, Analyzer!Data,
               Analyzer!ConnClose, Analyzer!StartWorker
        <3>6. QED
            BY <2>2, <2>6, <3>1, <3>3, <3>4, <3>5
    <2>10. QED
        BY <2>7, <2>8, <2>9
<1>3. Take \/ UNCHANGED <<got, workers>>
    BY DEF Next, Proxy, Write, Drop, Redial, AcceptLoop, AcceptCheck, AcceptFails,
       AcceptRecheck, Accept, Handle, SendChunk,
       WorkerStep, vars, analyzer, Analyzer!SendChunk, Analyzer!WorkerStep,
       Analyzer!WorkerTake, Analyzer!WorkerDrain, Analyzer!WorkerExit, Analyzer!dispatch
<1>4. QED
    BY <1>1, <1>2, <1>3

(* The processor handles the events of game connections in the order they  *)
(* happened, also when the proxy redialled in between, as long as no two   *)
(* handleConnection goroutines were at work at once.                       *)
THEOREM OrderIsKept == Spec => []OrderAcrossRedial
BY ComponentsHold, HandledInit, HandledStep, HandledImplies, PTL DEF Spec

(* And then no worker comes back for a connection whose CLOSE the processor*)
(* handled: no late chunk makes handleData create one.                     *)
THEOREM NoLateWorker == Spec => []NoWorkerAfterClose
<1>1. Init => NoWorkerAfterClose
    BY DEF Init, NoWorkerAfterClose
<1>2. QED
    BY <1>1, ComponentsHold, HandledInit, HandledStep, ClosedStep, PTL DEF Spec
=============================================================================
