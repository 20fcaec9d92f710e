-------------------------- MODULE ProcessorProofs --------------------------
(***************************************************************************)
(* Theorems about Processor, for every set of connections, channel         *)
(* capacity and number of frames.                                          *)
(***************************************************************************)
EXTENDS Processor, SequenceTheorems, TLAPS

LEMMA TypeInit == Init => TypeOK
<1> SUFFICES ASSUME Init PROVE TypeOK
    OBVIOUS
<1>1. connOf \in [Serial -> Conns]
    <2>1. (CHOOSE c \in Conns : TRUE) \in Conns
        BY ProcessorAssumption
    <2>2. QED
        BY <2>1 DEF Init
<1>2. chunks \in [Serial -> Seq(Serial)] /\ done \in [Serial -> Seq(Serial)]
    BY EmptySeq DEF Init
<1>3. serial \in 0 .. MaxFrames
    BY ProcessorAssumption DEF Init
<1>4. QED
    BY <1>1, <1>2, <1>3 DEF Init, TypeOK

LEMMA TypeStep == TypeOK /\ [Next]_vars => TypeOK'
<1> SUFFICES ASSUME TypeOK, [Next]_vars PROVE TypeOK'
    OBVIOUS
<1> USE ProcessorAssumption DEF TypeOK, Serial, NoWorker, dispatch, pool, control
<1>1. ASSUME NEW c \in Conns, ConnOpen(c) PROVE TypeOK'
    BY <1>1 DEF ConnOpen, Takes, StartWorker
<1>2. ASSUME NEW c \in Conns, ConnClose(c) PROVE TypeOK'
    BY <1>2 DEF ConnClose, Takes, CloseWorkers
<1>3. CASE IPCDisconnect
    BY <1>3 DEF IPCDisconnect, Takes, CloseWorkers
<1>4. ASSUME NEW c \in Conns, Data(c) PROVE TypeOK'
    <2>1. /\ serial' \in 0 .. MaxFrames /\ serial + 1 \in Serial
          /\ serial' # 0 /\ serial + 1 # NoWorker
        BY <1>4 DEF Data, Takes
    <2>2. CASE workers[c] = NoWorker
        <3>1. /\ workers' = [workers EXCEPT ![c] = serial + 1]
              /\ connections' = connections \cup {c}
              /\ wstate' = [wstate EXCEPT ![serial + 1] = "run"]
              /\ connOf' = [connOf EXCEPT ![serial + 1] = c]
              /\ target' = serial + 1 /\ pc' = "send"
              /\ UNCHANGED <<chunks, closed, done, control, crashed, reopened>>
            BY <1>4, <2>2 DEF Data, StartWorker
        <3>2. QED
            BY <2>1, <3>1
    <2>3. CASE workers[c] # NoWorker
        BY <1>4, <2>1, <2>3 DEF Data
    <2>4. QED
        BY <2>2, <2>3
<1>5. CASE SendChunk
    <2>1. target' \in Serial \cup {NoWorker} /\ pc' = "loop" /\ crashed' \in BOOLEAN
        <3>1. target \in Serial
            BY <1>5 DEF SendChunk
        <3>2. QED
            BY <1>5, <3>1 DEF SendChunk
    <2>2. chunks' \in [Serial -> Seq(Serial)]
        <3>1. target \in Serial /\ serial \in Serial
            BY <1>5 DEF SendChunk
        <3>2. QED
            BY <1>5, <3>1 DEF SendChunk
    <2>3. QED
        BY <1>5, <2>1, <2>2 DEF SendChunk
<1>6. CASE CleanupStart
    BY <1>6 DEF CleanupStart
<1>7. ASSUME NEW c \in Conns, CleanupClose(c) PROVE TypeOK'
    BY <1>7 DEF CleanupClose, CloseWorkers
<1>8. CASE CleanupWait
    BY <1>8 DEF CleanupWait
<1>9. CASE CleanupEnd
    BY <1>9 DEF CleanupEnd
<1>10. CASE SignalCancel
    BY <1>10 DEF SignalCancel
<1>11. CASE StopStart
    BY <1>11 DEF StopStart
<1>12. CASE StopClose
    BY <1>12 DEF StopClose, CloseWorkers
<1>13. CASE StopReturn
    BY <1>13 DEF StopReturn
<1>14. ASSUME NEW w \in Serial, WorkerTake(w) PROVE TypeOK'
    <2>1. Head(chunks[w]) \in Serial /\ Tail(chunks[w]) \in Seq(Serial)
        BY <1>14, HeadTailProperties DEF WorkerTake
    <2>2. chunks' \in [Serial -> Seq(Serial)] /\ done' \in [Serial -> Seq(Serial)]
        BY <1>14, <2>1 DEF WorkerTake
    <2>3. QED
        BY <1>14, <2>2 DEF WorkerTake
<1>15. ASSUME NEW w \in Serial, WorkerDrain(w) PROVE TypeOK'
    BY <1>15 DEF WorkerDrain
<1>16. ASSUME NEW w \in Serial, WorkerExit(w) PROVE TypeOK'
    BY <1>16 DEF WorkerExit
<1>17. CASE UNCHANGED vars
    BY <1>17 DEF vars
<1>18. QED
    BY <1>1, <1>2, <1>3, <1>4, <1>5, <1>6, <1>7, <1>8, <1>9, <1>10, <1>11,
       <1>12, <1>13, <1>14, <1>15, <1>16, <1>17
    DEF Next, ProcessLoop, Main, WorkerStep

(* Type correctness: in particular the worker processLoop is about to send *)
(* to, or waits for, exists.                                               *)
THEOREM TypeCorrect == Spec => []TypeOK
    BY TypeInit, TypeStep, PTL DEF Spec
-----------------------------------------------------------------------------
(* The map of workers.                                                     *)

\* Workers not yet created are untouched.
Fresh ==
    /\ \A w \in Serial : w > serial => wstate[w] = "none" /\ ~closed[w]
    /\ \A c \in Conns : workers[c] <= serial
    /\ target <= serial

\* Each entry is its connection's worker; before Stop closes them all, only
\* the worker processLoop waits for is closed.
Sound ==
    \A c \in Conns : workers[c] # NoWorker =>
        /\ connOf[workers[c]] = c
        /\ wstate[workers[c]] # "none"
        /\ closed[workers[c]] =>
              \/ stopper \in {"wait", "done"}
              \/ pc = "wait" /\ target = workers[c]

\* The worker processLoop sends to or waits for is in the map.
Aim == pc \in {"send", "wait"} => workers[connOf[target]] = target

\* Stop returns after processLoop, and only Stop brings a panic.
Ends ==
    /\ stopper = "done" => pc = "done"
    /\ pc = "done" => Active = {}
    /\ crashed => stopper = "wait"

\* MapSound made inductive.
MapInv == Fresh /\ Sound /\ Aim /\ Ends

LEMMA MapInit == Init => MapInv
BY ProcessorAssumption DEF Init, MapInv, Fresh, Sound, Aim, Ends, Serial,
   NoWorker, Active

LEMMA MapStep == TypeOK /\ MapInv /\ [Next]_vars => MapInv'
<1> SUFFICES ASSUME TypeOK, MapInv, [Next]_vars PROVE MapInv'
    OBVIOUS
<1> USE ProcessorAssumption
    DEF TypeOK, MapInv, Fresh, Sound, Aim, Ends, Serial, NoWorker, Active,
        dispatch, pool, control
<1>1. ASSUME NEW c \in Conns, ConnOpen(c) PROVE MapInv'
    <2>1. /\ serial' = serial + 1 /\ serial + 1 \in Serial /\ pc = "loop" /\ ~crashed
          /\ workers' = [workers EXCEPT ![c] = serial + 1]
          /\ wstate' = [wstate EXCEPT ![serial + 1] = "run"]
          /\ connOf' = [connOf EXCEPT ![serial + 1] = c]
          /\ UNCHANGED <<closed, pc, target, stopper, crashed>>
        BY <1>1 DEF ConnOpen, Takes, StartWorker
    <2>2. Fresh'
        BY <2>1
    <2>3. Sound'
        <3> SUFFICES ASSUME NEW d \in Conns, workers'[d] # NoWorker
                     PROVE  /\ connOf'[workers'[d]] = d
                            /\ wstate'[workers'[d]] # "none"
                            /\ closed'[workers'[d]] =>
                                  \/ stopper' \in {"wait", "done"}
                                  \/ pc' = "wait" /\ target' = workers'[d]
            OBVIOUS
        <3>1. CASE d = c
            BY <2>1, <3>1
        <3>2. CASE d # c
            BY <2>1, <3>2
        <3>3. QED
            BY <3>1, <3>2
    <2>4. Aim' /\ Ends'
        BY <2>1
    <2>5. QED
        BY <2>2, <2>3, <2>4
<1>2. ASSUME NEW c \in Conns, ConnClose(c) PROVE MapInv'
    <2>1. /\ serial' = serial + 1 /\ serial < MaxFrames /\ pc = "loop" /\ ~crashed
          /\ workers' = [workers EXCEPT ![c] = NoWorker]
          /\ UNCHANGED <<wstate, connOf, pc, target, stopper>>
        BY <1>2 DEF ConnClose, Takes, CloseWorkers
    <2>2. /\ closed' = [w \in Serial |-> closed[w] \/ w \in {workers[c]} \ {NoWorker}]
          /\ crashed' = (\E w \in {workers[c]} \ {NoWorker} : closed[w])
        BY <1>2 DEF ConnClose, CloseWorkers
    <2>3. Fresh'
        <3>1. \A w \in Serial : w > serial' => wstate'[w] = "none" /\ ~closed'[w]
            <4> SUFFICES ASSUME NEW w \in Serial, w > serial + 1
                         PROVE  wstate[w] = "none" /\ ~closed'[w]
                BY <2>1
            <4>1. wstate[w] = "none" /\ ~closed[w]
                OBVIOUS
            <4>2. w # workers[c]
                OBVIOUS
            <4>3. QED
                BY <2>2, <4>1, <4>2
        <3>2. QED
            BY <2>1, <3>1
    <2>4. Sound'
        <3> SUFFICES ASSUME NEW d \in Conns, workers'[d] # NoWorker
                     PROVE  /\ connOf'[workers'[d]] = d
                            /\ wstate'[workers'[d]] # "none"
                            /\ closed'[workers'[d]] =>
                                  \/ stopper' \in {"wait", "done"}
                                  \/ pc' = "wait" /\ target' = workers'[d]
            OBVIOUS
        <3>1. d # c /\ workers'[d] = workers[d] /\ workers[d] # NoWorker
            BY <2>1
        <3>2. connOf[workers[d]] = d /\ wstate[workers[d]] # "none"
            BY <3>1
        <3>3. workers[d] # workers[c]
            BY <3>1, <3>2
        <3>4. closed'[workers[d]] => closed[workers[d]]
            BY <2>2, <3>1, <3>3
        <3>5. QED
            BY <2>1, <3>1, <3>2, <3>4
    <2>5. Aim'
        BY <2>1
    <2>6. crashed' => stopper = "wait"
        BY <2>1, <2>2
    <2>7. QED
        BY <2>1, <2>3, <2>4, <2>5, <2>6
<1>3. CASE IPCDisconnect
    BY <1>3 DEF IPCDisconnect, Takes, CloseWorkers, InMap
<1>4. ASSUME NEW c \in Conns, Data(c) PROVE MapInv'
    <2>1. /\ serial' = serial + 1 /\ serial + 1 \in Serial /\ pc = "loop" /\ ~crashed
          /\ pc' = "send" /\ UNCHANGED <<stopper, crashed, closed>>
        BY <1>4 DEF Data, Takes, StartWorker
    <2>2. CASE workers[c] = NoWorker
        <3>1. /\ workers' = [workers EXCEPT ![c] = serial + 1]
              /\ wstate' = [wstate EXCEPT ![serial + 1] = "run"]
              /\ connOf' = [connOf EXCEPT ![serial + 1] = c]
              /\ target' = serial + 1
            BY <1>4, <2>2 DEF Data, StartWorker
        <3>2. Fresh'
            <4>1. \A w \in Serial : w > serial + 1 => wstate'[w] = "none"
                BY <3>1
            <4>2. \A d \in Conns : workers'[d] <= serial + 1
                BY <3>1
            <4>3. QED
                BY <2>1, <3>1, <4>1, <4>2
        <3>3. Sound'
            <4> SUFFICES ASSUME NEW d \in Conns, workers'[d] # NoWorker
                         PROVE  /\ connOf'[workers'[d]] = d
                                /\ wstate'[workers'[d]] # "none"
                                /\ closed'[workers'[d]] =>
                                      \/ stopper' \in {"wait", "done"}
                                      \/ pc' = "wait" /\ target' = workers'[d]
                OBVIOUS
            <4>1. CASE d = c
                BY <2>1, <3>1, <4>1
            <4>2. CASE d # c
                BY <2>1, <3>1, <4>2
            <4>3. QED
                BY <4>1, <4>2
        <3>4. Aim' /\ Ends'
            BY <2>1, <3>1
        <3>5. QED
            BY <3>2, <3>3, <3>4
    <2>3. CASE workers[c] # NoWorker
        <3>1. /\ UNCHANGED <<workers, wstate, connOf>>
              /\ target' = workers[c]
            BY <1>4, <2>3 DEF Data
        <3>2. Fresh'
            <4>1. workers[c] <= serial /\ workers[c] \in Nat /\ serial \in Nat
                OBVIOUS
            <4>2. \A d \in Conns : workers'[d] <= serial'
                BY <2>1, <3>1
            <4>3. \A w \in Serial : w > serial' => wstate'[w] = "none" /\ ~closed'[w]
                BY <2>1, <3>1
            <4>4. target' <= serial'
                BY <2>1, <3>1, <4>1
            <4>5. QED
                BY <4>2, <4>3, <4>4
        <3>3. Sound' /\ Ends'
            BY <2>1, <3>1
        <3>4. Aim'
            <4>1. workers[connOf[workers[c]]] = workers[c]
                BY <2>3
            <4>2. QED
                BY <3>1, <4>1
        <3>5. QED
            BY <3>2, <3>3, <3>4
    <2>4. QED
        BY <2>2, <2>3
<1>5. CASE SendChunk
    <2>1. /\ pc = "send" /\ pc' = "loop" /\ target' = NoWorker /\ ~crashed
          /\ UNCHANGED <<workers, serial, stopper, wstate, connOf, closed>>
        BY <1>5 DEF SendChunk
    <2>2. crashed' = closed[target]
        BY <1>5 DEF SendChunk
    <2>3. target \in Serial /\ workers[connOf[target]] = target /\ stopper # "done"
        BY <2>1
    <2>4. closed[target] => stopper = "wait"
        BY <2>1, <2>3
    <2>5. crashed' => stopper' = "wait"
        BY <2>1, <2>2, <2>4
    <2>6. QED
        BY <2>1, <2>5
<1>6. CASE CleanupStart
    BY <1>6 DEF CleanupStart
<1>7. ASSUME NEW c \in Conns, CleanupClose(c) PROVE MapInv'
    BY <1>7 DEF CleanupClose, CloseWorkers
<1>8. CASE CleanupWait
    BY <1>8 DEF CleanupWait
<1>9. CASE CleanupEnd
    BY <1>9 DEF CleanupEnd
<1>10. CASE SignalCancel
    BY <1>10 DEF SignalCancel
<1>11. CASE StopStart
    BY <1>11 DEF StopStart
<1>12. CASE StopClose
    <2>1. /\ ~crashed /\ stopper = "lock" /\ pc \notin {"cleanup", "wait"}
          /\ stopper' = "wait"
          /\ UNCHANGED <<workers, serial, pc, target, wstate, connOf>>
        BY <1>12 DEF StopClose, CloseWorkers, MutexHeld
    <2>2. closed' = [w \in Serial |-> closed[w] \/ w \in InMap]
        BY <1>12 DEF StopClose, CloseWorkers
    <2>3. Fresh'
        BY <2>1, <2>2 DEF InMap
    <2>4. Sound' /\ Aim' /\ Ends'
        BY <2>1
    <2>5. QED
        BY <2>3, <2>4
<1>13. CASE StopReturn
    BY <1>13 DEF StopReturn
<1>14. ASSUME NEW w \in Serial, WorkerTake(w) PROVE MapInv'
    BY <1>14 DEF WorkerTake
<1>15. ASSUME NEW w \in Serial, WorkerDrain(w) PROVE MapInv'
    BY <1>15 DEF WorkerDrain
<1>16. ASSUME NEW w \in Serial, WorkerExit(w) PROVE MapInv'
    BY <1>16 DEF WorkerExit
<1>17. CASE UNCHANGED vars
    BY <1>17 DEF vars
<1>18. QED
    BY <1>1, <1>2, <1>3, <1>4, <1>5, <1>6, <1>7, <1>8, <1>9, <1>10, <1>11,
       <1>12, <1>13, <1>14, <1>15, <1>16, <1>17
    DEF Next, ProcessLoop, Main, WorkerStep

LEMMA MapHolds == Spec => [](TypeOK /\ MapInv)
BY TypeCorrect, MapInit, MapStep, PTL DEF Spec

(* Whatever frames come and whenever Stop and the signal come, the map     *)
(* holds each connection's own worker, open until Stop.                    *)
THEOREM MapStaysSound == Spec => []MapSound
<1>1. TypeOK /\ MapInv => MapSound
    BY DEF TypeOK, MapInv, Sound, MapSound
<1>2. QED
    BY <1>1, MapHolds, PTL

(* handleFrame never closes a closed channel and never sends on one: only  *)
(* Stop's closing of the channels leads to a panic.                        *)
THEOREM FramesNeverPanic == Spec => []CrashOnlyInStop
<1>1. MapInv => CrashOnlyInStop
    BY DEF MapInv, Ends, CrashOnlyInStop
<1>2. QED
    BY <1>1, MapHolds, PTL
-----------------------------------------------------------------------------
(* The dashboard's view.                                                   *)

LEMMA DashboardStep == TypeOK /\ DashboardMatches /\ [Next]_vars => DashboardMatches'
<1> SUFFICES ASSUME TypeOK, DashboardMatches, [Next]_vars PROVE DashboardMatches'
    OBVIOUS
<1> USE ProcessorAssumption
    DEF TypeOK, DashboardMatches, Active, Serial, NoWorker, dispatch, pool, control
<1>1. ASSUME NEW c \in Conns, ConnOpen(c) PROVE DashboardMatches'
    <2>1. /\ workers' = [workers EXCEPT ![c] = serial + 1] /\ serial + 1 # 0
          /\ connections' = connections \cup {c} /\ pc' = pc /\ pc = "loop"
        BY <1>1 DEF ConnOpen, Takes, StartWorker
    <2>2. QED
        BY <2>1
<1>2. ASSUME NEW c \in Conns, ConnClose(c) PROVE DashboardMatches'
    BY <1>2 DEF ConnClose, Takes
<1>3. CASE IPCDisconnect
    BY <1>3 DEF IPCDisconnect, Takes
<1>4. ASSUME NEW c \in Conns, Data(c) PROVE DashboardMatches'
    <2>1. pc = "loop" /\ serial + 1 # 0
        BY <1>4 DEF Data, Takes
    <2>2. CASE workers[c] = NoWorker
        <3>1. /\ workers' = [workers EXCEPT ![c] = serial + 1]
              /\ connections' = connections \cup {c}
            BY <1>4, <2>2 DEF Data, StartWorker
        <3>2. QED
            BY <2>1, <3>1
    <2>3. CASE workers[c] # NoWorker
        BY <1>4, <2>1, <2>3 DEF Data
    <2>4. QED
        BY <2>2, <2>3
<1>5. CASE SendChunk
    BY <1>5 DEF SendChunk
<1>6. CASE CleanupStart
    BY <1>6 DEF CleanupStart
<1>7. ASSUME NEW c \in Conns, CleanupClose(c) PROVE DashboardMatches'
    BY <1>7 DEF CleanupClose
<1>8. CASE CleanupWait
    BY <1>8 DEF CleanupWait
<1>9. CASE CleanupEnd
    BY <1>9 DEF CleanupEnd
<1>10. CASE UNCHANGED <<workers, connections, pc>>
    BY <1>10
<1>11. CASE Main
    BY <1>11, <1>10 DEF Main, SignalCancel, StopStart, StopClose, StopReturn
<1>12. ASSUME NEW w \in Serial, WorkerStep(w) PROVE DashboardMatches'
    BY <1>12, <1>10 DEF WorkerStep, WorkerTake, WorkerDrain, WorkerExit
<1>13. QED
    BY <1>1, <1>2, <1>3, <1>4, <1>5, <1>6, <1>7, <1>8, <1>9, <1>10, <1>11, <1>12
    DEF Next, ProcessLoop, vars

(* Until cleanupAllWorkers starts, the connections the dashboard lists are *)
(* exactly those that have a worker.                                       *)
THEOREM DashboardAgrees == Spec => []DashboardMatches
<1>1. Init => DashboardMatches
    BY DEF Init, DashboardMatches, Active, NoWorker
<1>2. QED
    BY <1>1, TypeCorrect, DashboardStep, PTL DEF Spec

(* The map of workers is sound and the dashboard lists what is in it.      *)
THEOREM TablesStayEqual == Spec => []TablesAgree
<1>1. MapSound /\ DashboardMatches => TablesAgree
    BY DEF TablesAgree
<1>2. QED
    BY <1>1, MapStaysSound, DashboardAgrees, PTL
-----------------------------------------------------------------------------
(* Workers outside the map.                                                *)

\* NoOrphan, and why cleanupAllWorkers may delete the entry it waited for.
Owned ==
    ~reopened => \A w \in Serial : wstate[w] # "none" /\ ~closed[w] =>
                    \E c \in Conns : w = workers[c]

Kept == Owned /\ (pc = "wait" => closed[target])

LEMMA KeptStep == TypeOK /\ MapInv /\ Kept /\ [Next]_vars => Kept'
<1> SUFFICES ASSUME TypeOK, MapInv, Kept, [Next]_vars PROVE Kept'
    OBVIOUS
<1> USE ProcessorAssumption DEF Kept, Serial, NoWorker, dispatch, pool, control
<1>a. /\ workers \in [Conns -> 0 .. MaxFrames] /\ wstate \in [Serial -> {"none", "run", "drain", "exited"}]
      /\ closed \in [Serial -> BOOLEAN] /\ serial \in Nat
      /\ connOf \in [Serial -> Conns] /\ target \in 0 .. MaxFrames
      /\ pc = "wait" => target # 0
    BY DEF TypeOK
<1>1. ASSUME NEW c \in Conns, workers[c] = NoWorker \/ reopened', pc = "loop", Takes,
             StartWorker(serial + 1, c), pc' # "wait", reopened => reopened'
      PROVE  Kept'
    <2>1. /\ workers' = [workers EXCEPT ![c] = serial + 1] /\ serial + 1 \in Serial
          /\ wstate' = [wstate EXCEPT ![serial + 1] = "run"] /\ closed' = closed
        BY <1>a, <1>1 DEF Takes, StartWorker
    <2> SUFFICES ASSUME ~reopened', NEW w \in Serial, wstate'[w] # "none", ~closed'[w]
                 PROVE  \E d \in Conns : w = workers'[d]
        BY <1>a, <1>1 DEF Owned
    <2>2. CASE w = serial + 1
        BY <1>a, <2>1, <2>2
    <2>3. CASE w # serial + 1
        <3>1. PICK d \in Conns : w = workers[d]
            BY <1>a, <1>1, <2>1, <2>3 DEF Owned
        <3>2. d # c
            BY <1>a, <1>1, <3>1
        <3>3. workers'[d] = w
            BY <1>a, <2>1, <3>1, <3>2
        <3>4. QED
            BY <1>a, <3>3
    <2>4. QED
        BY <1>a, <2>2, <2>3
<1>2. ASSUME NEW c \in Conns, ConnOpen(c) PROVE Kept'
    <2>1. /\ Takes /\ pc = "loop" /\ StartWorker(serial + 1, c) /\ pc' # "wait"
          /\ reopened' = (reopened \/ workers[c] # NoWorker)
        BY <1>a, <1>2 DEF ConnOpen, Takes
    <2>2. QED
        BY <1>a, <1>1, <2>1
<1>3. ASSUME NEW c \in Conns, Data(c) PROVE Kept'
    <2>1. Takes /\ pc = "loop" /\ pc' = "send" /\ reopened' = reopened
        BY <1>a, <1>3 DEF Data, Takes
    <2>2. CASE workers[c] = NoWorker
        BY <1>a, <1>1, <1>3, <2>1, <2>2 DEF Data
    <2>3. CASE workers[c] # NoWorker
        BY <1>a, <1>3, <2>1, <2>3 DEF Data, Owned
    <2>4. QED
        BY <1>a, <2>2, <2>3
<1>4. ASSUME NEW c \in Conns, ConnClose(c) PROVE Kept'
    <2>1. /\ closed' = [w \in Serial |-> closed[w] \/ w \in {workers[c]} \ {NoWorker}]
          /\ workers' = [workers EXCEPT ![c] = NoWorker]
          /\ UNCHANGED <<wstate, reopened, pc>> /\ pc = "loop"
        BY <1>a, <1>4 DEF ConnClose, CloseWorkers, Takes
    <2>2. ASSUME ~reopened, NEW w \in Serial, wstate[w] # "none", ~closed'[w]
          PROVE  \E d \in Conns : w = workers'[d]
        <3>1. ~(closed[w] \/ w \in {workers[c]} \ {NoWorker})
            BY <2>1, <2>2
        <3>2. PICK d \in Conns : w = workers[d]
            BY <1>a, <2>2, <3>1 DEF Owned
        <3>3. QED
            BY <1>a, <2>1, <3>1, <3>2
    <2>3. QED
        BY <1>a, <2>1, <2>2 DEF Owned
<1>5. CASE IPCDisconnect
    <2>1. /\ closed' = [w \in Serial |-> closed[w] \/ w \in InMap]
          /\ UNCHANGED <<wstate, reopened, pc>> /\ pc = "loop"
        BY <1>5 DEF IPCDisconnect, CloseWorkers, Takes
    <2>2. ASSUME ~reopened, NEW w \in Serial, wstate[w] # "none" PROVE closed'[w]
        <3>1. CASE closed[w]
            BY <2>1, <3>1
        <3>2. CASE ~closed[w]
            <4>1. PICK c \in Conns : w = workers[c]
                BY <2>2, <3>2 DEF Owned
            <4>2. w \in InMap
                BY <1>a, <4>1 DEF InMap
            <4>3. QED
                BY <2>1, <4>2
        <3>3. QED
            BY <3>1, <3>2
    <2>3. QED
        BY <2>1, <2>2 DEF Owned
<1>6. ASSUME NEW c \in Conns, CleanupClose(c) PROVE Kept'
    <2>1. /\ closed' = [w \in Serial |-> closed[w] \/ w \in {workers[c]}]
          /\ target' = workers[c] /\ UNCHANGED <<workers, wstate, reopened>>
          /\ workers[c] \in Serial
        BY <1>a, <1>6 DEF CleanupClose, CloseWorkers
    <2>2. closed'[target'] /\ \A w \in Serial : closed[w] => closed'[w]
        BY <1>a, <2>1
    <2>3. QED
        BY <1>a, <2>1, <2>2 DEF Owned
<1>7. CASE CleanupWait
    <2>1. /\ workers' = [workers EXCEPT ![connOf[target]] = NoWorker]
          /\ UNCHANGED <<wstate, reopened, closed>> /\ pc' # "wait" /\ pc = "wait"
        BY <1>a, <1>7 DEF CleanupWait
    <2>2. closed[target] /\ target \in Serial /\ workers[connOf[target]] = target
        BY <1>a, <2>1 DEF MapInv, Aim
    <2>3. ASSUME ~reopened, NEW w \in Serial, wstate[w] # "none", ~closed[w]
          PROVE  \E d \in Conns : w = workers'[d]
        <3>1. PICK d \in Conns : w = workers[d]
            BY <1>a, <2>3 DEF Owned
        <3>2. d # connOf[target]
            BY <1>a, <2>2, <2>3, <3>1
        <3>3. QED
            BY <1>a, <2>1, <3>1, <3>2
    <2>4. QED
        BY <1>a, <2>1, <2>3 DEF Owned
<1>8. CASE SendChunk \/ CleanupStart \/ CleanupEnd
    BY <1>a, <1>8 DEF SendChunk, CleanupStart, CleanupEnd, Owned
<1>9. CASE StopClose
    <2>1. /\ closed' = [w \in Serial |-> closed[w] \/ w \in InMap]
          /\ UNCHANGED <<workers, wstate, reopened, pc, target>>
        BY <1>a, <1>9 DEF StopClose, CloseWorkers
    <2>2. \A w \in Serial : closed[w] => closed'[w]
        BY <1>a, <2>1
    <2>3. QED
        BY <1>a, <2>1, <2>2 DEF Owned
<1>10. CASE SignalCancel \/ StopStart \/ StopReturn
    BY <1>a, <1>10 DEF SignalCancel, StopStart, StopReturn, Owned
<1>11. ASSUME NEW w \in Serial, WorkerStep(w) PROVE Kept'
    <2>1. /\ UNCHANGED <<workers, pc, target, closed, reopened>>
          /\ \A v \in Serial : wstate'[v] # "none" => wstate[v] # "none"
        BY <1>a, <1>11 DEF WorkerStep, WorkerTake, WorkerDrain, WorkerExit
    <2>2. QED
        BY <1>a, <2>1 DEF Owned
<1>12. CASE UNCHANGED vars
    BY <1>a, <1>12 DEF vars, Owned
<1>13. QED
    BY <1>a, <1>2, <1>3, <1>4, <1>5, <1>6, <1>7, <1>8, <1>9, <1>10, <1>11, <1>12
    DEF Next, ProcessLoop, Main

(* While no OPEN finds its connection with a worker already, every worker  *)
(* whose channel is open is in the map, where the close of its connection  *)
(* finds it.                                                               *)
THEOREM NoWorkerForgotten == Spec => []NoOrphan
<1>1. Init => Kept
    BY DEF Init, Kept, Owned
<1>2. Kept => NoOrphan
    BY DEF Kept, Owned, NoOrphan, InMap, Serial, NoWorker
<1>3. QED
    BY <1>1, <1>2, MapHolds, KeptStep, PTL DEF Spec
-----------------------------------------------------------------------------
(* The chunks of a worker, processed and waiting.                          *)

stream(w) == done[w] \o chunks[w]

Rising == \A w \in Serial : \A i, j \in 1 .. Len(stream(w)) :
              i < j => stream(w)[i] < stream(w)[j]

\* The chunk about to be sent is newer than every other.
Older == \A w \in Serial : \A i \in 1 .. Len(stream(w)) :
             stream(w)[i] <= serial /\ (pc = "send" => stream(w)[i] < serial)

Alone == \A v, w \in Serial : v # w =>
             \A i \in 1 .. Len(stream(v)), j \in 1 .. Len(stream(w)) :
                 stream(v)[i] # stream(w)[j]

Streams == Rising /\ Older /\ Alone

LEMMA StreamType ==
    /\ TypeOK => \A w \in Serial : stream(w) \in Seq(Serial)
    /\ TypeOK' => \A w \in Serial : (stream(w) \in Seq(Serial))'
BY ConcatProperties DEF TypeOK, stream

\* The first of c moved to the end of d.
LEMMA MoveHead ==
    ASSUME NEW S, NEW d \in Seq(S), NEW c \in Seq(S), c # <<>>
    PROVE  Append(d, Head(c)) \o Tail(c) = d \o c
<1>1. Head(c) \in S /\ Tail(c) \in Seq(S) /\ <<Head(c)>> \in Seq(S)
    BY HeadTailProperties
<1>2. Append(d, Head(c)) = d \o <<Head(c)>>
    BY <1>1, AppendIsConcat
<1>3. c = <<Head(c)>> \o Tail(c)
    BY <1>1, HeadTailProperties, SeqEqual, ConcatProperties, LenProperties
<1>4. (d \o <<Head(c)>>) \o Tail(c) = d \o (<<Head(c)>> \o Tail(c))
    BY <1>1, ConcatAssociative
<1>5. QED
    BY <1>2, <1>3, <1>4

LEMMA AppendTail ==
    ASSUME NEW S, NEW d \in Seq(S), NEW c \in Seq(S), NEW x \in S
    PROVE  d \o Append(c, x) = Append(d \o c, x)
<1>1. <<x>> \in Seq(S) /\ d \o c \in Seq(S)
    BY ConcatProperties
<1>2. Append(c, x) = c \o <<x>> /\ Append(d \o c, x) = (d \o c) \o <<x>>
    BY <1>1, AppendIsConcat
<1>3. d \o (c \o <<x>>) = (d \o c) \o <<x>>
    BY <1>1, ConcatAssociative
<1>4. QED
    BY <1>2, <1>3

\* A step that leaves every stream as it is.
LEMMA SameStreams ==
    ASSUME TypeOK, TypeOK', Streams, \A w \in Serial : stream(w)' = stream(w),
           serial' >= serial, pc' = "send" => serial' > serial \/ pc = "send"
    PROVE  Streams'
<1>1. serial \in Nat /\ serial' \in Nat
    BY ProcessorAssumption DEF TypeOK
<1>2. \A w \in Serial : stream(w) \in Seq(Serial)
    BY StreamType
<1>3. Rising' /\ Alone'
    BY DEF Streams, Rising, Alone
<1>4. Older'
    <2> SUFFICES ASSUME NEW w \in Serial, NEW i \in 1 .. Len(stream(w))
                 PROVE  stream(w)[i] <= serial' /\ (pc' = "send" => stream(w)[i] < serial')
        BY DEF Older
    <2>1. stream(w)[i] \in Nat
        <3>1. stream(w)[i] \in Serial
            BY <1>2, ElementOfSeq
        <3>2. QED
            BY <3>1 DEF Serial
    <2>2. stream(w)[i] <= serial /\ (pc = "send" => stream(w)[i] < serial)
        BY DEF Streams, Older
    <2>3. QED
        BY <1>1, <2>1, <2>2
<1>5. QED
    BY <1>3, <1>4 DEF Streams

\* A chunk goes to the end of the target's stream.
LEMMA SentChunk ==
    ASSUME TypeOK, TypeOK', Streams, SendChunk, NEW t, t = target,
           chunks' = [chunks EXCEPT ![t] = Append(@, serial)]
    PROVE  Streams'
<1>1. /\ t \in Serial /\ serial \in Serial /\ serial \in Nat /\ serial' = serial
      /\ pc = "send" /\ pc' = "loop" /\ UNCHANGED done
    BY ProcessorAssumption DEF TypeOK, SendChunk, Serial, NoWorker
<1>2. \A w \in Serial : stream(w) \in Seq(Serial)
    BY StreamType
<1>3. stream(t)' = Append(stream(t), serial)
    <2>1. /\ done[t] \in Seq(Serial) /\ chunks[t] \in Seq(Serial)
          /\ chunks'[t] = Append(chunks[t], serial)
        BY <1>1 DEF TypeOK
    <2>2. done[t] \o Append(chunks[t], serial) = Append(done[t] \o chunks[t], serial)
        <3>1. /\ done[t] \in Seq(Serial) /\ chunks[t] \in Seq(Serial)
              /\ serial \in Serial
            BY <1>1, <2>1
        <3>2. ASSUME NEW d \in Seq(Serial), NEW c \in Seq(Serial), NEW x \in Serial
              PROVE  d \o Append(c, x) = Append(d \o c, x)
            BY AppendTail
        <3>3. QED
            BY <3>1, <3>2
    <2>3. QED
        BY <1>1, <2>1, <2>2 DEF stream
<1>4. \A w \in Serial : w # t => stream(w)' = stream(w)
    BY <1>1 DEF TypeOK, stream
<1>5. /\ Len(stream(t)') = Len(stream(t)) + 1 /\ Len(stream(t)) \in Nat
      /\ \A i \in 1 .. Len(stream(t)) : stream(t)'[i] = stream(t)[i]
      /\ stream(t)'[Len(stream(t)) + 1] = serial
    BY <1>1, <1>2, <1>3, AppendProperties, LenProperties
<1>6. \A w \in Serial : \A i \in 1 .. Len(stream(w)) : stream(w)[i] \in Nat /\ stream(w)[i] < serial
    <2> TAKE w \in Serial
    <2> TAKE i \in 1 .. Len(stream(w))
    <2>1. stream(w)[i] \in Serial
        BY <1>2, ElementOfSeq
    <2>2. stream(w)[i] < serial
        BY <1>1 DEF Streams, Older
    <2>3. QED
        BY <2>1, <2>2 DEF Serial
<1>7. \A w \in Serial : \A i \in 1 .. Len(stream(w)') :
          \/ i \in 1 .. Len(stream(w)) /\ stream(w)'[i] = stream(w)[i]
          \/ w = t /\ i = Len(stream(w)) + 1 /\ stream(w)'[i] = serial
    <2> TAKE w \in Serial
    <2> TAKE i \in 1 .. Len(stream(w)')
    <2>1. CASE w = t
        BY <1>5, <2>1
    <2>2. CASE w # t
        BY <1>4, <2>2
    <2>3. QED
        BY <2>1, <2>2
<1>8. Rising'
    <2> SUFFICES ASSUME NEW w \in Serial, NEW i \in 1 .. Len(stream(w)'),
                        NEW j \in 1 .. Len(stream(w)'), i < j
                 PROVE  stream(w)'[i] < stream(w)'[j]
        BY DEF Rising
    <2>1. Len(stream(w)) \in Nat
        BY <1>2, LenProperties
    <2>2. i \in 1 .. Len(stream(w)) /\ stream(w)'[i] = stream(w)[i]
        <3>1. \/ i \in 1 .. Len(stream(w)) /\ stream(w)'[i] = stream(w)[i]
              \/ w = t /\ i = Len(stream(w)) + 1
            BY <1>7
        <3>2. j \in 1 .. Len(stream(w)) \/ j = Len(stream(w)) + 1
            BY <1>7
        <3>3. QED
            BY <2>1, <3>1, <3>2
    <2>3. CASE j \in 1 .. Len(stream(w)) /\ stream(w)'[j] = stream(w)[j]
        BY <2>2, <2>3 DEF Streams, Rising
    <2>4. CASE stream(w)'[j] = serial
        BY <1>6, <2>2, <2>4
    <2>5. QED
        BY <1>7, <2>3, <2>4
<1>9. Older'
    <2> SUFFICES ASSUME NEW w \in Serial, NEW i \in 1 .. Len(stream(w)')
                 PROVE  stream(w)'[i] <= serial
        BY <1>1 DEF Older
    <2>1. QED
        BY <1>1, <1>6, <1>7
<1>10. Alone'
    <2> SUFFICES ASSUME NEW v \in Serial, NEW w \in Serial, v # w,
                        NEW i \in 1 .. Len(stream(v)'), NEW j \in 1 .. Len(stream(w)')
                 PROVE  stream(v)'[i] # stream(w)'[j]
        BY DEF Alone
    <2>1. CASE /\ i \in 1 .. Len(stream(v)) /\ stream(v)'[i] = stream(v)[i]
               /\ j \in 1 .. Len(stream(w)) /\ stream(w)'[j] = stream(w)[j]
        BY <2>1 DEF Streams, Alone
    <2>2. CASE v = t /\ stream(v)'[i] = serial
        BY <1>1, <1>6, <1>7, <2>2
    <2>3. CASE w = t /\ stream(w)'[j] = serial
        BY <1>1, <1>6, <1>7, <2>3
    <2>4. QED
        BY <1>7, <2>1, <2>2, <2>3
<1>11. QED
    BY <1>8, <1>9, <1>10 DEF Streams

LEMMA StreamsStep == TypeOK /\ TypeOK' /\ Streams /\ [Next]_vars => Streams'
<1> SUFFICES ASSUME TypeOK, TypeOK', Streams, [Next]_vars PROVE Streams'
    OBVIOUS
<1> USE DEF dispatch, pool, control
<1>a. serial \in Nat /\ serial' \in Nat
    BY ProcessorAssumption DEF TypeOK
<1>1. ASSUME UNCHANGED <<chunks, done>>, serial' = serial \/ serial' = serial + 1,
             pc' = "send" => serial' = serial + 1 \/ pc = "send"
      PROVE  Streams'
    BY <1>a, <1>1, SameStreams DEF stream
<1>2. ASSUME NEW c \in Conns, ConnOpen(c) \/ ConnClose(c) \/ Data(c) PROVE Streams'
    BY <1>1, <1>2 DEF ConnOpen, ConnClose, Data, Takes, StartWorker, CloseWorkers
<1>3. CASE IPCDisconnect
    BY <1>1, <1>3 DEF IPCDisconnect, Takes, CloseWorkers
<1>4. CASE SendChunk
    <2>1. CASE chunks' = chunks
        BY <1>1, <1>4, <2>1 DEF SendChunk
    <2>2. CASE chunks' = [chunks EXCEPT ![target] = Append(@, serial)]
        BY <1>4, <2>2, SentChunk
    <2>3. QED
        BY <1>4, <2>1, <2>2 DEF SendChunk
<1>5. ASSUME NEW c \in Conns, CleanupClose(c) PROVE Streams'
    BY <1>1, <1>5 DEF CleanupClose, CloseWorkers
<1>6. CASE CleanupStart \/ CleanupWait \/ CleanupEnd
    BY <1>1, <1>6 DEF CleanupStart, CleanupWait, CleanupEnd
<1>7. CASE Main
    BY <1>1, <1>7 DEF Main, SignalCancel, StopStart, StopClose, StopReturn, CloseWorkers
<1>8. ASSUME NEW w \in Serial, WorkerTake(w) PROVE Streams'
    <2>1. /\ done' = [done EXCEPT ![w] = Append(@, Head(chunks[w]))]
          /\ chunks' = [chunks EXCEPT ![w] = Tail(@)] /\ chunks[w] # <<>>
          /\ UNCHANGED <<serial, pc>>
        BY <1>8 DEF WorkerTake
    <2>2. Append(done[w], Head(chunks[w])) \o Tail(chunks[w]) = done[w] \o chunks[w]
        <3>1. done[w] \in Seq(Serial) /\ chunks[w] \in Seq(Serial)
            BY DEF TypeOK
        <3>2. QED
            BY <2>1, <3>1, MoveHead
    <2>3. \A v \in Serial : stream(v)' = stream(v)
        BY <2>1, <2>2 DEF TypeOK, stream
    <2>4. QED
        BY <1>a, <2>1, <2>3, SameStreams
<1>9. ASSUME NEW w \in Serial, WorkerDrain(w) \/ WorkerExit(w) PROVE Streams'
    BY <1>1, <1>9 DEF WorkerDrain, WorkerExit
<1>10. CASE UNCHANGED vars
    BY <1>1, <1>10 DEF vars
<1>11. QED
    BY <1>2, <1>3, <1>4, <1>5, <1>6, <1>7, <1>8, <1>9, <1>10
    DEF Next, ProcessLoop, WorkerStep

(* A worker gets its chunks in the order of their frames, and no chunk     *)
(* goes to two workers or twice to one, also when workers are replaced,    *)
(* channels are full or a shutdown comes in between.                       *)
THEOREM ChunksKeepOrder == Spec => []ChunksInOrder
<1>1. Init => Streams
    BY EmptySeq, ConcatEmptySeq DEF Init, Streams, Rising, Older, Alone, stream
<1>2. Streams => ChunksInOrder
    BY DEF Streams, Rising, Alone, ChunksInOrder, stream
<1>3. QED
    BY <1>1, <1>2, TypeCorrect, StreamsStep, PTL DEF Spec
=============================================================================
