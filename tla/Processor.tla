----------------------------- MODULE Processor -----------------------------
(***************************************************************************)
(* The Analyzer's dispatcher, internal/analyzer/processor.go.              *)
(*                                                                         *)
(* processLoop takes frames from the IPC channel one at a time and opens,  *)
(* feeds and closes one worker per connection.  Stop runs on main's        *)
(* goroutine, a signal may cancel the context at any time, and every       *)
(* worker drains its channel on a goroutine of its own.  workersMu guards  *)
(* the map of workers, not the send of a chunk to a worker.                *)
(*                                                                         *)
(* A frame is <<type, connection>>; the n-th frame received has serial n.  *)
(* A worker is named by the serial of the frame that created it, a chunk   *)
(* by the serial of its Data frame.  A worker is seen from outside here    *)
(* (Worker.tla is its inside).  reopened and done are history variables.   *)
(***************************************************************************)
EXTENDS Integers, Sequences

CONSTANTS
    Conns,      \* connection ids
    ChunkCap,   \* capacity of a worker's channel (100000 in the code)
    MaxFrames   \* bound on the frames received

ASSUME ProcessorAssumption ==
    /\ Conns # {}
    /\ ChunkCap \in Nat \ {0}
    /\ MaxFrames \in Nat

VARIABLES
    workers,     \* the map: connection -> worker, or NoWorker
    connections, \* the ids that have a ConnectionInfo
    serial,      \* frames received
    pc,          \* processLoop: "loop", "send", "cleanup", "wait", "done"
    target,      \* the worker a chunk is about to be sent to, or waited for
    ctxDone,     \* the context is cancelled
    stopper,     \* main in Stop: "idle", "lock", "wait", "done"
    wstate,      \* worker goroutine: "none", "run", "drain", "exited"
    connOf,      \* the worker's connection
    chunks,      \* the worker's channel
    closed,      \* its channel is closed and its context cancelled
    done,        \* history: the chunks the worker processed
    crashed,     \* a goroutine panicked: the process is gone
    reopened     \* history: ConnOpen came for a connection in the map

dispatch == <<workers, connections, serial, pc, target>>
pool     == <<wstate, connOf, chunks, closed, done>>
control  == <<ctxDone, stopper>>
vars     == <<workers, connections, serial, pc, target, ctxDone, stopper,
              wstate, connOf, chunks, closed, done, crashed, reopened>>

NoWorker == 0
Serial   == 1 .. MaxFrames
Types    == {"open", "close", "data", "disconnect"}

\* cleanupAllWorkers holds workersMu while it waits for each worker.
MutexHeld == pc \in {"cleanup", "wait"}

InMap  == {workers[c] : c \in Conns} \ {NoWorker}
Active == {c \in Conns : workers[c] # NoWorker}

Init ==
    /\ workers = [c \in Conns |-> NoWorker] /\ connections = {}
    /\ serial = 0 /\ pc = "loop" /\ target = NoWorker
    /\ ctxDone = FALSE /\ stopper = "idle"
    /\ wstate = [w \in Serial |-> "none"]
    /\ connOf = [w \in Serial |-> CHOOSE c \in Conns : TRUE]
    /\ chunks = [w \in Serial |-> <<>>]
    /\ closed = [w \in Serial |-> FALSE]
    /\ done = [w \in Serial |-> <<>>]
    /\ crashed = FALSE /\ reopened = FALSE
-----------------------------------------------------------------------------
(* The shared steps of the handlers.                                       *)

\* NewWorker and Start: worker w for connection c enters the map.
StartWorker(w, c) ==
    /\ workers' = [workers EXCEPT ![c] = w]
    /\ connections' = connections \cup {c}
    /\ wstate' = [wstate EXCEPT ![w] = "run"]
    /\ connOf' = [connOf EXCEPT ![w] = c]
    /\ UNCHANGED <<chunks, closed, done>>

\* close(chunkChan) and worker.Close() for each worker of W; closing a closed
\* channel panics.
CloseWorkers(W) ==
    /\ crashed' = \E w \in W : closed[w]
    /\ closed' = [w \in Serial |-> closed[w] \/ w \in W]
    /\ UNCHANGED <<wstate, connOf, chunks, done>>

\* The loop's select takes a frame (also while ctx.Done is ready).
Takes == ~crashed /\ pc = "loop" /\ serial < MaxFrames /\ serial' = serial + 1
-----------------------------------------------------------------------------
(* Plausible slips in the steps below, one per comment.  No specification  *)
(* uses them; each property is checked to fail when one of them stands for *)
(* the step it varies.                                                     *)

\* The closed connection's entry stays in the map.
ConnCloseKeepsEntry(c) ==
    /\ Takes
    /\ CloseWorkers({workers[c]} \ {NoWorker})
    /\ connections' = connections \ {c}
    /\ UNCHANGED <<workers, pc, target, control, reopened>>

\* The entry goes, its channel stays open.
ConnCloseKeepsChannel(c) ==
    /\ Takes
    /\ workers' = [workers EXCEPT ![c] = NoWorker]
    /\ connections' = connections \ {c}
    /\ UNCHANGED <<pool, pc, target, control, crashed, reopened>>

\* The map keeps the workers it closed.
IPCDisconnectKeepsEntries ==
    /\ Takes
    /\ CloseWorkers(InMap)
    /\ connections' = connections \ Active
    /\ UNCHANGED <<workers, pc, target, control, reopened>>

\* A worker created for data has no ConnectionInfo.
DataWithoutInfo(c) ==
    /\ Takes
    /\ IF workers[c] = NoWorker
          THEN /\ workers' = [workers EXCEPT ![c] = serial + 1]
               /\ wstate' = [wstate EXCEPT ![serial + 1] = "run"]
               /\ connOf' = [connOf EXCEPT ![serial + 1] = c]
               /\ target' = serial + 1
               /\ UNCHANGED <<chunks, closed, done>>
          ELSE UNCHANGED <<workers, pool>> /\ target' = workers[c]
    /\ pc' = "send"
    /\ UNCHANGED <<connections, control, crashed, reopened>>

\* A chunk that was sent is sent again until the channel is full.
SendChunkAgain ==
    /\ ~crashed /\ pc = "send"
    /\ crashed' = closed[target]
    /\ IF ~closed[target] /\ Len(chunks[target]) < ChunkCap
          THEN chunks' = [chunks EXCEPT ![target] = Append(@, serial)]
               /\ UNCHANGED <<pc, target>>
          ELSE pc' = "loop" /\ target' = NoWorker /\ UNCHANGED chunks
    /\ UNCHANGED <<workers, connections, serial, control, wstate, connOf, closed,
                   done, reopened>>

\* The chunk is numbered by the frame after it.
SendChunkOffByOne ==
    /\ ~crashed /\ pc = "send"
    /\ crashed' = closed[target]
    /\ chunks' = [chunks EXCEPT ![target] = Append(@, serial + 1)]
    /\ pc' = "loop" /\ target' = NoWorker
    /\ UNCHANGED <<workers, connections, serial, control, wstate, connOf, closed,
                   done, reopened>>

\* Stop forgets to cancel the context.
StopStartNoCancel ==
    /\ ~crashed /\ stopper = "idle"
    /\ stopper' = "lock"
    /\ UNCHANGED <<ctxDone, dispatch, pool, crashed, reopened>>
-----------------------------------------------------------------------------
(* The goroutine of processLoop.                                           *)

\* handleConnOpen replaces whatever worker the map holds for c.
ConnOpen(c) ==
    /\ Takes
    /\ StartWorker(serial + 1, c)
    /\ reopened' = (reopened \/ workers[c] # NoWorker)
    /\ UNCHANGED <<pc, target, control, crashed>>

\* handleConnClose.
ConnClose(c) ==
    /\ Takes
    /\ CloseWorkers({workers[c]} \ {NoWorker})
    /\ workers' = [workers EXCEPT ![c] = NoWorker]
    /\ connections' = connections \ {c}
    /\ UNCHANGED <<pc, target, control, reopened>>

\* handleIPCDisconnect.
IPCDisconnect ==
    /\ Takes
    /\ CloseWorkers(InMap)
    /\ workers' = [c \in Conns |-> NoWorker]
    /\ connections' = connections \ Active
    /\ UNCHANGED <<pc, target, control, reopened>>

\* handleData up to its send: find the connection's worker or create one.
Data(c) ==
    /\ Takes
    /\ IF workers[c] = NoWorker
          THEN StartWorker(serial + 1, c) /\ target' = serial + 1
          ELSE UNCHANGED <<workers, connections, pool>> /\ target' = workers[c]
    /\ pc' = "send"
    /\ UNCHANGED <<control, crashed, reopened>>

\* The non-blocking send, outside workersMu: a full channel drops the chunk,
\* a closed one panics.
SendChunk ==
    /\ ~crashed /\ pc = "send"
    /\ crashed' = closed[target]
    /\ chunks' = IF ~closed[target] /\ Len(chunks[target]) < ChunkCap
                    THEN [chunks EXCEPT ![target] = Append(@, serial)]
                    ELSE chunks
    /\ pc' = "loop" /\ target' = NoWorker
    /\ UNCHANGED <<workers, connections, serial, control, wstate, connOf, closed,
                   done, reopened>>

\* The select takes ctx.Done: cleanupAllWorkers locks workersMu.
CleanupStart ==
    /\ ~crashed /\ pc = "loop" /\ ctxDone
    /\ pc' = "cleanup"
    /\ UNCHANGED <<workers, connections, serial, target, control, pool, crashed,
                   reopened>>

CleanupClose(c) ==
    /\ ~crashed /\ pc = "cleanup" /\ workers[c] # NoWorker
    /\ CloseWorkers({workers[c]})
    /\ target' = workers[c]
    /\ pc' = "wait"
    /\ UNCHANGED <<workers, connections, serial, control, reopened>>

\* worker.Wait returned: the entry is deleted (its ConnectionInfo is not).
CleanupWait ==
    /\ ~crashed /\ pc = "wait" /\ wstate[target] = "exited"
    /\ workers' = [workers EXCEPT ![connOf[target]] = NoWorker]
    /\ pc' = "cleanup" /\ target' = NoWorker
    /\ UNCHANGED <<connections, serial, control, pool, crashed, reopened>>

CleanupEnd ==
    /\ ~crashed /\ pc = "cleanup" /\ Active = {}
    /\ pc' = "done"
    /\ UNCHANGED <<workers, connections, serial, target, control, pool, crashed,
                   reopened>>

ProcessLoop ==
    \/ \E c \in Conns : ConnOpen(c) \/ ConnClose(c) \/ Data(c) \/ CleanupClose(c)
    \/ IPCDisconnect
    \/ SendChunk \/ CleanupStart \/ CleanupWait \/ CleanupEnd
-----------------------------------------------------------------------------
(* cmd/analyzer main: signals, and Stop after the dashboard returned.      *)

\* The signal handler cancels the context while the dashboard goes on.
SignalCancel ==
    /\ ~crashed /\ ~ctxDone
    /\ ctxDone' = TRUE
    /\ UNCHANGED <<dispatch, stopper, pool, crashed, reopened>>

\* The dashboard returned: main's cancel, then Stop, which waits for workersMu.
StopStart ==
    /\ ~crashed /\ stopper = "idle"
    /\ ctxDone' = TRUE
    /\ stopper' = "lock"
    /\ UNCHANGED <<dispatch, pool, crashed, reopened>>

\* Stop closes every worker of the map and leaves it in the map.
StopClose ==
    /\ ~crashed /\ stopper = "lock" /\ ~MutexHeld
    /\ CloseWorkers(InMap)
    /\ stopper' = "wait"
    /\ UNCHANGED <<dispatch, ctxDone, reopened>>

StopReturn ==
    /\ ~crashed /\ stopper = "wait" /\ pc = "done"
    /\ stopper' = "done"
    /\ UNCHANGED <<dispatch, ctxDone, pool, crashed, reopened>>

Main == SignalCancel \/ StopStart \/ StopClose \/ StopReturn
-----------------------------------------------------------------------------
(* A worker's goroutine, seen from outside.                                *)

WorkerTake(w) ==
    /\ ~crashed /\ wstate[w] \in {"run", "drain"} /\ chunks[w] # <<>>
    /\ done' = [done EXCEPT ![w] = Append(@, Head(chunks[w]))]
    /\ chunks' = [chunks EXCEPT ![w] = Tail(@)]
    /\ UNCHANGED <<dispatch, control, wstate, connOf, closed, crashed, reopened>>

\* The worker's context or its closed channel ends its loop.
WorkerDrain(w) ==
    /\ ~crashed /\ wstate[w] = "run" /\ (closed[w] \/ ctxDone)
    /\ wstate' = [wstate EXCEPT ![w] = "drain"]
    /\ UNCHANGED <<dispatch, control, connOf, chunks, closed, done, crashed,
                   reopened>>

\* Its channel is closed and empty, or the drain timeout passed: whatever the
\* channel still holds is left there.
WorkerExit(w) ==
    /\ ~crashed /\ wstate[w] = "drain"
    /\ wstate' = [wstate EXCEPT ![w] = "exited"]
    /\ UNCHANGED <<dispatch, control, connOf, chunks, closed, done, crashed,
                   reopened>>

WorkerStep(w) == WorkerTake(w) \/ WorkerDrain(w) \/ WorkerExit(w)
-----------------------------------------------------------------------------
Next == ProcessLoop \/ Main \/ \E w \in Serial : WorkerStep(w)

Spec == Init /\ [][Next]_vars

(* Goroutines that can run do run, and the processLoop's select, which      *)
(* picks at random among ready cases, does not prefer frames for ever.      *)
Fairness ==
    /\ SF_vars(CleanupStart)
    /\ \A c \in Conns : WF_vars(CleanupClose(c))
    /\ WF_vars(SendChunk) /\ WF_vars(CleanupWait) /\ WF_vars(CleanupEnd)
    /\ WF_vars(StopReturn) /\ WF_vars(StopClose)
    /\ \A w \in Serial : WF_vars(WorkerDrain(w)) /\ WF_vars(WorkerExit(w))

FairSpec == Spec /\ Fairness
-----------------------------------------------------------------------------
(* Properties.                                                             *)

TypeOK ==
    /\ workers \in [Conns -> Serial \cup {NoWorker}]
    /\ connections \subseteq Conns
    /\ serial \in 0 .. MaxFrames
    /\ pc \in {"loop", "send", "cleanup", "wait", "done"}
    /\ target \in Serial \cup {NoWorker}
    /\ pc \in {"send", "wait"} => target # NoWorker
    /\ pc = "send" => serial # 0
    /\ ctxDone \in BOOLEAN
    /\ stopper \in {"idle", "lock", "wait", "done"}
    /\ wstate \in [Serial -> {"none", "run", "drain", "exited"}]
    /\ connOf \in [Serial -> Conns]
    /\ chunks \in [Serial -> Seq(Serial)] /\ done \in [Serial -> Seq(Serial)]
    /\ closed \in [Serial -> BOOLEAN]
    /\ crashed \in BOOLEAN /\ reopened \in BOOLEAN

(* The map is sound until Stop touches its workers: each entry belongs to  *)
(* its own connection, and its channel is open, so handleData can send.    *)
(* Needs every handler that closes a channel to delete its entry.          *)
MapSound ==
    \A c \in Conns : workers[c] # NoWorker =>
        /\ connOf[workers[c]] = c
        /\ wstate[workers[c]] # "none"
        /\ stopper \in {"idle", "lock"} /\ pc \notin {"wait"} => ~closed[workers[c]]

(* GetActiveConnections, the dashboard's view, lists exactly the           *)
(* connections with a worker, until cleanupAllWorkers starts.              *)
DashboardMatches == pc \in {"loop", "send"} => connections = Active

(* The two tables every handler must change together agree: the map of     *)
(* workers and the connections the dashboard lists.                        *)
TablesAgree == MapSound /\ DashboardMatches

(* The processor panics only in a shutdown, between Stop's closing of the  *)
(* channels and cleanupAllWorkers: no sequence of frames makes it close a  *)
(* closed channel or send on one.                                          *)
CrashOnlyInStop == crashed => stopper = "wait"

(* A worker gets the chunks of its connection in the order their frames    *)
(* came, each chunk goes to one worker, and none is processed twice.       *)
ChunksInOrder ==
    \A v, w \in Serial :
        LET s == done[v] \o chunks[v]
            t == done[w] \o chunks[w]
        IN  /\ \A i, j \in 1 .. Len(s) : i < j => s[i] < s[j]
            /\ \A i \in 1 .. Len(s), j \in 1 .. Len(t) : s[i] = t[j] => v = w

(* No worker is forgotten: while its channel is open it is in the map, so  *)
(* that a close of its connection will reach it.  handleConnOpen breaks    *)
(* this when it replaces an entry, be it of an earlier OPEN or one that    *)
(* handleData made.                                                        *)
NoOrphan ==
    ~reopened => \A w \in Serial : wstate[w] # "none" /\ ~closed[w] => w \in InMap

(* "Stop shuts down the processor and all workers" (processor.go): it does *)
(* not bring the process down.                                             *)
StopDoesNotPanic == ~crashed

(* Stop returns, or the process is gone.                                   *)
StopReturns == stopper = "lock" ~> stopper = "done" \/ crashed
=============================================================================
