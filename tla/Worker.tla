------------------------------ MODULE Worker ------------------------------
(***************************************************************************)
(* One connection's worker, internal/analyzer/worker.go: workerLoop takes  *)
(* the connection's chunks, reassembles packets in one buffer per          *)
(* direction and starts a goroutine per packet, at most Permits of which   *)
(* run at a time.  When its channel is closed or its context cancelled it  *)
(* drains the channel, waits for the deserializers and ends; both waits    *)
(* have a timeout.  A panic while parsing is recovered by a fresh          *)
(* workerLoop with empty buffers.                                          *)
(*                                                                         *)
(* A chunk is [dir, kind] and is named by its number.  What its bytes mean *)
(* to tryParsePackets is its kind: "part" of a packet, the "end" of one,   *)
(* or "bad", which makes the parser panic (server packets only: opcode     *)
(* 0x0177 has the fixed size -1, and make([]byte, -1) panics).  A packet   *)
(* is the sequence of its chunks; its goroutine is named by the last one.  *)
(* Time is abstract: a timeout may fire at any moment of its wait.         *)
(***************************************************************************)
EXTENDS Integers, FiniteSets, SequencesExt

CONSTANTS
    MaxChunks,  \* bound on the chunks of the connection
    Permits     \* deserializers that may run at once (100 in the code)

ASSUME WorkerAssumption ==
    /\ MaxChunks \in Nat
    /\ Permits \in Nat \ {0}

VARIABLES
    input,      \* the chunks sent to the worker so far, by number
    taken,      \* how many of them it received: the channel holds the rest
    closed,     \* the channel is closed
    ctxDone,    \* the worker's context is cancelled
    pc,         \* workerLoop: "loop", "drain", "settle", "exited"
    buffer,     \* clientBuffer and serverBuffer: chunks not yet in a packet
    packets,    \* history: the packets found in each direction
    deser,      \* a packet's goroutine: "none", "spawned", "running", "done"
    wg,         \* the worker's WaitGroup
    ending,     \* loops that panicked, whose wg.Done is still to run
    waiter,     \* cleanupAllWorkers: "idle", "waiting", "returned"
    crashed,    \* the process is gone
    panicked,   \* history: a loop panicked
    hasty       \* history: the drain timed out

inbox   == <<input, taken, closed, ctxDone>>
parsing == <<buffer, packets>>
life    == <<wg, ending, waiter, crashed>>
history == <<panicked, hasty>>
vars    == <<input, taken, closed, ctxDone, pc, buffer, packets, deser, wg, ending,
             waiter, crashed, panicked, hasty>>

Chunk     == 1 .. MaxChunks
Direction == {"c2s", "s2c"}
Kind(d)   == IF d = "s2c" THEN {"part", "end", "bad"} ELSE {"part", "end"}

Running == {n \in Chunk : deser[n] = "running"}
Waiting == taken < Len(input)

\* A receive tells that the channel is closed.
Emptied == closed /\ ~Waiting

Init ==
    /\ input = <<>> /\ taken = 0 /\ closed = FALSE /\ ctxDone = FALSE
    /\ pc = "loop"
    /\ buffer = [d \in Direction |-> <<>>] /\ packets = [d \in Direction |-> <<>>]
    /\ deser = [n \in Chunk |-> "none"]
    /\ wg = 1 /\ ending = 0 /\ waiter = "idle" /\ crashed = FALSE
    /\ panicked = FALSE /\ hasty = FALSE

\* wg.Done() panics below zero, and nothing recovers that.
Done ==
    /\ wg' = wg - 1
    /\ crashed' = (wg = 0)
-----------------------------------------------------------------------------
(* Plausible slips in the steps below, one per comment.  No specification  *)
(* uses them; each property is checked to fail when one of them stands for *)
(* the step it varies.                                                     *)

\* Both directions go into one buffer.
ParseOneBuffer(d, n, kind) ==
    IF kind = "end"
       THEN /\ packets' = [packets EXCEPT ![d] = Append(@, Append(buffer["c2s"], n))]
            /\ buffer' = [buffer EXCEPT !["c2s"] = <<>>]
            /\ deser' = [deser EXCEPT ![n] = "spawned"]
       ELSE /\ buffer' = [buffer EXCEPT !["c2s"] = Append(@, n)]
            /\ UNCHANGED <<packets, deser>>

\* The packet takes the chunk after it along.
ParseTooFar(d, n, kind) ==
    IF kind = "end"
       THEN /\ packets' = [packets EXCEPT ![d] = Append(@, Append(buffer[d], n + 1))]
            /\ buffer' = [buffer EXCEPT ![d] = <<>>]
            /\ deser' = [deser EXCEPT ![n] = "spawned"]
       ELSE /\ buffer' = [buffer EXCEPT ![d] = Append(@, n)]
            /\ UNCHANGED <<packets, deser>>

\* The recovered panic does not start a new loop.
RestartNothing ==
    /\ pc' = "exited"
    /\ Done
    /\ UNCHANGED <<ending, waiter>>

\* workerLoop ends without draining.
LoopEndNoDrain ==
    /\ ~crashed /\ pc = "loop" /\ (ctxDone \/ Emptied)
    /\ pc' = "settle"
    /\ UNCHANGED <<inbox, parsing, deser, life, history>>

\* waitForDeserializers has no deadline.
SettleNoTimeout == FALSE
-----------------------------------------------------------------------------
(* The dispatcher, as Processor uses a worker.                             *)

\* handleData: a chunk with any content.
SendChunk(d, kind) ==
    /\ ~crashed /\ ~closed /\ Len(input) < MaxChunks
    /\ input' = Append(input, [dir |-> d, kind |-> kind])
    /\ UNCHANGED <<taken, closed, ctxDone, pc, parsing, deser, life, history>>

\* close(chunkChan) and worker.Close().
CloseWorker ==
    /\ ~crashed /\ ~closed
    /\ closed' = TRUE /\ ctxDone' = TRUE
    /\ UNCHANGED <<input, taken, pc, parsing, deser, life, history>>

\* The parent context: main's cancel or a signal.
CancelParent ==
    /\ ~crashed /\ ~ctxDone
    /\ ctxDone' = TRUE
    /\ UNCHANGED <<input, taken, closed, pc, parsing, deser, life, history>>

\* cleanupAllWorkers: worker.Wait after Close.
WaitStart ==
    /\ ~crashed /\ closed /\ waiter = "idle"
    /\ waiter' = "waiting"
    /\ UNCHANGED <<inbox, pc, parsing, deser, wg, ending, crashed, history>>

WaitReturn ==
    /\ ~crashed /\ waiter = "waiting" /\ wg = 0
    /\ waiter' = "returned"
    /\ UNCHANGED <<inbox, pc, parsing, deser, wg, ending, crashed, history>>

Dispatcher ==
    \/ \E d \in Direction : \E kind \in Kind(d) : SendChunk(d, kind)
    \/ CloseWorker \/ CancelParent \/ WaitStart \/ WaitReturn
-----------------------------------------------------------------------------
(* workerLoop.                                                             *)

\* processChunk: tryParsePackets on the buffer of the chunk's direction, and
\* spawnDeserializer for the packet it completes.
Parse(d, n, kind) ==
    IF kind = "end"
       THEN /\ packets' = [packets EXCEPT ![d] = Append(@, Append(buffer[d], n))]
            /\ buffer' = [buffer EXCEPT ![d] = <<>>]
            /\ deser' = [deser EXCEPT ![n] = "spawned"]
       ELSE /\ buffer' = [buffer EXCEPT ![d] = Append(@, n)]
            /\ UNCHANGED <<packets, deser>>

\* The recovered panic: a new loop, then the old one's wg.Done (FinishPanic).
Restart ==
    /\ pc' = "loop"
    /\ ending' = ending + 1
    /\ UNCHANGED <<wg, waiter, crashed>>

\* The select, of the loop or of the drain, receives a chunk.
TakeChunk ==
    /\ ~crashed /\ pc \in {"loop", "drain"} /\ Waiting
    /\ input[taken + 1].kind # "bad"
    /\ taken' = taken + 1
    /\ Parse(input[taken + 1].dir, taken + 1, input[taken + 1].kind)
    /\ UNCHANGED <<input, closed, ctxDone, pc, life, history>>

\* The same, and the parser panics: the buffers are gone with the loop.
TakePanics ==
    /\ ~crashed /\ pc \in {"loop", "drain"} /\ Waiting
    /\ input[taken + 1].kind = "bad"
    /\ taken' = taken + 1
    /\ buffer' = [d \in Direction |-> <<>>]
    /\ Restart
    /\ panicked' = TRUE
    /\ UNCHANGED <<input, closed, ctxDone, packets, deser, hasty>>

\* The deferred wg.Done of a loop that panicked.
FinishPanic ==
    /\ ~crashed /\ ending > 0
    /\ ending' = ending - 1
    /\ Done
    /\ UNCHANGED <<inbox, pc, parsing, deser, waiter, history>>

\* ctx.Done, or the channel is closed and empty.
LoopEnd ==
    /\ ~crashed /\ pc = "loop" /\ (ctxDone \/ Emptied)
    /\ pc' = "drain"
    /\ UNCHANGED <<inbox, parsing, deser, life, history>>

DrainEnd ==
    /\ ~crashed /\ pc = "drain" /\ Emptied
    /\ pc' = "settle"
    /\ UNCHANGED <<inbox, parsing, deser, life, history>>

\* The 500 ms are over: what the channel holds is lost.
DrainTimeout ==
    /\ ~crashed /\ pc = "drain"
    /\ pc' = "settle"
    /\ hasty' = TRUE
    /\ UNCHANGED <<inbox, parsing, deser, life, panicked>>

\* TryAcquire gets every permit.  A goroutine that has not reached its Acquire
\* holds none and is not waited for.
SettleAll ==
    /\ ~crashed /\ pc = "settle" /\ Running = {}
    /\ pc' = "exited"
    /\ Done
    /\ UNCHANGED <<inbox, parsing, deser, ending, waiter, history>>

\* The second is over.
SettleTimeout ==
    /\ ~crashed /\ pc = "settle" /\ Running # {}
    /\ pc' = "exited"
    /\ Done
    /\ UNCHANGED <<inbox, parsing, deser, ending, waiter, history>>

Loop ==
    \/ TakeChunk \/ TakePanics \/ FinishPanic
    \/ LoopEnd \/ DrainEnd \/ DrainTimeout \/ SettleAll \/ SettleTimeout
-----------------------------------------------------------------------------
(* The goroutine of one packet.                                            *)

Acquire(n) ==
    /\ ~crashed /\ deser[n] = "spawned" /\ Cardinality(Running) < Permits
    /\ deser' = [deser EXCEPT ![n] = "running"]
    /\ UNCHANGED <<inbox, pc, parsing, life, history>>

\* Its handler returned and the permit is released.
Finish(n) ==
    /\ ~crashed /\ deser[n] = "running"
    /\ deser' = [deser EXCEPT ![n] = "done"]
    /\ UNCHANGED <<inbox, pc, parsing, life, history>>

Deserializer(n) == Acquire(n) \/ Finish(n)
-----------------------------------------------------------------------------
Next == Dispatcher \/ Loop \/ \E n \in Chunk : Deserializer(n)

Spec == Init /\ [][Next]_vars

(* The loop's goroutine runs and its timers fire.  A deserializer may      *)
(* never return (its handler calls out).                                   *)
Fairness ==
    /\ WF_vars(TakeChunk) /\ WF_vars(TakePanics) /\ WF_vars(FinishPanic)
    /\ WF_vars(LoopEnd) /\ WF_vars(DrainEnd) /\ WF_vars(DrainTimeout)
    /\ WF_vars(SettleAll) /\ WF_vars(SettleTimeout)
    /\ \A n \in Chunk : WF_vars(Acquire(n))

FairSpec == Spec /\ Fairness
-----------------------------------------------------------------------------
(* Properties.                                                             *)

TypeOK ==
    /\ input \in Seq([dir : Direction, kind : {"part", "end", "bad"}])
    /\ Len(input) <= MaxChunks
    /\ taken \in 0 .. Len(input)
    /\ closed \in BOOLEAN /\ ctxDone \in BOOLEAN
    /\ pc \in {"loop", "drain", "settle", "exited"}
    /\ buffer \in [Direction -> Seq(Chunk)]
    /\ packets \in [Direction -> Seq(Seq(Chunk))]
    /\ deser \in [Chunk -> {"none", "spawned", "running", "done"}]
    /\ wg \in -1 .. 1 /\ (~crashed => wg # -1) /\ ending \in 0 .. taken
    /\ waiter \in {"idle", "waiting", "returned"}
    /\ crashed \in BOOLEAN /\ panicked \in BOOLEAN /\ hasty \in BOOLEAN

\* The numbers of the chunks received in direction d.
Received(d) == {n \in 1 .. taken : input[n].dir = d}

\* How d's stream is cut: its packets, then what waits in the buffer.
Cut(d) == Append(packets[d], buffer[d])

\* Read one after the other, the sequences of ss rise: nothing occurs twice.
Rising(ss) ==
    \A k, l \in DOMAIN ss : \A i \in DOMAIN ss[k], j \in DOMAIN ss[l] :
        k < l \/ (k = l /\ i < j) => ss[k][i] < ss[l][j]

Members(ss) == UNION {Range(ss[k]) : k \in DOMAIN ss}

(* Packets are cut from each direction's stream as it came: chunk after    *)
(* chunk, none left out, none used twice, none from the other direction,   *)
(* however the two directions interleave.  After a restart chunks may be   *)
(* missing, but still none is out of order or used twice.                  *)
Reassembly ==
    \A d \in Direction :
        /\ Rising(Cut(d))
        /\ IF panicked THEN Members(Cut(d)) \subseteq Received(d)
                       ELSE Members(Cut(d)) = Received(d)

(* A worker that never panicked neither takes the process down nor lets    *)
(* Wait return while its loop can still touch the connection's state.      *)
WaitMeansEnded ==
    ~panicked => ~crashed /\ (waiter = "returned" => pc = "exited")

(* Unless the drain timed out, a worker ends only when its channel is      *)
(* closed and every chunk it was sent has been parsed.                     *)
DrainTakesAll == pc \in {"settle", "exited"} /\ ~hasty => Emptied

(* A worker ends in order: its last chunks parsed, its waiter released     *)
(* only then.                                                              *)
EndsOrderly == WaitMeansEnded /\ DrainTakesAll

(* A closed worker ends, even when a deserializer hangs or the parser      *)
(* panics, or it took the process down.                                    *)
ExitsAfterClose == closed ~> pc = "exited" \/ crashed

(* A chunk that was sent is parsed, across restarts too, unless a drain    *)
(* timed out.                                                              *)
EveryChunkTaken ==
    \A n \in Chunk : Len(input) >= n ~> taken >= n \/ hasty \/ crashed

(* "Auto-recover to prevent analyzer crash" (worker.go): a recovered panic *)
(* does not take the process down.                                         *)
RecoverPreventsCrash == ~crashed
=============================================================================
