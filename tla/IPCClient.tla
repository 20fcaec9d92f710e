----------------------------- MODULE IPCClient -----------------------------
(***************************************************************************)
(* The Proxy's side of the IPC link, internal/ipc/client.go.               *)
(*                                                                         *)
(* Relay goroutines call Send, which stores a frame in a ring of           *)
(* BufferSize slots and signals a single sender goroutine.  The sender     *)
(* pops the oldest frame, writes it to the socket and, when the write      *)
(* fails, puts the frame back at the front and redials.  Close may run at  *)
(* any time.                                                               *)
(*                                                                         *)
(* A frame is its serial number: frame k is the k-th one stored in the     *)
(* ring, so "older" is "<".  0 stands for Go's nil pointer.  Two history   *)
(* variables the code does not have: written (what the socket accepted,    *)
(* in order) and overfull (whether the ring ever counted more frames than  *)
(* it has slots).                                                          *)
(***************************************************************************)
EXTENDS Integers, Sequences

CONSTANTS
    BufferSize, \* slots of the ring (10000 in the code)
    MaxFrames,  \* bound on the frames the relays send
    Relays      \* relay goroutines that call Send

ASSUME ClientAssumption ==
    /\ BufferSize \in Nat \ {0}
    /\ MaxFrames \in Nat

VARIABLES
    buffer,     \* the ring: slot -> frame, or NoFrame
    head, tail, count,
    next,       \* serial number of the next frame
    relayPc,    \* "idle", or "signal" between Send's unlock and its signal
    signal,     \* sendChan (capacity 1) holds a token
    closed,     \* closeChan is closed
    closer,     \* where Close is: "idle", "lock", "wait", "done"
    pc,         \* where the sender goroutine is
    frame,      \* the sender's local variable frame
    conn,       \* c.conn: "nil", "open", or "dead" (a write to it fails)
    torn,       \* a frame was cut short on the current socket
    analyzerUp, \* an Analyzer listens on the socket path
    written,    \* history: frames the socket accepted
    overfull    \* history: count has exceeded BufferSize

ring    == <<buffer, head, tail, count, next, overfull>>
socket  == <<conn, torn, analyzerUp>>
closing == <<closed, closer>>
vars    == <<buffer, head, tail, count, next, relayPc, signal, closed, closer,
             pc, frame, conn, torn, analyzerUp, written, overfull>>

NoFrame == 0
Frame   == 1 .. MaxFrames
Slot    == 0 .. BufferSize - 1

\* A slip: the index is not wrapped.
AfterNoWrap(i) == i + 1

\* Index arithmetic of the ring.
Wrap(i)   == i % BufferSize
After(i)  == Wrap(i + 1)
Before(i) == Wrap(i - 1 + BufferSize)

\* The sender holds connMutex exactly while it is inside reconnect's loop.
MutexHeld == pc \in {"check", "dial"}

Init ==
    /\ buffer = [i \in Slot |-> NoFrame]
    /\ head = 0 /\ tail = 0 /\ count = 0
    /\ next = 1
    /\ relayPc = [r \in Relays |-> "idle"]
    /\ signal = FALSE
    /\ closed = FALSE /\ closer = "idle"
    /\ pc = "select" /\ frame = NoFrame
    /\ conn = "nil" /\ torn = FALSE
    /\ analyzerUp \in BOOLEAN
    /\ written = <<>> /\ overfull = FALSE
-----------------------------------------------------------------------------
(* Plausible slips in the steps below, one per comment.  No specification  *)
(* uses them; each property is checked to fail when one of them stands for *)
(* the step it varies.                                                     *)

\* A full ring refuses the new frame.
EnqueueDropsNewest(r) ==
    /\ relayPc[r] = "idle" /\ next \in Frame
    /\ IF count >= BufferSize
          THEN UNCHANGED <<buffer, tail, count>>
          ELSE /\ buffer' = [buffer EXCEPT ![tail] = next]
               /\ tail' = After(tail)
               /\ count' = count + 1
    /\ next' = next + 1
    /\ relayPc' = [relayPc EXCEPT ![r] = "signal"]
    /\ UNCHANGED <<head, signal, closing, pc, frame, socket, written, overfull>>

\* The frame that failed goes to the back of the ring.
PushFrontAtBack ==
    /\ pc = "pushFront"
    /\ buffer' = [buffer EXCEPT ![tail] = frame]
    /\ tail' = After(tail)
    /\ count' = count + 1
    /\ overfull' = (overfull \/ count' > BufferSize)
    /\ frame' = NoFrame
    /\ pc' = "reconnect"
    /\ UNCHANGED <<head, next, relayPc, signal, closing, socket, written>>

\* A failed write keeps its connection.
DropConnKeeps ==
    /\ pc = "reconnect"
    /\ pc' = IF conn = "open" THEN "select" ELSE "check"
    /\ signal' = TRUE
    /\ UNCHANGED <<ring, relayPc, closing, frame, socket, written>>

\* closeChan is not looked at between dials.
CheckClosedSkipped ==
    /\ pc = "check"
    /\ pc' = "dial"
    /\ UNCHANGED <<ring, relayPc, signal, closing, frame, socket, written>>

\* No token after a reconnection.
DialOkSilent ==
    /\ pc = "dial" /\ analyzerUp
    /\ conn' = "open" /\ torn' = FALSE
    /\ pc' = "select"
    /\ UNCHANGED <<ring, relayPc, signal, closing, frame, analyzerUp, written>>
-----------------------------------------------------------------------------
(* Relay goroutines: Send.                                                 *)

\* Send under bufMutex: drop the oldest frame when full, store the new one.
Enqueue(r) ==
    /\ relayPc[r] = "idle"
    /\ next \in Frame
    /\ IF count >= BufferSize
          THEN head' = After(head) /\ count' = count
          ELSE head' = head /\ count' = count + 1
    /\ buffer' = [buffer EXCEPT ![tail] = next]
    /\ tail' = After(tail)
    /\ next' = next + 1
    /\ relayPc' = [relayPc EXCEPT ![r] = "signal"]
    /\ UNCHANGED <<signal, closing, pc, frame, socket, written, overfull>>

\* The non-blocking send on sendChan after the unlock.
Signal(r) ==
    /\ relayPc[r] = "signal"
    /\ relayPc' = [relayPc EXCEPT ![r] = "idle"]
    /\ signal' = TRUE
    /\ UNCHANGED <<ring, closing, pc, frame, socket, written>>
-----------------------------------------------------------------------------
(* The sender goroutine: senderLoop, processBuffer, sendFrame, reconnect.  *)

SelectClose ==
    /\ pc = "select" /\ closed
    /\ pc' = "done"
    /\ UNCHANGED <<ring, relayPc, signal, closing, frame, socket, written>>

SelectSend ==
    /\ pc = "select" /\ signal
    /\ signal' = FALSE
    /\ pc' = "pop"
    /\ UNCHANGED <<ring, relayPc, closing, frame, socket, written>>

\* popFrame returns nil on an empty ring: processBuffer returns.
PopNothing ==
    /\ pc = "pop" /\ count = 0
    /\ pc' = "select"
    /\ UNCHANGED <<ring, relayPc, signal, closing, frame, socket, written>>

\* popFrame takes the head slot, whatever it holds; a nil frame is taken by
\* processBuffer for an empty ring.
PopFrame ==
    /\ pc = "pop" /\ count > 0
    /\ frame' = buffer[head]
    /\ buffer' = [buffer EXCEPT ![head] = NoFrame]
    /\ head' = After(head)
    /\ count' = count - 1
    /\ pc' = IF buffer[head] = NoFrame THEN "select" ELSE "write"
    /\ UNCHANGED <<tail, next, overfull, relayPc, signal, closing, socket, written>>

WriteOk ==
    /\ pc = "write" /\ conn = "open"
    /\ written' = Append(written, frame)
    /\ frame' = NoFrame
    /\ pc' = "pop"
    /\ UNCHANGED <<ring, relayPc, signal, closing, socket>>

\* sendFrame fails: no connection, a dead one, or the write deadline passed
\* with some prefix of the frame already on the socket.
WriteFail ==
    /\ pc = "write"
    /\ \/ UNCHANGED torn
       \/ conn = "open" /\ torn' = TRUE
    /\ pc' = "pushFront"
    /\ UNCHANGED <<ring, relayPc, signal, closing, frame, conn, analyzerUp, written>>

\* pushFront under bufMutex.  It does not look at count.
PushFront ==
    /\ pc = "pushFront"
    /\ head' = Before(head)
    /\ buffer' = [buffer EXCEPT ![Before(head)] = frame]
    /\ count' = count + 1
    /\ overfull' = (overfull \/ count' > BufferSize)
    /\ frame' = NoFrame
    /\ pc' = "reconnect"
    /\ UNCHANGED <<tail, next, relayPc, signal, closing, socket, written>>

\* reconnect takes connMutex and gives up the existing connection.
DropConn ==
    /\ pc = "reconnect"
    /\ conn' = "nil"
    /\ pc' = "check"
    /\ UNCHANGED <<ring, relayPc, signal, closing, frame, torn, analyzerUp, written>>

CheckClosed ==
    /\ pc = "check"
    /\ pc' = IF closed THEN "select" ELSE "dial"
    /\ UNCHANGED <<ring, relayPc, signal, closing, frame, socket, written>>

DialOk ==
    /\ pc = "dial" /\ analyzerUp
    /\ conn' = "open" /\ torn' = FALSE
    /\ signal' = TRUE
    /\ pc' = "select"
    /\ UNCHANGED <<ring, relayPc, closing, frame, analyzerUp, written>>

\* Refused or timed out; after the delay the loop checks closeChan again.
DialFail ==
    /\ pc = "dial"
    /\ pc' = "check"
    /\ UNCHANGED <<ring, relayPc, signal, closing, frame, socket, written>>

Sender ==
    \/ SelectClose \/ SelectSend
    \/ PopNothing \/ PopFrame
    \/ WriteOk \/ WriteFail
    \/ PushFront \/ DropConn \/ CheckClosed \/ DialOk \/ DialFail
-----------------------------------------------------------------------------
(* Close, called once by the deferred call of cmd/proxy main.              *)

CloseStart ==
    /\ closer = "idle"
    /\ closed' = TRUE
    /\ closer' = "lock"
    /\ UNCHANGED <<ring, relayPc, signal, pc, frame, socket, written>>

CloseConn ==
    /\ closer = "lock" /\ ~MutexHeld
    /\ conn' = IF conn = "nil" THEN "nil" ELSE "dead"
    /\ closer' = "wait"
    /\ UNCHANGED <<ring, relayPc, signal, closed, pc, frame, torn, analyzerUp, written>>

CloseReturn ==
    /\ closer = "wait" /\ pc = "done"
    /\ closer' = "done"
    /\ UNCHANGED <<ring, relayPc, signal, closed, pc, frame, socket, written>>

Closer == CloseStart \/ CloseConn \/ CloseReturn
-----------------------------------------------------------------------------
(* The Analyzer process, seen from the socket.                             *)

AnalyzerStops ==
    /\ analyzerUp
    /\ analyzerUp' = FALSE
    /\ conn' = IF conn = "open" THEN "dead" ELSE conn
    /\ UNCHANGED <<ring, relayPc, signal, closing, pc, frame, torn, written>>

AnalyzerStarts ==
    /\ ~analyzerUp
    /\ analyzerUp' = TRUE
    /\ UNCHANGED <<ring, relayPc, signal, closing, pc, frame, conn, torn, written>>

Analyzer == AnalyzerStops \/ AnalyzerStarts
-----------------------------------------------------------------------------
Next ==
    \/ \E r \in Relays : Enqueue(r) \/ Signal(r)
    \/ Sender
    \/ Closer
    \/ Analyzer

Spec == Init /\ [][Next]_vars

(* Goroutines that can run do run.  Strong fairness: Go's select picks at  *)
(* random among ready cases (SelectClose); an Analyzer that keeps          *)
(* listening accepts a dial (DialOk) and, because its reader never blocks  *)
(* on a full channel, drains the socket (WriteOk); Go's RWMutex does not   *)
(* starve a waiting writer (CloseConn).                                    *)
Fairness ==
    /\ \A r \in Relays : WF_vars(Signal(r))
    /\ WF_vars(Sender)
    /\ SF_vars(SelectClose) /\ SF_vars(DialOk) /\ SF_vars(WriteOk)
    /\ SF_vars(CloseConn) /\ WF_vars(CloseReturn)

FairSpec == Spec /\ Fairness
-----------------------------------------------------------------------------
(* Properties.                                                             *)

\* The ring from head to tail, as a sequence.
Queue == [i \in 1 .. count |-> buffer[Wrap(head + i - 1)]]

InRing(f)  == \E s \in Slot : buffer[s] = f
Written(f) == \E i \in 1 .. Len(written) : written[i] = f
Sent(f)    == f < next
Lost(f)    == Sent(f) /\ ~InRing(f) /\ frame # f /\ ~Written(f)

\* Type invariant.
TypeOK ==
    /\ buffer \in [Slot -> Frame \cup {NoFrame}]
    /\ head \in Slot /\ tail \in Slot /\ count \in 0 .. BufferSize + 1
    /\ next \in 1 .. MaxFrames + 1
    /\ relayPc \in [Relays -> {"idle", "signal"}]
    /\ signal \in BOOLEAN /\ closed \in BOOLEAN
    /\ closer \in {"idle", "lock", "wait", "done"}
    /\ pc \in {"select", "pop", "write", "pushFront", "reconnect", "check",
               "dial", "done"}
    /\ frame \in Frame \cup {NoFrame}
    /\ conn \in {"nil", "open", "dead"}
    /\ torn \in BOOLEAN /\ analyzerUp \in BOOLEAN
    /\ written \in Seq(Frame)
    /\ overfull \in BOOLEAN

(* The three indices agree, whatever interleaving of Send, popFrame and    *)
(* pushFront led here: tail is count slots after head.  count passes the   *)
(* capacity by at most one, never while the sender holds a frame           *)
(* (client.go pushFront does not check count).                             *)
RingGeometry ==
    /\ tail = Wrap(head + count)
    /\ count <= BufferSize + 1
    /\ frame # NoFrame => count <= BufferSize
    /\ (frame # NoFrame) <=> (pc \in {"write", "pushFront"})

(* A frame is never in two places, so it is never written twice: failed    *)
(* writes, put-backs and drops neither copy a frame nor revive a written   *)
(* one, not even when the ring is overfull.                                *)
AtMostOnce ==
    /\ \A i, j \in 1 .. Len(written) : written[i] = written[j] => i = j
    /\ \A s, t \in Slot : buffer[s] = buffer[t] /\ buffer[s] # NoFrame => s = t
    /\ \A f \in Frame : Written(f) => ~InRing(f) /\ frame # f
    /\ frame # NoFrame => ~InRing(frame)

(* Frames reach the socket in the order Send stored them, across failed    *)
(* writes and reconnections, until the ring is overfull: what was written, *)
(* what the sender holds and what waits in the ring are in order, and no   *)
(* waiting slot is nil.                                                    *)
InOrder ==
    ~overfull =>
        /\ \A i, j \in 1 .. Len(written) : i < j => written[i] < written[j]
        /\ \A i, j \in 1 .. count : i < j => Queue[i] < Queue[j]
        /\ \A i \in 1 .. count : frame < Queue[i]
        /\ \A i \in 1 .. Len(written) :
              /\ frame # NoFrame => written[i] < frame
              /\ \A j \in 1 .. count : written[i] < Queue[j]

(* "If the buffer is full, the oldest frame is dropped" (client.go, Send): *)
(* a frame that was lost is older than every frame that still waits.  Here *)
(* as long as the ring is not overfull; without that condition the code    *)
(* does not keep it, see OldestDropped.                                    *)
DropsOldest ==
    ~overfull => \A f, g \in Frame : Lost(f) /\ InRing(g) => f < g

(* The relays' frames as the Analyzer gets them: each at most once, in the *)
(* order they were sent, and short of the oldest only.                     *)
QueueOrder == AtMostOnce /\ InOrder /\ DropsOldest

(* DropsOldest as client.go states it, with no condition.                  *)
OldestDropped ==
    \A f, g \in Frame : Lost(f) /\ InRing(g) => f < g

(* No lost wake-up: when frames wait and the sender is idle, a token is in *)
(* sendChan or a relay is about to put one there (client.go's non-blocking *)
(* sends on a channel of capacity 1).                                      *)
NoLostWakeup ==
    pc = "select" /\ count > 0 /\ ~closed /\ ~overfull =>
        signal \/ \E r \in Relays : relayPc[r] = "signal"

(* A frame cut short by the write deadline is the last thing on its        *)
(* socket: the stream the Analyzer decodes is never a partial frame        *)
(* followed by another one.                                                *)
NothingAfterTorn == pc = "write" /\ conn = "open" => ~torn

(* Close leaves no open connection behind, although a dial may be in       *)
(* flight when it starts: the sender checks closeChan inside connMutex.    *)
NoConnLeft == closer \in {"wait", "done"} => conn # "open"

(* What the sender does to its socket when a write fails or Close comes:   *)
(* it never goes on after a torn frame and never leaves a socket open.     *)
SocketsSound == NothingAfterTorn /\ NoConnLeft

(* Close returns, whatever the Analyzer does.                              *)
CloseReturns == closed ~> closer = "done"

(* While an Analyzer keeps listening and nobody calls Close, every frame   *)
(* Send stored is written or dropped, unless the ring became overfull.     *)
EventuallyWritten ==
    <>[]analyzerUp =>
        \A f \in Frame :
            Sent(f) ~> (Written(f) \/ Lost(f) \/ closed \/ overfull)

(* The client implements the bounded queue of FrameQueue.                  *)
Promise == INSTANCE FrameQueue WITH
    Capacity <- BufferSize, queue <- Queue, held <- frame,
    delivered <- written, fresh <- next, void <- overfull

KeepsPromise == Promise!Spec
=============================================================================
