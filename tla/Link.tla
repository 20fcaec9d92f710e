-------------------------------- MODULE Link --------------------------------
(***************************************************************************)
(* From the proxy to the workers: IPCServer and Processor composed over    *)
(* frameChan, with the frames' contents, while the Analyzer stays up.      *)
(*                                                                         *)
(* IPCServer and Processor are instantiated; what they take from the       *)
(* channel is one joint step, processLoop's receive and the handler it     *)
(* calls.  The proxy's side is what IPCClient and Connection promise:      *)
(* events of game connections, OPEN first and CLOSE last, written in order *)
(* on one socket after another, some of them dropped.  Cancellation, Stop  *)
(* and Close are not taken here: their variables keep their first values.  *)
(*                                                                         *)
(* The n-th event of the proxy is event n.  content and got say which      *)
(* event a frame of a socket and a frame received carry.                   *)
(***************************************************************************)
EXTENDS Integers, Sequences

CONSTANTS
    Conns,      \* game connections
    MaxSockets, \* bound on the sockets the proxy dials
    MaxWrites,  \* bound on the frames written on one socket
    MaxEvents,  \* bound on the events of game connections
    ChanCap,    \* capacity of frameChan
    ChunkCap    \* capacity of a worker's channel

ASSUME LinkAssumption ==
    /\ Conns # {} /\ MaxSockets \in Nat /\ MaxWrites \in Nat /\ MaxEvents \in Nat
    /\ ChanCap \in Nat \ {0} /\ ChunkCap \in Nat \ {0}

VARIABLES
    peer, sent, read, acceptor, handler, wg, frameChan, received, lost,
    serverCrashed, ctxDone, closer, listening, chanClosed, stopper,
    workers, connections, serial, pc, target, wstate, connOf, chunks, closed,
    done, crashed, reopened,
    events,     \* the events so far, each [type, conn]
    content,    \* socket -> the events written on it, by number
    got,        \* history: the event of each frame received, 0 for a marker
    overlapped  \* history: two handlers were at work at once

MaxFrames == MaxSockets * (MaxWrites + 1)

Server   == INSTANCE IPCServer WITH MaxFrames <- MaxWrites, crashed <- serverCrashed
Analyzer == INSTANCE Processor

server == <<peer, sent, read, acceptor, handler, wg, frameChan, received, lost,
            serverCrashed, ctxDone, closer, listening, chanClosed>>
analyzer == <<workers, connections, serial, pc, target, wstate, connOf, chunks,
              closed, done, crashed, reopened, ctxDone, stopper>>
vars == <<peer, sent, read, acceptor, handler, wg, frameChan, received, lost,
          serverCrashed, ctxDone, closer, listening, chanClosed, stopper,
          workers, connections, serial, pc, target, wstate, connOf, chunks,
          closed, done, crashed, reopened, events, content, got, overlapped>>

Init ==
    /\ Server!Init /\ Analyzer!Init
    /\ events = <<>>
    /\ content = [s \in Server!Socket |-> <<>>]
    /\ got = <<>>
    /\ overlapped = FALSE

IsMarker(m) == m[2] = Server!Marker

\* The events of c so far.
EventsOf(c) == {i \in DOMAIN events : events[i].conn = c}
Opened(c)   == EventsOf(c) # {}
ClosedBy(c) == {i \in EventsOf(c) : events[i].type = "close"}
-----------------------------------------------------------------------------
(* The proxy.                                                              *)

Allowed(type, c) ==
    IF type = "open" THEN ~Opened(c) ELSE Opened(c) /\ ClosedBy(c) = {}

Happens(type, c) ==
    /\ Len(events) < MaxEvents /\ Allowed(type, c)
    /\ events' = Append(events, [type |-> type, conn |-> c])

\* A plausible slip: the slot before the one popped is written.
WriteSlotBefore(s, type, c) ==
    /\ Server!Write(s)
    /\ Happens(type, c)
    /\ content' = [content EXCEPT ![s] = Append(@, IF events = <<>> THEN 1 ELSE Len(events))]
    /\ UNCHANGED <<analyzer, got, overlapped>>

\* The event's frame is written on the current socket.
Write(s, type, c) ==
    /\ Server!Write(s)
    /\ Happens(type, c)
    /\ content' = [content EXCEPT ![s] = Append(@, Len(events) + 1)]
    /\ UNCHANGED <<analyzer, got, overlapped>>

\* The ring was full, or the write failed: the Analyzer never sees the event.
Drop(type, c) ==
    /\ Happens(type, c)
    /\ UNCHANGED <<server, analyzer, content, got, overlapped>>

Redial(s) ==
    /\ Server!Dial(s) \/ Server!Hangup(s)
    /\ UNCHANGED <<analyzer, events, content, got, overlapped>>

Proxy ==
    \/ \E c \in Conns, type \in {"open", "data", "close"} :
          Drop(type, c) \/ \E s \in Server!Socket : Write(s, type, c)
    \/ \E s \in Server!Socket : Redial(s)
-----------------------------------------------------------------------------
(* The Analyzer.                                                           *)

AcceptCheck ==
    /\ Server!AcceptCheck
    /\ UNCHANGED <<analyzer, events, content, got, overlapped>>

\* Accept returns an error that is not Close's ...
AcceptFails ==
    /\ Server!AcceptFails
    /\ UNCHANGED <<analyzer, events, content, got, overlapped>>

\* ... and then it tries again.
AcceptRecheck ==
    /\ Server!AcceptRecheck
    /\ UNCHANGED <<analyzer, events, content, got, overlapped>>

AcceptLoop == AcceptCheck \/ AcceptFails \/ AcceptRecheck

Accept(s) ==
    /\ Server!Accept(s)
    /\ overlapped' = (overlapped \/ \E t \in Server!Socket :
                         handler[t] \notin {"none", "exited"})
    /\ UNCHANGED <<analyzer, events, content, got>>

Handle(s) ==
    /\ Server!Handler(s)
    /\ UNCHANGED <<analyzer, events, content, got, overlapped>>

\* handleFrame: the handler of event n, or of the marker (0).
HandleFrame(n) ==
    IF n = 0
       THEN Analyzer!IPCDisconnect
       ELSE \E c \in Conns :
               /\ events[n].conn = c
               /\ \/ events[n].type = "open"  /\ Analyzer!ConnOpen(c)
                  \/ events[n].type = "data"  /\ Analyzer!Data(c)
                  \/ events[n].type = "close" /\ Analyzer!ConnClose(c)

\* processLoop takes a frame and handles it.
Take ==
    /\ Server!Receive
    /\ LET m == Head(frameChan)
           n == IF IsMarker(m) THEN 0 ELSE content[m[1]][m[2]]
       IN  HandleFrame(n) /\ got' = Append(got, n)
    /\ UNCHANGED <<events, content, overlapped>>

SendChunk ==
    /\ Analyzer!SendChunk
    /\ UNCHANGED <<server, events, content, got, overlapped>>

WorkerStep(w) ==
    /\ Analyzer!WorkerStep(w)
    /\ UNCHANGED <<server, events, content, got, overlapped>>
-----------------------------------------------------------------------------
Next ==
    \/ Proxy
    \/ AcceptLoop
    \/ \E s \in Server!Socket : Accept(s) \/ Handle(s)
    \/ Take \/ SendChunk
    \/ \E w \in Analyzer!Serial : WorkerStep(w)

Spec == Init /\ [][Next]_vars

(* The Analyzer's goroutines run; nothing is assumed of the proxy.  Accept *)
(* may fail any number of times, but not for ever while a socket waits     *)
(* (hence SF).                                                             *)
Fairness ==
    /\ WF_vars(AcceptCheck) /\ WF_vars(AcceptRecheck)
    /\ \A s \in Server!Socket : SF_vars(Accept(s)) /\ WF_vars(Handle(s))
    /\ WF_vars(Take) /\ WF_vars(SendChunk)

FairSpec == Spec /\ Fairness
-----------------------------------------------------------------------------
(* Properties.                                                             *)

MarkerLost == \E s \in Server!Socket : <<s, Server!Marker>> \in lost

(* When every socket is gone and the channel is empty, no connection and   *)
(* no worker is left, whichever handler finished last and whatever frames  *)
(* were dropped, unless a marker was.                                      *)
GoneIsEmpty ==
    (/\ \A s \in Server!Socket : handler[s] \in {"none", "exited"}
     /\ \E s \in Server!Socket : handler[s] = "exited"
     /\ frameChan = <<>> /\ pc = "loop")
    => MarkerLost \/ (Analyzer!Active = {} /\ connections = {})

(* Frames of one game connection are handled in the order of the events,   *)
(* also across a redial, unless the old socket's handler was still at work *)
(* when the new one started.                                               *)
OrderAcrossRedial ==
    ~overlapped =>
        \A i, j \in DOMAIN got : i < j /\ got[i] # 0 /\ got[j] # 0 => got[i] < got[j]

(* And then no worker comes back for a connection whose CLOSE was handled: *)
(* a late chunk would create one that no frame ever closes.                *)
NoWorkerAfterClose ==
    ~overlapped =>
        \A i \in DOMAIN got :
            got[i] # 0 /\ events[got[i]].type = "close"
                => workers[events[got[i]].conn] = Analyzer!NoWorker

(* When the proxy is gone for good the Analyzer ends with no worker, unless*)
(* a marker was lost.                                                      *)
GoneIsForgotten ==
    peer[MaxSockets] = "closed" ~> Analyzer!Active = {} \/ MarkerLost
=============================================================================
