----------------------------- MODULE IPCServer -----------------------------
(***************************************************************************)
(* The Analyzer's side of the IPC link, internal/ipc/server.go.            *)
(*                                                                         *)
(* acceptLoop starts one handleConnection goroutine per accepted socket;   *)
(* each reads frames and sends them, without blocking, to one shared       *)
(* channel.  A decode error (the proxy closed its end) sends the marker    *)
(* IPCDisconnect instead.  Close runs in main after the processor, the     *)
(* channel's only reader, has stopped.                                     *)
(*                                                                         *)
(* The proxy dials one socket after another (IPCClient's reconnect closes  *)
(* the old one first), so sockets are numbered in dialling order; an old   *)
(* one may still hold unread frames.  A frame is <<socket, n>>, the n-th   *)
(* written on that socket; the marker of a socket is <<socket, Marker>>.   *)
(***************************************************************************)
EXTENDS Integers, Sequences

CONSTANTS
    MaxSockets, \* bound on the sockets the proxy dials
    MaxFrames,  \* bound on the frames written on each socket
    ChanCap     \* capacity of frameChan (10000 in the code)

ASSUME ServerAssumption ==
    /\ MaxSockets \in Nat
    /\ MaxFrames \in Nat
    /\ ChanCap \in Nat \ {0}

VARIABLES
    peer,       \* the proxy's end of a socket: "none", "open", "closed"
    sent,       \* frames the proxy wrote on a socket
    read,       \* frames read from a socket
    acceptor,   \* acceptLoop: "check", "accept", "recheck", "exited"
    handler,    \* handleConnection: "none", "check", "read", "send", "gone",
                \* "exited"
    wg,         \* the server's WaitGroup
    ctxDone,    \* the context is cancelled
    closer,     \* main: "run", "listener", "wait", "chan", "done"
    listening,  \* the listener is open
    frameChan,  \* the channel
    chanClosed, \* it is closed
    received,   \* history: what the processor took from it
    lost,       \* history: the messages that found the channel full
    crashed     \* a goroutine panicked

proxy  == <<peer, sent>>
server == <<acceptor, handler, wg, read>>
output == <<frameChan, chanClosed, lost, crashed>>
main   == <<ctxDone, closer, listening>>
vars   == <<peer, sent, read, acceptor, handler, wg, ctxDone, closer, listening,
            frameChan, chanClosed, received, lost, crashed>>

Socket == 1 .. MaxSockets
Marker == MaxFrames + 1

\* closeChan is closed.
Closing == closer # "run"

Init ==
    /\ peer = [s \in Socket |-> "none"]
    /\ sent = [s \in Socket |-> 0] /\ read = [s \in Socket |-> 0]
    /\ acceptor = "check" /\ handler = [s \in Socket |-> "none"]
    /\ wg = 1
    /\ ctxDone = FALSE /\ closer = "run" /\ listening = TRUE
    /\ frameChan = <<>> /\ chanClosed = FALSE
    /\ received = <<>> /\ lost = {} /\ crashed = FALSE

\* A slip: the channel is not bounded.
PutUnbounded(m) ==
    /\ crashed' = chanClosed
    /\ frameChan' = Append(frameChan, m)
    /\ UNCHANGED <<chanClosed, lost>>

\* The non-blocking send: full drops, closed panics.
Put(m) ==
    /\ crashed' = chanClosed
    /\ IF ~chanClosed /\ Len(frameChan) < ChanCap
          THEN frameChan' = Append(frameChan, m) /\ UNCHANGED lost
          ELSE lost' = lost \cup {m} /\ UNCHANGED frameChan
    /\ UNCHANGED chanClosed

\* wg.Done() as the goroutine returns.
Done == wg' = wg - 1
-----------------------------------------------------------------------------
(* Plausible slips in the steps below, one per comment.  No specification  *)
(* uses them; each property is checked to fail when one of them stands for *)
(* the step it varies.                                                     *)

\* The handler does not count itself in the WaitGroup.
AcceptUncounted(s) ==
    /\ ~crashed /\ acceptor = "accept" /\ listening
    /\ peer[s] # "none" /\ handler[s] = "none"
    /\ \A t \in Socket : t < s => handler[t] # "none"
    /\ acceptor' = "check"
    /\ handler' = [handler EXCEPT ![s] = "check"]
    /\ UNCHANGED <<proxy, read, wg, main, output, received>>

\* The next frame is read before the one in hand is sent.
ReadAhead(s) ==
    /\ ~crashed /\ handler[s] \in {"read", "send"} /\ read[s] < sent[s]
    /\ read' = [read EXCEPT ![s] = @ + 1]
    /\ handler' = [handler EXCEPT ![s] = "send"]
    /\ UNCHANGED <<proxy, acceptor, wg, main, output, received>>

\* The error path returns without the marker.
NotifyNobody(s) ==
    /\ ~crashed /\ handler[s] = "gone"
    /\ handler' = [handler EXCEPT ![s] = "exited"]
    /\ Done
    /\ UNCHANGED <<proxy, acceptor, read, main, output, received>>

\* The error path returns without wg.Done.
NotifyGoneNoDone(s) ==
    /\ ~crashed /\ handler[s] = "gone"
    /\ Put(<<s, Marker>>)
    /\ handler' = [handler EXCEPT ![s] = "exited"]
    /\ UNCHANGED <<proxy, acceptor, wg, read, main, received>>
-----------------------------------------------------------------------------
(* The proxy, as IPCClient's senderLoop uses the socket.  A write to a     *)
(* socket whose handler has closed it fails.                               *)

\* reconnect: the next socket, once the one before is closed.
Dial(s) ==
    /\ listening /\ peer[s] = "none"
    /\ \A t \in Socket : t < s => peer[t] = "closed"
    /\ peer' = [peer EXCEPT ![s] = "open"]
    /\ UNCHANGED <<sent, server, main, output, received>>

Write(s) ==
    /\ peer[s] = "open" /\ handler[s] # "exited" /\ sent[s] < MaxFrames
    /\ sent' = [sent EXCEPT ![s] = @ + 1]
    /\ UNCHANGED <<peer, server, main, output, received>>

\* A failed write, Close or the death of the proxy.
Hangup(s) ==
    /\ peer[s] = "open"
    /\ peer' = [peer EXCEPT ![s] = "closed"]
    /\ UNCHANGED <<sent, server, main, output, received>>

Proxy == \E s \in Socket : Dial(s) \/ Write(s) \/ Hangup(s)
-----------------------------------------------------------------------------
(* acceptLoop.                                                             *)

AcceptCheck ==
    /\ ~crashed /\ acceptor = "check"
    /\ IF ctxDone \/ Closing
          THEN acceptor' = "exited" /\ Done
          ELSE acceptor' = "accept" /\ UNCHANGED wg
    /\ UNCHANGED <<proxy, handler, read, main, output, received>>

\* Accept takes the oldest waiting socket and starts its handler.
Accept(s) ==
    /\ ~crashed /\ acceptor = "accept" /\ listening
    /\ peer[s] # "none" /\ handler[s] = "none"
    /\ \A t \in Socket : t < s => handler[t] # "none"
    /\ acceptor' = "check"
    /\ handler' = [handler EXCEPT ![s] = "check"]
    /\ wg' = wg + 1
    /\ UNCHANGED <<proxy, read, main, output, received>>

\* Accept fails: the listener is closed, or for another reason.
AcceptFails ==
    /\ ~crashed /\ acceptor = "accept"
    /\ acceptor' = "recheck"
    /\ UNCHANGED <<proxy, handler, read, wg, main, output, received>>

AcceptRecheck ==
    /\ ~crashed /\ acceptor = "recheck"
    /\ IF Closing
          THEN acceptor' = "exited" /\ Done
          ELSE acceptor' = "check" /\ UNCHANGED wg
    /\ UNCHANGED <<proxy, handler, read, main, output, received>>
-----------------------------------------------------------------------------
(* handleConnection.                                                       *)

HandlerCheck(s) ==
    /\ ~crashed /\ handler[s] = "check"
    /\ IF ctxDone \/ Closing
          THEN handler' = [handler EXCEPT ![s] = "exited"] /\ Done
          ELSE handler' = [handler EXCEPT ![s] = "read"] /\ UNCHANGED wg
    /\ UNCHANGED <<proxy, acceptor, read, main, output, received>>

\* DecodeFrame returns a frame.
ReadFrame(s) ==
    /\ ~crashed /\ handler[s] = "read" /\ read[s] < sent[s]
    /\ read' = [read EXCEPT ![s] = @ + 1]
    /\ handler' = [handler EXCEPT ![s] = "send"]
    /\ UNCHANGED <<proxy, acceptor, wg, main, output, received>>

\* DecodeFrame fails: everything was read and the proxy's end is closed.  A
\* frame cut short at the end fails in the same way.
ReadFails(s) ==
    /\ ~crashed /\ handler[s] = "read" /\ read[s] = sent[s] /\ peer[s] = "closed"
    /\ handler' = [handler EXCEPT ![s] = "gone"]
    /\ UNCHANGED <<proxy, acceptor, read, wg, main, output, received>>

SendFrame(s) ==
    /\ ~crashed /\ handler[s] = "send"
    /\ Put(<<s, read[s]>>)
    /\ handler' = [handler EXCEPT ![s] = "check"]
    /\ UNCHANGED <<proxy, acceptor, wg, read, main, received>>

\* The marker, and the goroutine's end.
NotifyGone(s) ==
    /\ ~crashed /\ handler[s] = "gone"
    /\ Put(<<s, Marker>>)
    /\ handler' = [handler EXCEPT ![s] = "exited"]
    /\ Done
    /\ UNCHANGED <<proxy, acceptor, read, main, received>>

Handler(s) ==
    HandlerCheck(s) \/ ReadFrame(s) \/ ReadFails(s) \/ SendFrame(s) \/ NotifyGone(s)
-----------------------------------------------------------------------------
(* main: the context, the processor's reads and Close.                     *)

Cancel ==
    /\ ~ctxDone
    /\ ctxDone' = TRUE
    /\ UNCHANGED <<proxy, server, closer, listening, output, received>>

\* processLoop reads until main calls Close, which it does after Stop.
Receive ==
    /\ ~crashed /\ closer = "run" /\ frameChan # <<>>
    /\ received' = Append(received, Head(frameChan))
    /\ frameChan' = Tail(frameChan)
    /\ UNCHANGED <<proxy, server, main, chanClosed, lost, crashed>>

CloseStart ==
    /\ ~crashed /\ closer = "run" /\ ctxDone
    /\ closer' = "listener"
    /\ UNCHANGED <<proxy, server, ctxDone, listening, output, received>>

CloseListener ==
    /\ ~crashed /\ closer = "listener"
    /\ listening' = FALSE
    /\ closer' = "wait"
    /\ UNCHANGED <<proxy, server, ctxDone, output, received>>

\* s.wg.Wait() returns.
CloseWait ==
    /\ ~crashed /\ closer = "wait" /\ wg = 0
    /\ closer' = "chan"
    /\ UNCHANGED <<proxy, server, ctxDone, listening, output, received>>

CloseChan ==
    /\ ~crashed /\ closer = "chan"
    /\ chanClosed' = TRUE
    /\ closer' = "done"
    /\ UNCHANGED <<proxy, server, ctxDone, listening, frameChan, received, lost,
                   crashed>>

Main == Cancel \/ Receive \/ CloseStart \/ CloseListener \/ CloseWait \/ CloseChan
-----------------------------------------------------------------------------
Next ==
    \/ Proxy
    \/ AcceptCheck \/ AcceptFails \/ AcceptRecheck
    \/ \E s \in Socket : Accept(s) \/ Handler(s)
    \/ Main

Spec == Init /\ [][Next]_vars

(* The server's goroutines run; nothing is assumed of the proxy.  Accept   *)
(* fails once the listener is closed, and before that it does not fail for *)
(* ever while a socket waits (hence SF).                                   *)
Fairness ==
    /\ WF_vars(AcceptCheck) /\ WF_vars(AcceptRecheck)
    /\ WF_vars(AcceptFails /\ ~listening)
    /\ \A s \in Socket : SF_vars(Accept(s)) /\ WF_vars(Handler(s))
    /\ WF_vars(CloseListener) /\ WF_vars(CloseWait) /\ WF_vars(CloseChan)
    /\ WF_vars(Receive)

FairSpec == Spec /\ Fairness
-----------------------------------------------------------------------------
(* Properties.                                                             *)

Message == Socket \X (0 .. Marker)

TypeOK ==
    /\ peer \in [Socket -> {"none", "open", "closed"}]
    /\ sent \in [Socket -> 0 .. MaxFrames]
    /\ read \in [Socket -> 0 .. MaxFrames]
    /\ acceptor \in {"check", "accept", "recheck", "exited"}
    /\ handler \in [Socket -> {"none", "check", "read", "send", "gone", "exited"}]
    /\ wg \in Nat
    /\ ctxDone \in BOOLEAN /\ listening \in BOOLEAN
    /\ closer \in {"run", "listener", "wait", "chan", "done"}
    /\ frameChan \in Seq(Message) /\ Len(frameChan) <= ChanCap
    /\ received \in Seq(Message)
    /\ chanClosed \in BOOLEAN /\ crashed \in BOOLEAN
    /\ lost \subseteq Message

(* No goroutine ever sends on the closed channel: when Close closes it,    *)
(* acceptLoop and every handler have returned, and no socket is accepted   *)
(* later.  acceptLoop may be starting a handler while Close already waits. *)
NoSendAfterClose ==
    /\ ~crashed
    /\ closer \in {"chan", "done"} =>
          /\ acceptor = "exited"
          /\ \A s \in Socket : handler[s] \in {"none", "exited"}

\* What the processor took and what waits for it.
Output == received \o frameChan
Arrived(m) == \E i \in 1 .. Len(Output) : Output[i] = m

(* What reaches the processor from one socket is in the order the proxy    *)
(* wrote it, without repetition, and the marker is the last of it: handlers*)
(* of several sockets at work on one channel do not change that.           *)
SocketOrder ==
    \A i, j \in 1 .. Len(Output) :
        i < j /\ Output[i][1] = Output[j][1] => Output[i][2] < Output[j][2]

(* Every frame read reaches the channel or was dropped because the channel *)
(* was full: no path of handleConnection loses one without a trace.        *)
ReadIsPassedOn ==
    \A s \in Socket : \A n \in 1 .. read[s] :
        Arrived(<<s, n>>) \/ <<s, n>> \in lost \/ (n = read[s] /\ handler[s] = "send")

(* What the processor gets is, socket by socket, what the proxy wrote, in  *)
(* order and short only of what a full channel drops.                      *)
PassedOnInOrder == SocketOrder /\ ReadIsPassedOn

(* "Close shuts down the server and removes the socket file" (server.go):  *)
(* it returns, unless a handler waits for a proxy that stays connected and *)
(* writes nothing.  Then it does not: wg.Wait waits for a DecodeFrame that *)
(* neither the context nor closeChan wakes.                                *)
CloseReturnsOrIdle ==
    closer = "wait" ~>
        closer = "done" \/ \E s \in Socket :
            handler[s] = "read" /\ peer[s] = "open" /\ read[s] = sent[s]
=============================================================================
