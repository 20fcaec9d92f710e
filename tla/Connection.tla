----------------------------- MODULE Connection -----------------------------
(***************************************************************************)
(* One game connection in the Proxy: internal/proxy, connection.go,        *)
(* proxy.go (handleConnection), recording.go and globals.go.               *)
(*                                                                         *)
(* handleConnection dials the game server, announces the connection to the *)
(* Analyzer and starts two relay goroutines.  Each reads a piece from one  *)
(* peer, writes it to the other, records it when recording is on, and only *)
(* then sends a copy to the IPC client.  Either relay's end cancels the    *)
(* other's.  The watcher replaces the global Recording at any time.        *)
(*                                                                         *)
(* A relay is named by its direction; the n-th piece it reads is piece n,  *)
(* and what a peer wrote before it went may still be read.  A write        *)
(* that failed may have passed on part of its piece.                       *)
(* Recording objects are numbered as SetRecording makes them; the first    *)
(* one is off (Start), and each is the opposite of the one before.         *)
(***************************************************************************)
EXTENDS Integers, Sequences

CONSTANTS
    MaxPieces,     \* bound on the pieces read from the two peers
    MaxRecordings  \* bound on the Recording objects

ASSUME ConnectionAssumption ==
    /\ MaxPieces \in Nat
    /\ MaxRecordings \in Nat \ {0}

VARIABLES
    peerUp,     \* the peer has its end of the connection open
    piece,      \* pieces a relay has read: the last one is in its hand
    relay,      \* relay goroutine: "none", "check", "read", "write", "decide",
                \* "fetch", "record", "send", "exited"
    held,       \* the Recording a relay fetched
    handler,    \* handleConnection: "accepted", "start", "wait", "close",
                \* "release", "done"
    open,       \* the Proxy's own sockets, by peer
    cancelled,  \* the connection's context is cancelled
    ctxDone,    \* main's context is cancelled
    ended,      \* the process has ended
    recording,  \* globalRecording
    frames,     \* frames given to the IPC client, in order
    lines       \* lines written to recording files, in order

relays  == <<piece, relay, held>>
own     == <<handler, open>>
control == <<ctxDone, ended>>
vars    == <<peerUp, piece, relay, held, handler, open, cancelled,
             ctxDone, ended, recording, frames, lines>>

Direction == {"c2s", "s2c"}
Peer      == {"client", "server"}
Piece     == 1 .. MaxPieces
Object    == 1 .. MaxRecordings

Source(d) == IF d = "c2s" THEN "client" ELSE "server"
Dest(d)   == IF d = "c2s" THEN "server" ELSE "client"

\* The status of Recording r.
IsRecording(r) == r % 2 = 0

OpenFrame  == [type |-> "open"]
CloseFrame == [type |-> "close"]
DataFrame(d, n) == [type |-> "data", dir |-> d, piece |-> n]

Init ==
    /\ peerUp = [p \in Peer |-> TRUE]
    /\ piece = [d \in Direction |-> 0]
    /\ relay = [d \in Direction |-> "none"]
    /\ held = [d \in Direction |-> 1]
    /\ handler = "accepted"
    /\ open = [p \in Peer |-> p = "client"]
    /\ cancelled = FALSE /\ ctxDone = FALSE /\ ended = FALSE
    /\ recording = 1
    /\ frames = <<>> /\ lines = <<>>

\* The bound on what the peers write.
Unread == piece["c2s"] + piece["s2c"] < MaxPieces

Goto(d, to) == relay' = [relay EXCEPT ![d] = to]
Emit(f)     == frames' = Append(frames, f)
-----------------------------------------------------------------------------
(* Plausible slips in the steps below, one per comment.  No specification  *)
(* uses them; each property is checked to fail when one of them stands for *)
(* the step it varies.                                                     *)

\* The copy is sent before the piece is forwarded.
CopyThenForward(d) ==
    /\ ~ended /\ relay[d] = "read" /\ Unread
    /\ piece' = [piece EXCEPT ![d] = @ + 1]
    /\ Emit(DataFrame(d, piece[d] + 1))
    /\ Goto(d, "write")
    /\ UNCHANGED <<peerUp, held, own, cancelled, control, recording, lines>>

\* Wait returns with the first relay.
WaitForOne ==
    /\ ~ended /\ handler = "wait" /\ \E d \in Direction : relay[d] = "exited"
    /\ handler' = "close"
    /\ UNCHANGED <<peerUp, relays, open, cancelled, control, recording, frames, lines>>

\* A relay returns without its deferred cancel.
LeaveQuietly(d) ==
    /\ Goto(d, "exited")
    /\ UNCHANGED cancelled

\* A chunk is recorded under the number of the next one.
LineOffByOne(d) ==
    /\ ~ended /\ relay[d] = "record"
    /\ lines' = Append(lines, [file |-> held[d], dir |-> d, piece |-> piece[d] + 1])
    /\ Goto(d, "send")
    /\ UNCHANGED <<peerUp, piece, held, own, cancelled, control, recording, frames>>
-----------------------------------------------------------------------------
(* The game's client and server: either may go at any time.                *)

PeerGoes(p) ==
    /\ peerUp[p] /\ open[p]
    /\ peerUp' = [peerUp EXCEPT ![p] = FALSE]
    /\ UNCHANGED <<relays, own, cancelled, control, recording, frames, lines>>
-----------------------------------------------------------------------------
(* handleConnection.                                                       *)

\* getOriginalDest or the dial fails: the client is disconnected.
DialFails ==
    /\ ~ended /\ handler = "accepted"
    /\ open' = [open EXCEPT !["client"] = FALSE]
    /\ handler' = "done"
    /\ UNCHANGED <<peerUp, relays, cancelled, control, recording, frames, lines>>

DialOk ==
    /\ ~ended /\ handler = "accepted"
    /\ open' = [open EXCEPT !["server"] = TRUE]
    /\ handler' = "start"
    /\ UNCHANGED <<peerUp, relays, cancelled, control, recording, frames, lines>>

\* Start: the OPEN frame, then the relays.
Start ==
    /\ ~ended /\ handler = "start"
    /\ Emit(OpenFrame)
    /\ relay' = [d \in Direction |-> "check"]
    /\ handler' = "wait"
    /\ UNCHANGED <<peerUp, piece, held, open, cancelled, control, recording, lines>>

\* Wait returns.
Wait ==
    /\ ~ended /\ handler = "wait" /\ \A d \in Direction : relay[d] = "exited"
    /\ handler' = "close"
    /\ UNCHANGED <<peerUp, relays, open, cancelled, control, recording, frames, lines>>

\* Close: the CLOSE frame ...
SendClose ==
    /\ ~ended /\ handler = "close"
    /\ Emit(CloseFrame)
    /\ handler' = "release"
    /\ UNCHANGED <<peerUp, relays, open, cancelled, control, recording, lines>>

\* ... then the context, the sockets and a flush of the current recording.
Release ==
    /\ ~ended /\ handler = "release"
    /\ cancelled' = TRUE
    /\ open' = [p \in Peer |-> FALSE]
    /\ handler' = "done"
    /\ UNCHANGED <<peerUp, relays, control, recording, frames, lines>>

Handler == DialFails \/ DialOk \/ Start \/ Wait \/ SendClose \/ Release
-----------------------------------------------------------------------------
(* relay.                                                                  *)

\* relay returns: its deferred cancel and wg.Done.
Leave(d) ==
    /\ Goto(d, "exited")
    /\ cancelled' = TRUE

Check(d) ==
    /\ ~ended /\ relay[d] = "check"
    /\ IF cancelled \/ ctxDone
          THEN Leave(d)
          ELSE Goto(d, "read") /\ UNCHANGED cancelled
    /\ UNCHANGED <<peerUp, piece, held, own, control, recording, frames, lines>>

\* The read deadline of 100 ms passed.
ReadTimeout(d) ==
    /\ ~ended /\ relay[d] = "read"
    /\ Goto(d, "check")
    /\ UNCHANGED <<peerUp, piece, held, own, cancelled, control, recording, frames, lines>>

Read(d) ==
    /\ ~ended /\ relay[d] = "read" /\ Unread
    /\ piece' = [piece EXCEPT ![d] = @ + 1]
    /\ Goto(d, "write")
    /\ UNCHANGED <<peerUp, held, own, cancelled, control, recording, frames, lines>>

\* The source is gone; a reset discards what was not read.
ReadFails(d) ==
    /\ ~ended /\ relay[d] = "read" /\ ~peerUp[Source(d)]
    /\ Leave(d)
    /\ UNCHANGED <<peerUp, piece, held, own, control, recording, frames, lines>>

\* The kernel takes the piece; it may wait for the peer to read, for ever.
WriteOk(d) ==
    /\ ~ended /\ relay[d] = "write"
    /\ Goto(d, "decide")
    /\ UNCHANGED <<peerUp, piece, held, own, cancelled, control, recording, frames, lines>>

WriteFails(d) ==
    /\ ~ended /\ relay[d] = "write" /\ ~peerUp[Dest(d)]
    /\ Leave(d)
    /\ UNCHANGED <<peerUp, piece, held, own, control, recording, frames, lines>>

\* IsRecording reads the global Recording ...
Decide(d) ==
    /\ ~ended /\ relay[d] = "decide"
    /\ Goto(d, IF IsRecording(recording) THEN "fetch" ELSE "send")
    /\ UNCHANGED <<peerUp, piece, held, own, cancelled, control, recording, frames, lines>>

\* ... and recordRawChunkToFile reads it again.
Fetch(d) ==
    /\ ~ended /\ relay[d] = "fetch"
    /\ held' = [held EXCEPT ![d] = recording]
    /\ Goto(d, "record")
    /\ UNCHANGED <<peerUp, piece, own, cancelled, control, recording, frames, lines>>

\* Under its mutex: the file is created if there is none, and a line written.
Record(d) ==
    /\ ~ended /\ relay[d] = "record"
    /\ lines' = Append(lines, [file |-> held[d], dir |-> d, piece |-> piece[d]])
    /\ Goto(d, "send")
    /\ UNCHANGED <<peerUp, piece, held, own, cancelled, control, recording, frames>>

\* createRecordFile fails.
RecordFails(d) ==
    /\ ~ended /\ relay[d] = "record"
    /\ \A i \in 1 .. Len(lines) : lines[i].file # held[d]
    /\ Goto(d, "send")
    /\ UNCHANGED <<peerUp, piece, held, own, cancelled, control, recording, frames, lines>>

Send(d) ==
    /\ ~ended /\ relay[d] = "send"
    /\ Emit(DataFrame(d, piece[d]))
    /\ Goto(d, "check")
    /\ UNCHANGED <<peerUp, piece, held, own, cancelled, control, recording, lines>>

Relay(d) ==
    \/ Check(d)
    \/ ReadTimeout(d) \/ Read(d) \/ ReadFails(d)
    \/ WriteOk(d) \/ WriteFails(d)
    \/ Decide(d) \/ Fetch(d) \/ Record(d) \/ RecordFails(d)
    \/ Send(d)
-----------------------------------------------------------------------------
(* The watcher and main.                                                   *)

\* The flag file and the status differ: SetRecording makes a new Recording.
SetRecording ==
    /\ ~ended /\ recording < MaxRecordings
    /\ recording' = recording + 1
    /\ UNCHANGED <<peerUp, relays, own, cancelled, control, frames, lines>>

Signal ==
    /\ ~ctxDone
    /\ ctxDone' = TRUE
    /\ UNCHANGED <<peerUp, relays, own, cancelled, ended, recording, frames, lines>>

\* main returns without waiting for its connections.
Exit ==
    /\ ctxDone /\ ~ended
    /\ ended' = TRUE
    /\ UNCHANGED <<peerUp, relays, own, cancelled, ctxDone, recording, frames, lines>>
-----------------------------------------------------------------------------
Next ==
    \/ \E d \in Direction : Relay(d)
    \/ \E p \in Peer : PeerGoes(p)
    \/ Handler
    \/ SetRecording \/ Signal \/ Exit

Spec == Init /\ [][Next]_vars

(* The Proxy's goroutines run.  Reads from a peer that has gone fail in    *)
(* the end, whatever times out before (SF), and so does a write to it; a   *)
(* write to a peer that is there need not return, nor one of them write.   *)
Fairness ==
    /\ WF_vars(Handler)
    /\ \A d \in Direction :
          /\ WF_vars(Check(d)) /\ WF_vars(ReadTimeout(d))
          /\ SF_vars(ReadFails(d))
          /\ WF_vars(WriteFails(d))
          /\ WF_vars(Decide(d)) /\ WF_vars(Fetch(d)) /\ WF_vars(Record(d))
          /\ WF_vars(Send(d))

FairSpec == Spec /\ Fairness
-----------------------------------------------------------------------------
(* Properties.                                                             *)

Frames == {OpenFrame, CloseFrame} \cup {DataFrame(d, n) : d \in Direction, n \in Piece}
Line   == [file : Object, dir : Direction, piece : Piece]

TypeOK ==
    /\ peerUp \in [Peer -> BOOLEAN] /\ open \in [Peer -> BOOLEAN]
    /\ piece \in [Direction -> 0 .. MaxPieces]
    /\ relay \in [Direction -> {"none", "check", "read", "write", "decide", "fetch",
                                "record", "send", "exited"}]
    /\ \A d \in Direction :
          relay[d] \in {"write", "decide", "fetch", "record", "send"} => piece[d] > 0
    /\ held \in [Direction -> Object] /\ recording \in Object
    /\ handler \in {"accepted", "start", "wait", "close", "release", "done"}
    /\ cancelled \in BOOLEAN /\ ctxDone \in BOOLEAN /\ ended \in BOOLEAN
    /\ frames \in Seq(Frames)
    /\ lines \in Seq(Line)

(* The frames of a connection are given to the IPC client as OPEN, data,   *)
(* CLOSE: nothing before the OPEN frame or after the CLOSE frame, whichever*)
(* relay ends first and whatever the other is doing then.  (The client's   *)
(* ring may drop some of them.)  The processor's map of workers relies on  *)
(* it: data after CLOSE would create a worker that nothing closes.         *)
Bracketed ==
    \A i \in 1 .. Len(frames) :
        /\ frames[i] = OpenFrame <=> i = 1
        /\ frames[i] = CloseFrame => i = Len(frames) /\ handler \in {"release", "done"}

\* Piece n of direction d has been written to its destination in full.
Forwarded(d, n) ==
    n < piece[d] \/ (n = piece[d] /\ relay[d] \notin {"write", "exited"})

Copied(d, n) == \E i \in 1 .. Len(frames) : frames[i] = DataFrame(d, n)

(* The Analyzer gets every piece that was forwarded, in order and once,    *)
(* and nothing that was not; recorded lines, too, are of forwarded pieces, *)
(* in order, in files used one after the other.                            *)
CopyIsStream ==
    \A d \in Direction :
        /\ \A n \in 1 .. piece[d] :
              Copied(d, n) \/ (n = piece[d] /\ relay[d] \in
                {"write", "decide", "fetch", "record", "send", "exited"})
        /\ \A i, j \in 1 .. Len(frames) : \A m, n \in Piece :
              i < j /\ frames[i] = DataFrame(d, m) /\ frames[j] = DataFrame(d, n) => m < n
        /\ \A n \in Piece : Copied(d, n) =>
              n < piece[d] \/ (n = piece[d] /\ relay[d] \in {"check", "read", "exited"})
        /\ \A i, j \in 1 .. Len(lines) :
              i < j /\ lines[i].dir = d /\ lines[j].dir = d =>
                  lines[i].piece < lines[j].piece /\ lines[i].file <= lines[j].file
        /\ \A i \in 1 .. Len(lines) : lines[i].dir = d =>
              lines[i].piece < piece[d] \/
              (lines[i].piece = piece[d] /\ relay[d] \in {"check", "read", "send", "exited"})

(* When a peer goes, the whole connection goes: the other relay ends, the  *)
(* CLOSE frame is sent and both sockets are closed, unless a relay is      *)
(* stuck for ever in a write to a peer that does not read.                 *)
EndsTogether ==
    (\E p \in Peer : ~peerUp[p]) ~>
        \/ handler = "done" /\ \A p \in Peer : ~open[p]
        \/ ended
        \/ [](\E d \in Direction : relay[d] = "write")
=============================================================================
