----------------------------- MODULE FrameQueue -----------------------------
(***************************************************************************)
(* What the IPC client promises the relays: a bounded queue of frames that *)
(* drops its oldest entry when full, hands frames out one at a time in     *)
(* order, and takes back the one it handed out when it was not delivered.  *)
(*                                                                         *)
(* Taking a frame back into a queue that filled up meanwhile voids the     *)
(* promise (variable void): nothing is said of what happens after that.    *)
(***************************************************************************)
EXTENDS Integers, Sequences

CONSTANT Capacity

VARIABLES
    queue,      \* frames waiting, oldest first
    held,       \* the frame being delivered, or None
    delivered,  \* frames delivered, in order
    fresh,      \* the next frame
    void        \* the promise no longer holds

vars == <<queue, held, delivered, fresh, void>>

None == 0

Init ==
    /\ queue = <<>> /\ held = None /\ delivered = <<>>
    /\ fresh = 1
    /\ void = FALSE

Put ==
    /\ queue' = Append(IF Len(queue) = Capacity THEN Tail(queue) ELSE queue, fresh)
    /\ fresh' = fresh + 1
    /\ UNCHANGED <<held, delivered, void>>

Take ==
    /\ held = None /\ queue # <<>>
    /\ held' = Head(queue)
    /\ queue' = Tail(queue)
    /\ UNCHANGED <<delivered, fresh, void>>

Deliver ==
    /\ held # None
    /\ delivered' = Append(delivered, held)
    /\ held' = None
    /\ UNCHANGED <<queue, fresh, void>>

TakeBack ==
    /\ held # None /\ Len(queue) < Capacity
    /\ queue' = <<held>> \o queue
    /\ held' = None
    /\ UNCHANGED <<delivered, fresh, void>>

\* The one step that voids the promise.
TakeBackWhenFull ==
    /\ held # None /\ Len(queue) = Capacity
    /\ void'

Next ==
    \/ ~void /\ (Put \/ Take \/ Deliver \/ TakeBack \/ TakeBackWhenFull)
    \/ void /\ void'

Spec == Init /\ [][Next]_vars
=============================================================================
