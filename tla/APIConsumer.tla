---------------------------- MODULE APIConsumer ----------------------------
(***************************************************************************)
(* The queue of reports and its one consumer, internal/common/api.go.      *)
(*                                                                         *)
(* Any goroutine pushes; consumeLoop pops one request after another and    *)
(* posts it.  An answer outside 2xx counts as a refusal and sends the      *)
(* request to the back of the queue; a request without an answer is posted *)
(* again at once, without counting.  What the API did with a request that  *)
(* it did not answer is unknown: it may have taken it.                     *)
(*                                                                         *)
(* An APIRequest is [id, retries]; its endpoint and payload are left out.  *)
(* pushed, copies, unanswered, delivered and abandoned are history         *)
(* variables: nothing that runs reads them.                                *)
(***************************************************************************)
EXTENDS Integers, Sequences, FiniteSets

CONSTANTS
    Requests,   \* names of the requests
    MaxRetries, \* refusals after which a request is dropped (100 in the code)
    NoRequest

APIRequest == [id : Requests, retries : 0 .. MaxRetries]

ASSUME APIAssumption == MaxRetries \in Nat /\ NoRequest \notin APIRequest

VARIABLES
    items,      \* the queue
    hand,       \* the request sendRequest works on, or NoRequest
    pushed,     \* requests that some goroutine pushed
    refusals,   \* refusals of each request
    copies,     \* how often the API took it: 0, 1, or 2 for more than once
    unanswered, \* requests that were posted without an answer
    delivered,  \* requests answered with 2xx
    abandoned   \* requests dropped by consumeLoop

api == <<items, hand, pushed, refusals, copies, unanswered, delivered, abandoned>>

APIInit ==
    /\ items = <<>> /\ hand = NoRequest /\ pushed = {}
    /\ refusals = [r \in Requests |-> 0] /\ copies = [r \in Requests |-> 0]
    /\ unanswered = {} /\ delivered = {} /\ abandoned = {}

Taken(r) == copies' = [copies EXCEPT ![r] = IF @ = 2 THEN 2 ELSE @ + 1]
-----------------------------------------------------------------------------
(* Plausible slips, one per comment.                                       *)

\* A full queue, of one place, makes room as the proxy's ring does.
PushDropsOldest(r) ==
    /\ items' = <<[id |-> r, retries |-> 0]>>
    /\ pushed' = pushed \cup {r}
    /\ UNCHANGED <<hand, refusals, copies, unanswered, delivered, abandoned>>

\* A refusal is not counted.
RefusedUncounted ==
    /\ hand # NoRequest
    /\ items' = Append(items, hand)
    /\ hand' = NoRequest
    /\ UNCHANGED <<pushed, refusals, copies, unanswered, delivered, abandoned>>
-----------------------------------------------------------------------------
\* SendToAPIInternal: Push.
Push(r) ==
    /\ items' = Append(items, [id |-> r, retries |-> 0])
    /\ pushed' = pushed \cup {r}
    /\ UNCHANGED <<hand, refusals, copies, unanswered, delivered, abandoned>>

\* consumeLoop: Pop, and the check that gives a request up.
Pop ==
    /\ hand = NoRequest /\ items # <<>>
    /\ items' = Tail(items)
    /\ IF Head(items).retries >= MaxRetries
          THEN abandoned' = abandoned \cup {Head(items).id} /\ UNCHANGED hand
          ELSE hand' = Head(items) /\ UNCHANGED abandoned
    /\ UNCHANGED <<pushed, refusals, copies, unanswered, delivered>>

\* sendRequest: an answer in 2xx.
Accepted ==
    /\ hand # NoRequest
    /\ Taken(hand.id)
    /\ delivered' = delivered \cup {hand.id}
    /\ hand' = NoRequest
    /\ UNCHANGED <<items, pushed, refusals, unanswered, abandoned>>

\* Another answer: one retry more, and to the back of the queue.
Refused ==
    /\ hand # NoRequest
    /\ items' = Append(items, [hand EXCEPT !.retries = @ + 1])
    /\ refusals' = [refusals EXCEPT ![hand.id] = @ + 1]
    /\ hand' = NoRequest
    /\ UNCHANGED <<pushed, copies, unanswered, delivered, abandoned>>

\* No answer: a second later the loop posts the request again.
NoAnswer ==
    /\ hand # NoRequest
    /\ unanswered' = unanswered \cup {hand.id}
    /\ UNCHANGED copies \/ Taken(hand.id)
    /\ UNCHANGED <<items, hand, pushed, refusals, delivered, abandoned>>

Consumer == Pop \/ Accepted \/ Refused \/ NoAnswer

(* The consumer's goroutine runs.  That a request is answered some day is  *)
(* assumed of the API, not of the code, which posts for ever.              *)
ConsumerFairness == WF_api(Pop) /\ SF_api(Accepted \/ Refused)
-----------------------------------------------------------------------------
(* Properties.                                                             *)

APITypeOK ==
    /\ items \in Seq(APIRequest) /\ hand \in APIRequest \cup {NoRequest}
    /\ refusals \in [Requests -> 0 .. MaxRetries] /\ copies \in [Requests -> 0 .. 2]
    /\ pushed \subseteq Requests /\ unanswered \subseteq Requests
    /\ delivered \subseteq Requests /\ abandoned \subseteq Requests

\* Where a request is: its places in the queue, and the consumer's hand.
Waiting(r) ==
    Cardinality({i \in DOMAIN items : items[i].id = r})
        + IF hand # NoRequest /\ hand.id = r THEN 1 ELSE 0
Pending(r) == Waiting(r) > 0
Settled(r) == r \in delivered \cup abandoned
=============================================================================
