--------------------------- MODULE ReportsProofs ---------------------------
(***************************************************************************)
(* Theorems about Reports, for every number of packets, of connections, of *)
(* characters and of retries: what happens to a report, and what the table *)
(* of maps says of a connection.                                           *)
(***************************************************************************)
EXTENDS Reports, SequenceTheorems, FiniteSetTheorems, WellFoundedInduction, TLAPS

\* The packets at work are numbered, each once.
Numbered ==
    /\ frames \in 0 .. MaxFrames
    /\ \A h \in running : "n" \in DOMAIN h /\ h.n \in 1 .. frames
    /\ \A g, h \in running : g.n = h.n => g = h

\* Where a request is.
queued  == {items[i].id : i \in 1 .. Len(items)}
held    == IF hand = NoRequest THEN {} ELSE {hand.id}
settled == delivered \cup abandoned
met     == queued \cup held \cup settled

\* A request not settled is in one place, with the refusals it met.
OnePlace ==
    /\ \A i, j \in 1 .. Len(items) : items[i].id = items[j].id => i = j
    /\ \A i \in 1 .. Len(items) : items[i].retries = refusals[items[i].id]
    /\ hand # NoRequest => hand.retries = refusals[hand.id] /\ hand.retries < MaxRetries
    /\ queued \cap held = {} /\ (queued \cup held) \cap settled = {}

\* What is known of a request says where it went.
Traced ==
    \A r \in Requests :
        /\ refusals[r] > 0 \/ r \in unanswered \/ copies[r] > 0 => r \in met
        /\ r \in abandoned => refusals[r] = MaxRetries /\ r \notin delivered
        /\ r \in delivered => copies[r] > 0
        /\ copies[r] > 0 => r \in delivered \cup unanswered
        /\ copies[r] > 1 => r \in unanswered

\* A request is named by its packet: none is met before its handler pushed it.
Unmet == \A r \in met : r <= frames /\ \A h \in running : h.n # r

APIInv == APITypeOK /\ OnePlace /\ Traced

\* What was pushed is somewhere, and nothing else is.
Lossless == pushed = met
-----------------------------------------------------------------------------
(* The queue.                                                              *)

LEMMA TailFacts ==
    ASSUME NEW S, NEW q \in Seq(S), q # <<>>
    PROVE  /\ Tail(q) \in Seq(S) /\ Head(q) \in S /\ Head(q) = q[1]
           /\ Len(q) \in Nat \ {0} /\ Len(Tail(q)) = Len(q) - 1
           /\ \A i \in 1 .. Len(Tail(q)) : Tail(q)[i] = q[i + 1]
           /\ \A i \in 1 .. Len(q) : q[i] \in S
BY HeadTailProperties, LenProperties, ElementOfSeq

LEMMA AppendFacts ==
    ASSUME NEW S, NEW q \in Seq(S), NEW x \in S
    PROVE  /\ Append(q, x) \in Seq(S) /\ Len(q) \in Nat
           /\ Len(Append(q, x)) = Len(q) + 1
           /\ \A i \in 1 .. Len(q) : Append(q, x)[i] = q[i] /\ q[i] \in S
           /\ Append(q, x)[Len(q) + 1] = x
BY AppendProperties, LenProperties, ElementOfSeq

LEMMA RequestType ==
    ASSUME APITypeOK
    PROVE  /\ \A i \in 1 .. Len(items) : /\ items[i] \in APIRequest
                                         /\ items[i].id \in Requests
                                         /\ items[i].retries \in 0 .. MaxRetries
           /\ hand # NoRequest => /\ hand \in APIRequest /\ hand.id \in Requests
                                  /\ hand.retries \in 0 .. MaxRetries
<1>1. \A i \in 1 .. Len(items) : items[i] \in APIRequest
    BY ElementOfSeq DEF APITypeOK
<1>2. QED
    BY <1>1 DEF APITypeOK, APIRequest

\* A request enters the queue, from a handler or from the consumer's hand.
LEMMA Enqueued ==
    ASSUME APITypeOK, OnePlace, NEW x \in APIRequest, items' = Append(items, x),
           refusals' \in [Requests -> 0 .. MaxRetries], x.retries = refusals'[x.id],
           \A r \in Requests : r # x.id => refusals'[r] = refusals[r],
           (hand' = hand /\ x.id \notin held) \/ hand' = NoRequest,
           x.id \notin queued \cup settled, UNCHANGED <<delivered, abandoned>>
    PROVE  OnePlace' /\ items' \in Seq(APIRequest) /\ queued' = queued \cup {x.id}
<1>1. items \in Seq(APIRequest) /\ x.id \in Requests
    BY DEF APITypeOK, APIRequest
<1>2. /\ items' \in Seq(APIRequest) /\ Len(items) \in Nat /\ Len(items') = Len(items) + 1
      /\ \A i \in 1 .. Len(items) : items'[i] = items[i]
      /\ items'[Len(items) + 1] = x
    BY <1>1, AppendFacts
<1>3. \A i \in 1 .. Len(items') : i \in 1 .. Len(items) \/ i = Len(items) + 1
    BY <1>2
<1>4. \A i \in 1 .. Len(items) : items[i].id \in Requests /\ items[i].id # x.id
    BY RequestType DEF queued
<1>5. queued' = queued \cup {x.id}
    <2>1. 1 .. Len(items') = (1 .. Len(items)) \cup {Len(items) + 1}
        BY <1>2
    <2>2. QED
        BY <1>2, <2>1 DEF queued
<1>6. settled' = settled /\ held' \subseteq held /\ x.id \notin held'
    BY DEF settled, held
<1>7. ASSUME NEW i \in 1 .. Len(items'), NEW j \in 1 .. Len(items'),
             items'[i].id = items'[j].id
      PROVE  i = j
    BY <1>2, <1>3, <1>4, <1>7 DEF OnePlace
<1>8. ASSUME NEW i \in 1 .. Len(items')
      PROVE  items'[i].retries = refusals'[items'[i].id]
    BY <1>2, <1>3, <1>4 DEF OnePlace
<1>9. hand' # NoRequest => hand'.retries = refusals'[hand'.id] /\ hand'.retries < MaxRetries
    BY RequestType DEF OnePlace, held
<1>10. queued' \cap held' = {} /\ (queued' \cup held') \cap settled' = {}
    BY <1>5, <1>6 DEF OnePlace
<1>11. QED
    BY <1>2, <1>5, <1>7, <1>8, <1>9, <1>10 DEF OnePlace

\* The first request leaves the queue.
LEMMA Dequeued ==
    ASSUME APITypeOK, OnePlace, items # <<>>, items' = Tail(items), UNCHANGED refusals
    PROVE  /\ items' \in Seq(APIRequest) /\ Head(items) \in APIRequest
           /\ Head(items).id \in Requests /\ Head(items).retries \in 0 .. MaxRetries
           /\ Head(items).retries = refusals[Head(items).id]
           /\ queued = queued' \cup {Head(items).id} /\ Head(items).id \notin queued'
           /\ \A i, j \in 1 .. Len(items') : items'[i].id = items'[j].id => i = j
           /\ \A i \in 1 .. Len(items') : items'[i].retries = refusals'[items'[i].id]
<1>1. items \in Seq(APIRequest)
    BY DEF APITypeOK
<1>2. /\ items' \in Seq(APIRequest) /\ Head(items) \in APIRequest /\ Head(items) = items[1]
      /\ Len(items) \in Nat \ {0} /\ Len(items') = Len(items) - 1
      /\ \A i \in 1 .. Len(items') : items'[i] = items[i + 1]
    BY <1>1, TailFacts
<1>3. 1 \in 1 .. Len(items) /\ \A i \in 1 .. Len(items') : i + 1 \in 1 .. Len(items)
    BY <1>2
<1>4. /\ Head(items).id \in Requests /\ Head(items).retries \in 0 .. MaxRetries
      /\ Head(items).retries = refusals[Head(items).id]
    BY <1>2, <1>3, RequestType DEF OnePlace
<1>5. queued = queued' \cup {Head(items).id}
    <2>1. ASSUME NEW i \in 1 .. Len(items) PROVE items[i].id \in queued' \cup {Head(items).id}
        <3>1. CASE i = 1
            BY <1>2, <3>1
        <3>2. CASE i # 1
            <4>1. i - 1 \in 1 .. Len(items') /\ items'[i - 1] = items[i]
                BY <1>2, <3>2
            <4>2. QED
                BY <4>1 DEF queued
        <3>3. QED
            BY <3>1, <3>2
    <2>2. ASSUME NEW i \in 1 .. Len(items') PROVE items'[i].id \in queued
        BY <1>2, <1>3 DEF queued
    <2>3. Head(items).id \in queued
        BY <1>2, <1>3 DEF queued
    <2>4. QED
        BY <2>1, <2>2, <2>3 DEF queued
<1>6. Head(items).id \notin queued'
    <2> SUFFICES ASSUME NEW i \in 1 .. Len(items'), items'[i].id = Head(items).id
                 PROVE  FALSE
        BY DEF queued
    <2>1. items[i + 1].id = items[1].id
        BY <1>2
    <2>2. i + 1 = 1
        BY <1>3, <2>1 DEF OnePlace
    <2>3. QED
        BY <1>2, <2>2
<1>7. ASSUME NEW i \in 1 .. Len(items'), NEW j \in 1 .. Len(items'),
             items'[i].id = items'[j].id
      PROVE  i = j
    <2>1. i + 1 = j + 1
        BY <1>2, <1>3, <1>7 DEF OnePlace
    <2>2. QED
        BY <1>2, <2>1
<1>8. ASSUME NEW i \in 1 .. Len(items')
      PROVE  items'[i].retries = refusals'[items'[i].id]
    BY <1>2, <1>3 DEF OnePlace
<1>9. QED
    BY <1>2, <1>4, <1>5, <1>6, <1>7, <1>8

LEMMA PushStep ==
    ASSUME APIInv, NEW r \in Requests, r \notin met, Push(r)
    PROVE  APIInv' /\ met' = met \cup {r} /\ pushed' = pushed \cup {r}
<1> DEFINE x == [id |-> r, retries |-> 0]
<1>1. MaxRetries \in Nat
    BY APIAssumption
<1>2. x \in APIRequest /\ x.id = r /\ x.retries = 0
    BY <1>1 DEF APIRequest
<1>3. refusals \in [Requests -> 0 .. MaxRetries]
    BY DEF APIInv, APITypeOK
<1>4. refusals[r] = 0
    BY <1>1, <1>3 DEF APIInv, Traced
<1>5. /\ items' = Append(items, x) /\ pushed' = pushed \cup {r}
      /\ UNCHANGED <<hand, refusals, copies, unanswered, delivered, abandoned>>
    BY DEF Push
<1>6. OnePlace' /\ items' \in Seq(APIRequest) /\ queued' = queued \cup {r}
    <2>1. r \notin held /\ r \notin queued \cup settled
        BY DEF met
    <2>2. APITypeOK /\ OnePlace
        BY DEF APIInv
    <2> HIDE DEF x
    <2>3. QED
        BY <1>2, <1>3, <1>4, <1>5, <2>1, <2>2, Enqueued
<1>7. met' = met \cup {r}
    BY <1>5, <1>6 DEF met, held, settled
<1>8. QED
    BY <1>5, <1>6, <1>7 DEF APIInv, APITypeOK, Traced

LEMMA PopStep == ASSUME APIInv, Pop PROVE APIInv' /\ UNCHANGED <<met, pushed>>
<1> DEFINE h == Head(items)
<1>1. /\ APITypeOK /\ OnePlace /\ hand = NoRequest /\ items # <<>> /\ items' = Tail(items)
      /\ UNCHANGED <<pushed, refusals, copies, unanswered, delivered>>
    BY DEF APIInv, Pop
<1>2. /\ items' \in Seq(APIRequest) /\ h \in APIRequest
      /\ h.id \in Requests /\ h.retries \in 0 .. MaxRetries
      /\ h.retries = refusals[h.id]
      /\ queued = queued' \cup {h.id} /\ h.id \notin queued'
      /\ \A i, j \in 1 .. Len(items') : items'[i].id = items'[j].id => i = j
      /\ \A i \in 1 .. Len(items') : items'[i].retries = refusals'[items'[i].id]
    BY <1>1, Dequeued
<1>3. held = {} /\ queued \cap settled = {}
    BY <1>1 DEF held, OnePlace
<1>4. h # NoRequest /\ MaxRetries \in Nat
    BY <1>2, APIAssumption
<1>5. CASE h.retries >= MaxRetries
    <2>1. abandoned' = abandoned \cup {h.id} /\ hand' = hand
        BY <1>5 DEF Pop
    <2>2. held' = {} /\ settled' = settled \cup {h.id}
        BY <1>1, <2>1 DEF held, settled
    <2>3. met' = met
        BY <1>2, <1>3, <2>2 DEF met
    <2>4. OnePlace'
        BY <1>1, <1>2, <1>3, <2>1, <2>2 DEF OnePlace
    <2>5. h.id \notin delivered /\ refusals[h.id] = MaxRetries
        BY <1>2, <1>3, <1>4, <1>5 DEF settled
    <2>6. Traced'
        BY <1>1, <2>1, <2>3, <2>5 DEF APIInv, Traced
    <2>7. QED
        BY <1>1, <1>2, <2>1, <2>3, <2>4, <2>6 DEF APIInv, APITypeOK
<1>6. CASE ~(h.retries >= MaxRetries)
    <2>1. hand' = h /\ abandoned' = abandoned
        BY <1>6 DEF Pop
    <2>2. held' = {h.id} /\ settled' = settled
        BY <1>1, <1>4, <2>1 DEF held, settled
    <2>3. met' = met
        BY <1>2, <1>3, <2>2 DEF met
    <2>4. OnePlace'
        BY <1>1, <1>2, <1>3, <1>4, <1>6, <2>1, <2>2 DEF OnePlace
    <2>5. Traced'
        BY <1>1, <2>1, <2>3 DEF APIInv, Traced
    <2>6. QED
        BY <1>1, <1>2, <2>1, <2>3, <2>4, <2>5 DEF APIInv, APITypeOK
<1>7. QED
    BY <1>5, <1>6

LEMMA AnswerStep ==
    ASSUME APIInv, Accepted \/ Refused \/ NoAnswer
    PROVE  APIInv' /\ UNCHANGED <<met, pushed>>
<1> DEFINE r == hand.id
<1>1. /\ APITypeOK /\ OnePlace /\ hand # NoRequest /\ hand \in APIRequest /\ r \in Requests
      /\ hand.retries \in 0 .. MaxRetries /\ hand.retries = refusals[r]
      /\ hand.retries < MaxRetries /\ MaxRetries \in Nat
    BY RequestType, APIAssumption DEF APIInv, OnePlace, Accepted, Refused, NoAnswer
<1>2. held = {r} /\ r \notin queued /\ r \notin settled /\ r \in met
    BY <1>1 DEF held, OnePlace, met
<1>3. /\ copies \in [Requests -> 0 .. 2]
      /\ Taken(r) => /\ copies' \in [Requests -> 0 .. 2] /\ copies'[r] > 0
                     /\ copies'[r] > 1 => copies[r] > 0
                     /\ \A q \in Requests : q # r => copies'[q] = copies[q]
    <2>1. copies \in [Requests -> 0 .. 2] /\ r \in Requests
        BY <1>1 DEF APITypeOK
    <2> HIDE DEF r
    <2>2. ASSUME Taken(r)
          PROVE  /\ copies' \in [Requests -> 0 .. 2] /\ copies'[r] > 0
                 /\ copies'[r] > 1 => copies[r] > 0
                 /\ \A q \in Requests : q # r => copies'[q] = copies[q]
        <3>1. copies' = [copies EXCEPT ![r] = IF copies[r] = 2 THEN 2 ELSE copies[r] + 1]
            BY <2>2 DEF Taken
        <3>2. copies[r] \in 0 .. 2 /\ (IF copies[r] = 2 THEN 2 ELSE copies[r] + 1) \in 1 .. 2
            BY <2>1
        <3>3. copies'[r] = IF copies[r] = 2 THEN 2 ELSE copies[r] + 1
            BY <2>1, <3>1
        <3>4. copies' \in [Requests -> 0 .. 2]
            BY <2>1, <3>1, <3>2
        <3>5. \A q \in Requests : q # r => copies'[q] = copies[q]
            BY <2>1, <3>1
        <3>6. QED
            BY <3>2, <3>3, <3>4, <3>5
    <2>3. QED
        BY <2>1, <2>2
<1>4. CASE Accepted
    <2>1. /\ Taken(r) /\ delivered' = delivered \cup {r} /\ hand' = NoRequest
          /\ UNCHANGED <<items, pushed, refusals, unanswered, abandoned>>
        BY <1>4 DEF Accepted
    <2>2. held' = {} /\ queued' = queued /\ settled' = settled \cup {r}
        BY <2>1 DEF held, queued, settled
    <2>3. met' = met
        BY <1>2, <2>2 DEF met
    <2>4. OnePlace'
        BY <1>1, <1>2, <2>1, <2>2 DEF OnePlace
    <2>5. Traced'
        BY <1>2, <1>3, <2>1, <2>3 DEF APIInv, Traced, settled
    <2>6. QED
        BY <1>1, <1>3, <2>1, <2>3, <2>4, <2>5 DEF APIInv, APITypeOK
<1>5. CASE Refused
    <2> DEFINE x == [hand EXCEPT !.retries = @ + 1]
    <2>1. /\ items' = Append(items, x) /\ refusals' = [refusals EXCEPT ![r] = @ + 1]
          /\ hand' = NoRequest /\ UNCHANGED <<pushed, copies, unanswered, delivered, abandoned>>
        BY <1>5 DEF Refused
    <2>2. x \in APIRequest /\ x.id = r /\ x.retries = refusals[r] + 1
        BY <1>1 DEF APIRequest
    <2>3. /\ refusals' \in [Requests -> 0 .. MaxRetries] /\ refusals'[r] = refusals[r] + 1
          /\ \A q \in Requests : q # r => refusals'[q] = refusals[q]
        BY <1>1, <2>1 DEF APITypeOK
    <2>4. OnePlace' /\ items' \in Seq(APIRequest) /\ queued' = queued \cup {r}
        <3> HIDE DEF x
        <3>1. QED
            BY <1>1, <1>2, <2>1, <2>2, <2>3, Enqueued
    <2>5. held' = {} /\ settled' = settled
        BY <2>1 DEF held, settled
    <2>6. met' = met
        BY <1>2, <2>4, <2>5 DEF met
    <2>7. Traced'
        BY <1>2, <2>1, <2>3, <2>6 DEF APIInv, Traced, settled
    <2>8. QED
        BY <1>1, <2>1, <2>3, <2>4, <2>6, <2>7 DEF APIInv, APITypeOK
<1>6. CASE NoAnswer
    <2>1. /\ unanswered' = unanswered \cup {r}
          /\ UNCHANGED <<items, hand, pushed, refusals, delivered, abandoned>>
        BY <1>6 DEF NoAnswer
    <2>a. copies' = copies \/ Taken(r)
        BY <1>6 DEF NoAnswer
    <2>2. met' = met
        BY <2>1 DEF met, held, queued, settled
    <2>3. OnePlace'
        BY <2>1 DEF OnePlace, APIInv, held, queued, settled
    <2>4. Traced'
        <3>1. CASE copies' = copies
            BY <1>2, <2>1, <2>2, <3>1 DEF APIInv, Traced
        <3>2. CASE Taken(r)
            <4>1. \A q \in Requests : q # r => copies'[q] = copies[q]
                BY <1>3, <3>2
            <4>2. r \notin abandoned /\ r \notin delivered /\ r \in unanswered' /\ r \in met'
                BY <1>2, <2>1, <2>2 DEF settled
            <4>3. QED
                BY <2>1, <2>2, <4>1, <4>2 DEF APIInv, Traced
        <3>3. QED
            BY <2>a, <3>1, <3>2
    <2>5. copies' \in [Requests -> 0 .. 2]
        BY <1>3, <2>a
    <2>6. APITypeOK'
        BY <1>1, <2>1, <2>5 DEF APITypeOK
    <2>7. QED
        BY <2>1, <2>2, <2>3, <2>4, <2>6 DEF APIInv
<1>7. QED
    BY <1>4, <1>5, <1>6

LEMMA ConsumerKeeps == ASSUME APIInv, Consumer PROVE APIInv' /\ UNCHANGED <<met, pushed>>
BY PopStep, AnswerStep DEF Consumer
-----------------------------------------------------------------------------
(* The handlers.                                                           *)

IInv == APIInv /\ Lossless /\ Numbered /\ Unmet

LEMMA MetType == ASSUME APIInv PROVE met \subseteq Requests
BY RequestType DEF APIInv, APITypeOK, met, queued, held, settled

LEMMA ApiSame == ASSUME APIInv, UNCHANGED api PROVE APIInv' /\ UNCHANGED <<met, pushed>>
<1>1. UNCHANGED <<items, hand, pushed, refusals, copies, unanswered, delivered, abandoned>>
    BY DEF api
<1>2. UNCHANGED <<queued, held, settled, met>>
    BY <1>1 DEF queued, held, settled, met
<1>3. OnePlace'
    BY <1>1, <1>2 DEF APIInv, OnePlace
<1>4. Traced'
    BY <1>1, <1>2 DEF APIInv, Traced
<1>5. QED
    BY <1>1, <1>2, <1>3, <1>4 DEF APIInv, APITypeOK

\* Handlers end, frames come: the numbers stay.
LEMMA Fewer ==
    ASSUME IInv, APIInv', running' \subseteq running, frames' \in {frames, frames + 1},
           frames' \in 0 .. MaxFrames, UNCHANGED <<met, pushed>>
    PROVE  IInv'
<1>1. frames \in Nat /\ met \subseteq Requests /\ Requests \subseteq Nat
    BY MetType, ReportsAssumption DEF IInv, Numbered
<1>2. Numbered'
    BY <1>1 DEF IInv, Numbered
<1>3. Unmet'
    BY <1>1 DEF IInv, Unmet
<1>4. QED
    BY <1>2, <1>3 DEF IInv, Lossless

LEMMA ArriveStep ==
    ASSUME IInv, NEW kind, NEW c \in Conns, NEW ch, NEW map, NEW xy, NEW s,
           Arrive(kind, c, ch, map, xy, s)
    PROVE  IInv'
<1> DEFINE h == [n |-> frames + 1, kind |-> kind, stage |-> "start", conn |-> c,
                 char |-> ch, map |-> map, xy |-> xy, dest |-> s]
<1>1. /\ frames' = frames + 1 /\ frames < MaxFrames /\ running' = running \cup {h}
      /\ UNCHANGED api
    BY DEF Arrive
<1>2. /\ frames \in Nat /\ met \subseteq Requests /\ Requests \subseteq Nat
      /\ frames' \in 0 .. MaxFrames
    BY <1>1, MetType, ReportsAssumption DEF IInv, Numbered
<1>3. APIInv' /\ UNCHANGED <<met, pushed>>
    BY <1>1, ApiSame DEF IInv
<1>4. "n" \in DOMAIN h /\ h.n = frames + 1
    OBVIOUS
<1> HIDE DEF h
<1>5. Numbered'
    BY <1>1, <1>2, <1>4 DEF IInv, Numbered
<1>6. Unmet'
    BY <1>1, <1>2, <1>3, <1>4 DEF IInv, Unmet
<1>7. QED
    BY <1>3, <1>5, <1>6 DEF IInv, Lossless

LEMMA GoToStep ==
    ASSUME IInv, NEW h \in running, NEW stage, NEW map, GoTo(h, stage, map),
           UNCHANGED <<frames, api>>
    PROVE  IInv'
<1> DEFINE g == [h EXCEPT !.stage = stage, !.map = map]
<1>1. "n" \in DOMAIN g /\ g.n = h.n
    BY DEF IInv, Numbered
<1>2. running' = (running \ {h}) \cup {g}
    BY DEF GoTo
<1> HIDE DEF g
<1>3. APIInv' /\ UNCHANGED <<met, pushed>>
    BY ApiSame DEF IInv
<1>4. Numbered' /\ Unmet'
    BY <1>1, <1>2, <1>3 DEF IInv, Numbered, Unmet
<1>5. QED
    BY <1>3, <1>4 DEF IInv, Lossless

LEMMA FinishStep ==
    ASSUME IInv, NEW h \in running, Finish(h), UNCHANGED <<frames, api>>
    PROVE  IInv'
<1>1. running' \subseteq running /\ frames' \in 0 .. MaxFrames
    BY DEF Finish, IInv, Numbered
<1>2. QED
    BY <1>1, ApiSame, Fewer DEF IInv

LEMMA ReportingStep ==
    ASSUME IInv, NEW h \in running, NEW reports, Reporting(h, reports) PROVE IInv'
<1>1. Finish(h) /\ frames' = frames
    BY DEF Reporting
<1>2. CASE reports
    <2>1. Push(h.n)
        BY <1>2 DEF Reporting
    <2>2. h.n \in Requests /\ h.n \notin met
        BY ReportsAssumption DEF IInv, Numbered, Unmet
    <2>3. APIInv' /\ met' = met \cup {h.n} /\ pushed' = pushed \cup {h.n}
        BY <2>1, <2>2, PushStep DEF IInv
    <2>4. running' = running \ {h} /\ Numbered'
        BY <1>1 DEF Finish, IInv, Numbered
    <2>5. Unmet'
        BY <1>1, <2>3, <2>4 DEF IInv, Numbered, Unmet
    <2>6. QED
        BY <2>3, <2>4, <2>5 DEF IInv, Lossless
<1>3. CASE ~reports
    BY <1>1, <1>3, FinishStep DEF Reporting
<1>4. QED
    BY <1>2, <1>3

LEMMA DeserializeStep == ASSUME IInv, NEW h \in running, Deserialize(h) PROVE IInv'
<1>1. CASE CharIdAndMapStart(h) \/ MapChangedStart(h) \/ MapLoadedCoords(h)
    BY <1>1, GoToStep DEF CharIdAndMapStart, MapChangedStart, MapLoadedCoords, TableStep
<1>2. CASE CharIdAndMapResolved(h) \/ MapLogin(h) \/ MapChangedPending(h) \/ MapLoadedSet(h)
    BY <1>2, FinishStep
    DEF CharIdAndMapResolved, MapLogin, MapChangedPending, MapLoadedSet, TableStep
<1>3. CASE MapLoadedDestination(h)
    BY <1>3, GoToStep, FinishStep DEF MapLoadedDestination, TableStep
<1>4. CASE \/ VenderFound(h) \/ VenderItemsLists(h) \/ OfflineCloneFound(h) \/ ActorInfo(h)
           \/ SystemChat(h) \/ SpecialItemObtain(h) \/ UpgradeItemBroadcast(h)
           \/ CharEmblemUpdate(h) \/ ServersList(h)
    BY <1>4, ReportingStep
    DEF VenderFound, VenderItemsLists, OfflineCloneFound, ActorInfo, SystemChat,
        SpecialItemObtain, UpgradeItemBroadcast, CharEmblemUpdate, ServersList
<1>5. QED
    BY <1>1, <1>2, <1>3, <1>4 DEF Deserialize

LEMMA ReportsStep == IInv /\ [Next]_vars => IInv'
<1> SUFFICES ASSUME IInv, [Next]_vars PROVE IInv'
    OBVIOUS
<1>a. frames \in 0 .. MaxFrames /\ MaxFrames \in Nat
    BY ReportsAssumption DEF IInv, Numbered
<1>1. CASE Arrival
    BY <1>1, ArriveStep DEF Arrival, CharSelected, LoggedIn, Moved, Loaded, Seen
<1>2. CASE \E h \in running : Deserialize(h)
    BY <1>2, DeserializeStep
<1>3. CASE Processor
    <2>1. /\ running' = running /\ frames' \in {frames, frames + 1} /\ UNCHANGED api
          /\ frames' \in 0 .. MaxFrames
        BY <1>a, <1>3 DEF Processor, ConnOpened, ConnClosed, LinkLost
    <2>2. QED
        BY <2>1, ApiSame, Fewer DEF IInv
<1>4. CASE ConsumerStep
    <2>1. Consumer /\ UNCHANGED <<running, frames>>
        BY <1>4 DEF ConsumerStep
    <2>2. QED
        BY <1>a, <2>1, ConsumerKeeps, Fewer DEF IInv
<1>5. CASE UNCHANGED vars
    <2>1. UNCHANGED <<running, frames, api>>
        BY <1>5 DEF vars, api
    <2>2. QED
        BY <1>a, <2>1, ApiSame, Fewer DEF IInv
<1>6. QED
    BY <1>1, <1>2, <1>3, <1>4, <1>5 DEF Next

LEMMA ReportsInit == Init => IInv
<1> SUFFICES ASSUME Init PROVE IInv
    OBVIOUS
<1>1. /\ items = <<>> /\ hand = NoRequest /\ pushed = {} /\ running = {} /\ frames = 0
      /\ refusals = [r \in Requests |-> 0] /\ copies = [r \in Requests |-> 0]
      /\ unanswered = {} /\ delivered = {} /\ abandoned = {}
    BY DEF Init, APIInit
<1>2. items \in Seq(APIRequest) /\ Len(items) = 0 /\ MaxRetries \in Nat /\ MaxFrames \in Nat
    BY <1>1, EmptySeq, APIAssumption, ReportsAssumption
<1>3. queued = {} /\ held = {} /\ settled = {}
    BY <1>1, <1>2 DEF queued, held, settled
<1>4. OnePlace /\ Traced
    BY <1>1, <1>2, <1>3 DEF OnePlace, Traced
<1>5. Lossless /\ Numbered /\ Unmet
    BY <1>1, <1>2, <1>3 DEF Lossless, Numbered, Unmet, met
<1>6. APITypeOK
    BY <1>1, <1>2 DEF APITypeOK
<1>7. QED
    BY <1>4, <1>5, <1>6 DEF IInv, APIInv
-----------------------------------------------------------------------------
\* The places of a request, counted.
LEMMA PlacesCounted ==
    ASSUME APIInv, NEW r \in Requests
    PROVE  /\ Waiting(r) \in {0, 1}
           /\ Waiting(r) = 1 <=> r \in queued \cup held
<1> DEFINE P == {i \in DOMAIN items : items[i].id = r}
<1>1. items \in Seq(APIRequest) /\ DOMAIN items = 1 .. Len(items)
    BY LenProperties DEF APIInv, APITypeOK
<1>2. Waiting(r) = Cardinality(P) + IF r \in held THEN 1 ELSE 0
    BY DEF Waiting, held
<1>3. CASE r \in queued
    <2>1. PICK i \in 1 .. Len(items) : items[i].id = r
        BY <1>3 DEF queued
    <2>2. P = {i}
        BY <1>1, <2>1 DEF APIInv, OnePlace
    <2>3. Cardinality(P) = 1
        BY <2>2, FS_Singleton
    <2>4. r \notin held
        BY <1>3 DEF APIInv, OnePlace
    <2>5. QED
        BY <1>2, <1>3, <2>3, <2>4
<1>4. CASE r \notin queued
    <2>1. P = {}
        BY <1>1, <1>4 DEF queued
    <2>2. Cardinality(P) = 0
        BY <2>1, FS_EmptySet
    <2>3. QED
        BY <1>2, <1>4, <2>2
<1>5. QED
    BY <1>3, <1>4

(* A report that a handler pushed waits in exactly one place, the queue or *)
(* the consumer's hand, until it is settled; none is given up early, and   *)
(* none is taken twice by the API unless an answer was lost, whatever the  *)
(* handlers and the API do.                                                *)
THEOREM ReportsAreKept == Spec => []KeptUntilSettled
<1>1. IInv => KeptUntilSettled
    <2> SUFFICES ASSUME IInv, NEW r \in Requests
                 PROVE  /\ Waiting(r) = IF r \in pushed /\ ~Settled(r) THEN 1 ELSE 0
                        /\ Settled(r) => r \in pushed
                        /\ r \in abandoned => refusals[r] = MaxRetries /\ r \notin delivered
                        /\ r \in delivered => copies[r] > 0
                        /\ copies[r] > 1 => r \in unanswered
        BY DEF KeptUntilSettled
    <2>1. Waiting(r) \in {0, 1} /\ (Waiting(r) = 1 <=> r \in queued \cup held)
        BY PlacesCounted DEF IInv
    <2>2. r \in settled => r \notin queued \cup held
        BY DEF IInv, APIInv, OnePlace
    <2>3. Settled(r) <=> r \in settled
        BY DEF Settled, settled
    <2>4. r \in pushed <=> r \in queued \cup held \/ r \in settled
        BY DEF IInv, Lossless, met
    <2>5. QED
        BY <2>1, <2>2, <2>3, <2>4 DEF IInv, APIInv, Traced
<1>2. QED
    BY <1>1, ReportsInit, ReportsStep, PTL DEF Spec
-----------------------------------------------------------------------------
(* The table's operators, whatever the table.                              *)

LEMMA Least ==
    ASSUME NEW T, T \subseteq Nat, T # {}
    PROVE  \E n \in T : \A k \in T : n <= k
<1>1. PICK n \in T : \A k \in T : <<k, n>> \notin OpToRel(<, Nat)
    BY NatLessThanWellFounded, WFMin
<1>2. \A k \in T : ~(k < n)
    BY <1>1 DEF OpToRel
<1>3. QED
    BY <1>2

\* The first and the last of some places are among them.
LEMMA Extremes ==
    ASSUME NEW n \in Nat, NEW T, T \subseteq 1 .. n, T # {}
    PROVE  Min(T) \in T /\ Max(T) \in T
<1>1. \E i \in T : \A k \in T : i <= k
    <2>1. T \subseteq Nat
        OBVIOUS
    <2>2. QED
        BY <2>1, Least
<1>2. \E i \in T : \A k \in T : i >= k
    <2> DEFINE D == {n - i : i \in T}
    <2>1. D \subseteq Nat /\ D # {}
        <3>1. \A i \in T : n - i \in Nat
            OBVIOUS
        <3>2. PICK i \in T : TRUE
            OBVIOUS
        <3>3. n - i \in D
            BY <3>2
        <3>4. QED
            BY <3>1, <3>3
    <2>2. PICK x \in D : \A y \in D : x <= y
        BY <2>1, Least
    <2>3. PICK i \in T : x = n - i
        OBVIOUS
    <2>4. \A k \in T : n - i <= n - k
        BY <2>2, <2>3
    <2>5. QED
        BY <2>4
<1>3. QED
    BY <1>1, <1>2 DEF Min, Max

LEMMA SeqFacts ==
    ASSUME NEW S, NEW q \in Seq(S)
    PROVE  /\ Len(q) \in Nat /\ DOMAIN q = 1 .. Len(q)
           /\ \A i \in 1 .. Len(q) : q[i] \in S
BY LenProperties, ElementOfSeq

LEMMA EntryFields ==
    ASSUME NEW p \in Entry
    PROVE  /\ p.charId \in Chars \cup {None} /\ p.connId \in Conns \cup {None}
           /\ p.mapName \in Maps /\ p.source \in Hosts \cup {None}
           /\ p.xy \in Spots \cup {None} /\ p.dest \in Servers \cup {None}
BY DEF Entry

\* A lookup answers the map of one of the places, or None.
LEMMA FirstMapFacts ==
    ASSUME NEW t \in Seq(Entry), NEW I, I \subseteq DOMAIN t
    PROVE  /\ I = {} => FirstMap(t, I) = None
           /\ I # {} => /\ \E i \in I : FirstMap(t, I) = t[i].mapName
                        /\ FirstMap(t, I) \in Maps /\ FirstMap(t, I) # None
<1>1. CASE I = {}
    BY <1>1 DEF FirstMap
<1>2. CASE I # {}
    <2>1. Len(t) \in Nat /\ I \subseteq 1 .. Len(t) /\ \A i \in I : t[i] \in Entry
        BY SeqFacts
    <2>2. Min(I) \in I
        BY <1>2, <2>1, Extremes
    <2>3. FirstMap(t, I) = t[Min(I)].mapName
        BY <1>2 DEF FirstMap
    <2>4. QED
        BY <2>1, <2>2, <2>3, EntryFields, TableAssumption
<1>3. QED
    BY <1>1, <1>2

\* A new entry at the end.
LEMMA AddedFacts ==
    ASSUME NEW t \in Seq(Entry), NEW e \in Entry
    PROVE  LET u == Append(t, e)
           IN  /\ u \in Seq(Entry) /\ DOMAIN u = DOMAIN t \cup {Len(t) + 1}
               /\ Len(t) + 1 \notin DOMAIN t /\ u[Len(t) + 1] = e
               /\ \A i \in DOMAIN t : u[i] = t[i]
<1> HIDE DEF Entry
<1>1. /\ Append(t, e) \in Seq(Entry) /\ Len(t) \in Nat /\ Len(Append(t, e)) = Len(t) + 1
      /\ \A i \in 1 .. Len(t) : Append(t, e)[i] = t[i]
      /\ Append(t, e)[Len(t) + 1] = e
    BY AppendFacts
<1>2. DOMAIN t = 1 .. Len(t) /\ DOMAIN Append(t, e) = 1 .. Len(t) + 1
    BY <1>1, SeqFacts
<1>3. QED
    BY <1>1, <1>2

\* One entry of the connection says the map, the others stay as they were.
LEMMA SetMapFacts ==
    ASSUME NEW t \in Seq(Entry), NEW ch \in Chars \cup {None}, NEW c \in Conns,
           NEW map \in Maps
    PROVE  LET u == SetConnectionMapChar(t, ch, c, map)
           IN  /\ u \in Seq(Entry) /\ DOMAIN t \subseteq DOMAIN u
               /\ \E k \in DOMAIN u :
                      /\ u[k].charId = ch /\ u[k].connId = c /\ u[k].mapName = map
                      /\ IF k \in DOMAIN t THEN t[k].connId = c
                                           ELSE \A i \in DOMAIN t : t[i].connId # c
                      /\ \A i \in DOMAIN u : i # k => i \in DOMAIN t /\ u[i] = t[i]
<1> DEFINE I == {i \in 1 .. Len(t) : t[i].connId = c}
           e == [NewLocation(map) EXCEPT !.charId = ch, !.connId = c]
           k == Min(I)
           u == [t EXCEPT ![k].charId = ch, ![k].mapName = map]
<1>1. Len(t) \in Nat /\ DOMAIN t = 1 .. Len(t) /\ \A i \in 1 .. Len(t) : t[i] \in Entry
    BY SeqFacts
<1>2. CASE I = {}
    <2>1. SetConnectionMapChar(t, ch, c, map) = Append(t, e)
        BY <1>2 DEF SetConnectionMapChar, SelectInSeq
    <2>2. e \in Entry /\ e.charId = ch /\ e.connId = c /\ e.mapName = map
        BY DEF Entry, NewLocation
    <2>3. \A i \in DOMAIN t : t[i].connId # c
        BY <1>1, <1>2
    <2> HIDE DEF e
    <2>4. QED
        BY <2>1, <2>2, <2>3, AddedFacts
<1>3. CASE I # {}
    <2>1. k \in I /\ k # 0
        <3>1. I \subseteq 1 .. Len(t)
            OBVIOUS
        <3> HIDE DEF I
        <3>2. k \in I
            BY <1>1, <1>3, <3>1, Extremes
        <3>3. QED
            BY <1>1, <3>1, <3>2
    <2>2. SetConnectionMapChar(t, ch, c, map) = u
        <3> DEFINE j == SelectInSeq(t, LAMBDA p : p.connId = c)
        <3>1. j = k
            BY <1>3 DEF SelectInSeq
        <3> HIDE DEF j
        <3>2. SetConnectionMapChar(t, ch, c, map)
                 = IF j # 0 THEN [t EXCEPT ![j].charId = ch, ![j].mapName = map] ELSE Append(t, e)
            BY DEF SetConnectionMapChar, j
        <3>3. QED
            BY <2>1, <3>1, <3>2
    <2> HIDE DEF k
    <2>3. k \in 1 .. Len(t) /\ t[k].connId = c
        BY <2>1
    <2> HIDE DEF I
    <2>4. DOMAIN u = DOMAIN t /\ \A i \in DOMAIN t : i # k => u[i] = t[i]
        OBVIOUS
    <2>5. u[k] = [t[k] EXCEPT !.charId = ch, !.mapName = map]
        BY <1>1, <2>3
    <2>6. u[k] \in Entry /\ u[k].charId = ch /\ u[k].connId = c /\ u[k].mapName = map
        BY <1>1, <2>3, <2>5 DEF Entry
    <2> HIDE DEF u
    <2>7. \A i \in 1 .. Len(t) : u[i] \in Entry
        BY <1>1, <2>4, <2>6
    <2>8. u \in Seq(Entry)
        <3>1. u = [i \in 1 .. Len(t) |-> u[i]]
            BY <1>1, <2>2, <2>4 DEF u
        <3>2. QED
            BY <1>1, <2>7, <3>1, IsASeq
    <2>9. QED
        BY <1>1, <2>2, <2>3, <2>4, <2>6, <2>8
<1>4. QED
    BY <1>2, <1>3

\* The announcements give no connection an entry.
LEMMA AnnounceFacts ==
    ASSUME NEW t \in Seq(Entry), NEW map \in Maps,
           NEW u, \/ \E host \in Hosts, xy \in Spots : u = SetPendingMapChange(t, host, map, xy)
                  \/ \E s \in Servers : u = SetPendingMapByDestination(t, s, map)
    PROVE  /\ u \in Seq(Entry) /\ DOMAIN t \subseteq DOMAIN u
           /\ \A i \in DOMAIN t : u[i] = t[i]
           /\ \A i \in DOMAIN u \ DOMAIN t : u[i].connId = None
<1>1. PICK e \in Entry : e.connId = None /\ (u = Append(t, e) \/ u = t)
    <2>1. ASSUME NEW host \in Hosts, NEW xy \in Spots, u = SetPendingMapChange(t, host, map, xy)
          PROVE  \E e \in Entry : e.connId = None /\ (u = Append(t, e) \/ u = t)
        <3> DEFINE e == [NewLocation(map) EXCEPT !.source = host, !.xy = xy]
        <3>1. e \in Entry /\ e.connId = None
            BY DEF Entry, NewLocation
        <3>2. u = Append(t, e) \/ u = t
            BY <2>1 DEF SetPendingMapChange, AddUnless
        <3>3. QED
            BY <3>1, <3>2
    <2>2. ASSUME NEW s \in Servers, u = SetPendingMapByDestination(t, s, map)
          PROVE  \E e \in Entry : e.connId = None /\ (u = Append(t, e) \/ u = t)
        <3> DEFINE e == [NewLocation(map) EXCEPT !.dest = s]
        <3>1. e \in Entry /\ e.connId = None
            BY DEF Entry, NewLocation
        <3>2. u = Append(t, e) \/ u = t
            BY <2>2 DEF SetPendingMapByDestination, AddUnless
        <3>3. QED
            BY <3>1, <3>2
    <2>3. QED
        BY <2>1, <2>2
<1>2. QED
    BY <1>1, AddedFacts

\* The character's entries change hands.
LEMMA HandOverFacts ==
    ASSUME NEW t \in Seq(Entry), NEW ch \in Chars, NEW c \in Conns
    PROVE  LET u == SetPendingMapByCharId(t, ch, c)
           IN  /\ u \in Seq(Entry) /\ DOMAIN u = DOMAIN t
               /\ \A i \in DOMAIN t :
                      /\ u[i].charId = t[i].charId /\ u[i].mapName = t[i].mapName
                      /\ u[i].connId = IF t[i].charId = ch THEN c ELSE t[i].connId
<1> DEFINE f(i) == IF t[i].charId = ch THEN [t[i] EXCEPT !.connId = c] ELSE t[i]
           u    == SetPendingMapByCharId(t, ch, c)
<1>1. Len(t) \in Nat /\ DOMAIN t = 1 .. Len(t) /\ \A i \in 1 .. Len(t) : t[i] \in Entry
    BY SeqFacts
<1>2. u = [i \in 1 .. Len(t) |-> f(i)]
    BY <1>1 DEF SetPendingMapByCharId
<1>3. ASSUME NEW i \in 1 .. Len(t)
      PROVE  /\ f(i) \in Entry /\ f(i).charId = t[i].charId /\ f(i).mapName = t[i].mapName
             /\ f(i).connId = IF t[i].charId = ch THEN c ELSE t[i].connId
    BY <1>1 DEF Entry
<1> HIDE DEF f, u
<1>4. u \in Seq(Entry)
    BY <1>1, <1>2, <1>3, IsASeq
<1>5. QED
    BY <1>1, <1>2, <1>3, <1>4 DEF u

\* One entry less: the rest moves up.
LEMMA RemovedFacts ==
    ASSUME NEW t \in Seq(Entry), NEW k \in 1 .. Len(t)
    PROVE  LET u == RemoveAt(t, k)
           IN  /\ u \in Seq(Entry) /\ Len(u) = Len(t) - 1
               /\ \A i \in 1 .. Len(u) : u[i] = IF i < k THEN t[i] ELSE t[i + 1]
<1> DEFINE a == SubSeq(t, 1, k - 1)
           b == SubSeq(t, k + 1, Len(t))
<1>1. Len(t) \in Nat /\ \A i \in 1 .. Len(t) : t[i] \in Entry
    BY SeqFacts
<1>2. /\ a \in Seq(Entry) /\ Len(a) = k - 1
      /\ \A i \in 1 .. k - 1 : a[i] = t[i]
    BY <1>1, SubSeqProperties
<1>3. /\ b \in Seq(Entry) /\ Len(b) = Len(t) - k
      /\ \A i \in 1 .. Len(t) - k : b[i] = t[k + i]
    BY <1>1, SubSeqProperties
<1> HIDE DEF a, b
<1>4. /\ a \o b \in Seq(Entry) /\ Len(a \o b) = Len(t) - 1
      /\ \A i \in 1 .. Len(t) - 1 : (a \o b)[i] = IF i <= k - 1 THEN a[i] ELSE b[i - (k - 1)]
    BY <1>1, <1>2, <1>3, ConcatProperties
<1>5. \A i \in 1 .. Len(t) - 1 : (a \o b)[i] = IF i < k THEN t[i] ELSE t[i + 1]
    <2> SUFFICES ASSUME NEW i \in 1 .. Len(t) - 1
                 PROVE  (a \o b)[i] = IF i < k THEN t[i] ELSE t[i + 1]
        OBVIOUS
    <2>1. CASE i < k
        <3>1. i \in 1 .. k - 1
            BY <2>1
        <3>2. QED
            BY <1>2, <1>4, <2>1, <3>1
    <2>2. CASE ~(i < k)
        <3> DEFINE j == i - (k - 1)
        <3>1. j \in 1 .. Len(t) - k /\ ~(i <= k - 1) /\ k + j = i + 1
            BY <1>1, <2>2
        <3>2. (a \o b)[i] = b[j]
            BY <1>4, <3>1
        <3>3. b[j] = t[k + j]
            BY <1>3, <3>1
        <3>4. QED
            BY <2>2, <3>1, <3>2, <3>3
    <2>3. QED
        BY <2>1, <2>2
<1>6. QED
    BY <1>4, <1>5 DEF RemoveAt, a, b

\* The connection's entry, if it has one only, is gone, and no other.
LEMMA ClearFacts ==
    ASSUME NEW t \in Seq(Entry), NEW c \in Conns
    PROVE  LET u == ClearConnectionMap(t, c)
           IN  /\ u \in Seq(Entry)
               /\ \E m \in [DOMAIN u -> DOMAIN t] :
                      /\ \A i \in DOMAIN u : u[i] = t[m[i]]
                      /\ \A i, j \in DOMAIN u : m[i] = m[j] => i = j
                      /\ \A j \in DOMAIN t : t[j].connId # c => \E i \in DOMAIN u : m[i] = j
                      /\ (\A i, j \in DOMAIN t : t[i].connId = c /\ t[j].connId = c => i = j)
                            => \A i \in DOMAIN u : u[i].connId # c
<1> DEFINE I == {i \in 1 .. Len(t) : t[i].connId = c}
           k == Max(I)
           u == RemoveAt(t, k)
<1>1. Len(t) \in Nat /\ DOMAIN t = 1 .. Len(t)
    BY SeqFacts
<1>2. CASE I = {}
    <2>1. ClearConnectionMap(t, c) = t
        BY <1>2 DEF ClearConnectionMap, SelectLastInSeq
    <2>2. \A i \in DOMAIN t : t[i].connId # c
        BY <1>1, <1>2
    <2> DEFINE m == [i \in DOMAIN t |-> i]
    <2>3. m \in [DOMAIN t -> DOMAIN t] /\ \A i \in DOMAIN t : m[i] = i
        OBVIOUS
    <2> HIDE DEF m
    <2>4. QED
        BY <2>1, <2>2, <2>3
<1>3. CASE I # {}
    <2>1. I \subseteq 1 .. Len(t)
        OBVIOUS
    <2>2. k \in I
        <3> HIDE DEF I
        <3>1. QED
            BY <1>1, <1>3, <2>1, Extremes
    <2>3. ClearConnectionMap(t, c) = u
        <3> DEFINE j == SelectLastInSeq(t, LAMBDA p : p.connId = c)
        <3>1. j = k /\ k # 0
            BY <1>1, <1>3, <2>2 DEF SelectLastInSeq
        <3> HIDE DEF j
        <3>2. ClearConnectionMap(t, c) = IF j # 0 THEN RemoveAt(t, j) ELSE t
            BY DEF ClearConnectionMap, j
        <3>3. QED
            BY <3>1, <3>2
    <2> HIDE DEF k
    <2>4. k \in 1 .. Len(t) /\ t[k].connId = c
        BY <2>2
    <2> HIDE DEF I
    <2>5. /\ u \in Seq(Entry) /\ Len(u) = Len(t) - 1 /\ DOMAIN u = 1 .. Len(t) - 1
          /\ \A i \in DOMAIN u : u[i] = IF i < k THEN t[i] ELSE t[i + 1]
        <3>1. u \in Seq(Entry) /\ Len(u) = Len(t) - 1
            BY <2>4, RemovedFacts
        <3>2. DOMAIN u = 1 .. Len(u)
            BY <3>1, SeqFacts
        <3>3. QED
            BY <2>4, <3>1, <3>2, RemovedFacts
    <2> HIDE DEF u
    <2> DEFINE m == [i \in DOMAIN u |-> IF i < k THEN i ELSE i + 1]
    <2>6. m \in [DOMAIN u -> DOMAIN t] /\ \A i \in DOMAIN u : m[i] = IF i < k THEN i ELSE i + 1
        BY <1>1, <2>4, <2>5
    <2> HIDE DEF m
    <2>7. \A i \in DOMAIN u : u[i] = t[m[i]] /\ m[i] # k
        BY <1>1, <2>4, <2>5, <2>6
    <2>8. \A i, j \in DOMAIN u : m[i] = m[j] => i = j
        BY <1>1, <2>4, <2>5, <2>6
    <2>9. ASSUME NEW j \in DOMAIN t, j # k PROVE \E i \in DOMAIN u : m[i] = j
        <3>1. CASE j < k
            <4>1. j \in DOMAIN u /\ m[j] = j
                BY <1>1, <2>4, <2>5, <2>6, <3>1
            <4>2. QED
                BY <4>1
        <3>2. CASE ~(j < k)
            <4>1. j - 1 \in DOMAIN u /\ m[j - 1] = j
                BY <1>1, <2>4, <2>5, <2>6, <2>9, <3>2
            <4>2. QED
                BY <4>1
        <3>3. QED
            BY <3>1, <3>2
    <2>10. (\A i, j \in DOMAIN t : t[i].connId = c /\ t[j].connId = c => i = j)
              => \A i \in DOMAIN u : u[i].connId # c
        BY <1>1, <2>4, <2>6, <2>7
    <2>11. \A j \in DOMAIN t : t[j].connId # c => \E i \in DOMAIN u : m[i] = j
        BY <2>4, <2>9
    <2>12. \A i \in DOMAIN u : u[i] = t[m[i]]
        BY <2>7
    <2>13. QED
        BY <2>3, <2>5, <2>6, <2>8, <2>10, <2>11, <2>12
<1>4. QED
    BY <1>2, <1>3

-----------------------------------------------------------------------------
(* Types.  TypeOK is not inductive: that a handler stores a map needs that *)
(* its packet says one, and that only players on a map server are moved.   *)

\* A packet says what its handler uses.
WellFormed(h) ==
    /\ h \in Handler
    /\ h.kind = "charIdAndMap" => /\ h.char \in Chars /\ h.map \in Maps /\ h.dest \in Servers
                                  /\ h.conn \notin MapConns
    /\ h.kind # "charIdAndMap" => h.conn \in MapConns
    /\ h.kind = "mapLogin" => h.char \in Chars
    /\ h.kind = "mapChanged" => h.map \in Maps /\ h.xy \in Spots
    /\ h.kind = "mapLoaded" => h.xy \in Spots /\ (h.stage = "set" => h.map \in Maps)

\* A goal names a map and its server; players play on map servers.
Playing ==
    /\ goal \in [Chars -> [map : Maps \cup {None}, server : Servers \cup {None}]]
    /\ \A ch \in Chars : goal[ch].server # None => goal[ch].map \in Maps
    /\ owner \in [Conns -> Chars \cup {None}] /\ here \in [Conns -> Maps \cup {None}]
    /\ \A c \in Conns : owner[c] # None => c \in MapConns
    /\ \A c \in Conns : here[c] # None => owner[c] # None
    /\ told \subseteq Conns /\ \A c \in told : owner[c] # None

Typed ==
    /\ pendingMap \in Seq(Entry)
    /\ \A h \in running : WellFormed(h)
    /\ frames \in 0 .. MaxFrames
    /\ connections \subseteq Conns
    /\ serial \in BOOLEAN /\ fresh \in BOOLEAN /\ shared \subseteq MapConns
    /\ Playing

LEMMA ServerFacts ==
    ASSUME NEW c \in MapConns
    PROVE  ServerOf[c] \in Servers /\ Host[ServerOf[c]] \in Hosts
BY ReportsAssumption DEF MapConns

LEMMA ConnFacts == MapConns \subseteq Conns /\ None \notin Conns /\ None \notin Chars
                   /\ None \notin Maps /\ None \notin Servers
BY TableAssumption DEF MapConns

\* A packet that is well formed arrives.
LEMMA ArriveTyped ==
    ASSUME Typed, NEW kind \in Kinds, NEW c \in Conns, NEW ch \in Chars \cup {None},
           NEW map \in Maps \cup {None}, NEW xy \in Spots \cup {None},
           NEW s \in Servers \cup {None}, Arrive(kind, c, ch, map, xy, s),
           IF kind = "charIdAndMap"
              THEN c \notin MapConns /\ ch # None /\ map # None /\ s # None
              ELSE c \in MapConns,
           kind = "mapLogin" => ch # None,
           kind = "mapChanged" => map # None /\ xy # None,
           kind = "mapLoaded" => xy # None,
           fresh' \in BOOLEAN, shared' \subseteq MapConns, Playing'
    PROVE  Typed'
<1> DEFINE h == [n |-> frames + 1, kind |-> kind, stage |-> "start", conn |-> c,
                 char |-> ch, map |-> map, xy |-> xy, dest |-> s]
<1>1. /\ frames' = frames + 1 /\ frames < MaxFrames /\ running' = running \cup {h}
      /\ serial' = (serial /\ running = {})
      /\ UNCHANGED <<pendingMap, connections>>
    BY DEF Arrive
<1>2. frames \in Nat /\ MaxFrames \in Nat /\ frames + 1 \in 1 .. MaxFrames
    BY <1>1, ReportsAssumption DEF Typed
<1>3. WellFormed(h)
    BY <1>2 DEF WellFormed, Handler, Stages
<1> HIDE DEF h
<1>4. QED
    BY <1>1, <1>2, <1>3 DEF Typed

LEMMA ArrivalTyped == ASSUME Typed, Arrival PROVE Typed'
<1> USE ConnFacts DEF Kinds
<1>a. Playing
    BY DEF Typed
<1>1. ASSUME NEW c \in Conns, NEW ch \in Chars, NEW m \in Maps, NEW s \in Servers,
             CharSelected(c, ch, m, s)
      PROVE  Typed'
    <2>1. Playing'
        BY <1>a, <1>1 DEF Playing, CharSelected
    <2>2. Arrive("charIdAndMap", c, ch, m, None, s) /\ c \notin MapConns
          /\ UNCHANGED <<fresh, shared>>
        BY <1>1 DEF CharSelected
    <2>3. QED
        BY <2>1, <2>2, ArriveTyped DEF Typed
<1>2. ASSUME NEW c \in Conns, NEW ch \in Chars, LoggedIn(c, ch) PROVE Typed'
    <2>1. goal[ch].server # None /\ goal[ch].map \in Maps
        BY <1>a, <1>2, ServerFacts DEF LoggedIn, Playing
    <2>2. Nowhere \in [map : Maps \cup {None}, server : Servers \cup {None}]
          /\ Nowhere.server = None
        BY DEF Nowhere
    <2>3. c \in MapConns /\ owner' = [owner EXCEPT ![c] = ch]
          /\ here' = [here EXCEPT ![c] = goal[ch].map]
          /\ goal' = [goal EXCEPT ![ch] = Nowhere] /\ told' = told
        BY <1>2 DEF LoggedIn
    <2>4. Playing'
        BY <1>a, <2>1, <2>2, <2>3 DEF Playing
    <2>5. Arrive("mapLogin", c, ch, None, None, None) /\ fresh' \in BOOLEAN
          /\ shared' \subseteq MapConns
        BY <1>2 DEF LoggedIn, Typed
    <2>6. QED
        BY <2>3, <2>4, <2>5, ArriveTyped
<1>3. ASSUME NEW c \in Conns, NEW m \in Maps, NEW xy \in Spots, NEW s \in Servers,
             Moved(c, m, xy, s)
      PROVE  Typed'
    <2>1. c \in MapConns /\ owner[c] \in Chars
        BY <1>a, <1>3 DEF Moved, Playing
    <2>2. Playing'
        <3>1. /\ owner' = owner /\ told' = told \cup {c}
              /\ IF s = ServerOf[c]
                    THEN here' = [here EXCEPT ![c] = m] /\ goal' = goal
                    ELSE /\ goal' = [goal EXCEPT ![owner[c]] = [map |-> m, server |-> s]]
                         /\ here' = [here EXCEPT ![c] = None]
            BY <1>3 DEF Moved
        <3>2. goal' \in [Chars -> [map : Maps \cup {None}, server : Servers \cup {None}]]
              /\ \A ch \in Chars : goal'[ch].server # None => goal'[ch].map \in Maps
            BY <1>a, <2>1, <3>1 DEF Playing
        <3>3. /\ here' \in [Conns -> Maps \cup {None}]
              /\ \A d \in Conns : here'[d] # None => owner[d] # None
            <4>1. owner[c] # None
                BY <1>3, <1>a DEF Moved, Playing
            <4>2. QED
                BY <1>a, <3>1, <4>1 DEF Playing
        <3>4. told' \subseteq Conns /\ \A d \in told' : owner[d] # None
            <4>1. owner[c] # None
                BY <1>3, <1>a DEF Moved, Playing
            <4>2. QED
                BY <1>a, <3>1, <4>1 DEF Playing
        <3>5. QED
            BY <1>a, <3>1, <3>2, <3>3, <3>4 DEF Playing
    <2>3. Arrive("mapChanged", c, None, m, xy, None) /\ UNCHANGED <<fresh, shared>>
        BY <1>3 DEF Moved
    <2>4. xy # None
        BY TableAssumption
    <2>5. QED
        BY <2>1, <2>2, <2>3, <2>4, ArriveTyped DEF Typed
<1>4. ASSUME NEW c \in Conns, NEW xy \in Spots, Loaded(c, xy) PROVE Typed'
    <2>1. c \in MapConns
        BY <1>a, <1>4 DEF Loaded, Playing
    <2>2. Playing'
        BY <1>a, <1>4 DEF Playing, Loaded, game
    <2>3. Arrive("mapLoaded", c, None, None, xy, None) /\ fresh' \in BOOLEAN
          /\ shared' \subseteq MapConns
        BY <1>4 DEF Loaded, Typed
    <2>4. xy # None
        BY TableAssumption
    <2>5. QED
        BY <2>1, <2>2, <2>3, <2>4, ArriveTyped
<1>5. ASSUME NEW c \in Conns, Seen(c) PROVE Typed'
    <2>1. c \in MapConns
        BY <1>a, <1>5 DEF Seen, Playing
    <2>2. Playing'
        BY <1>a, <1>5 DEF Playing, Seen, game
    <2>3. Arrive("report", c, None, None, None, None) /\ UNCHANGED <<fresh, shared>>
        BY <1>5 DEF Seen
    <2>4. QED
        BY <2>1, <2>2, <2>3, ArriveTyped DEF Typed
<1>6. QED
    BY <1>1, <1>2, <1>3, <1>4, <1>5 DEF Arrival

\* What is left of a handler's packet is well formed.
LEMMA GoToWellFormed ==
    ASSUME NEW h, WellFormed(h), NEW stage \in Stages, NEW map \in Maps \cup {None},
           h.kind \in {"charIdAndMap", "mapChanged"} => map = h.map,
           stage = "set" => map \in Maps
    PROVE  LET g == [h EXCEPT !.stage = stage, !.map = map]
           IN  /\ WellFormed(g) /\ g.stage = stage /\ g.map = map /\ g.kind = h.kind
               /\ g.conn = h.conn /\ g.char = h.char /\ g.xy = h.xy /\ g.dest = h.dest
<1> DEFINE g == [h EXCEPT !.stage = stage, !.map = map]
<1>1. /\ h \in Handler /\ g \in Handler /\ g.stage = stage /\ g.map = map /\ g.kind = h.kind
      /\ g.conn = h.conn /\ g.char = h.char /\ g.xy = h.xy /\ g.dest = h.dest
    BY DEF WellFormed, Handler
<1> HIDE DEF g
<1>2. WellFormed(g)
    BY <1>1 DEF WellFormed
<1>3. QED
    BY <1>1, <1>2 DEF g

\* What the lookups of MapLoaded answer.
LEMMA LookupType ==
    ASSUME Typed, NEW h \in running, h.kind = "mapLoaded"
    PROVE  /\ GetPendingMapChange(pendingMap, Host[ServerOf[h.conn]], h.xy) \in Maps \cup {None}
           /\ GetPendingMapByDestination(pendingMap, ServerOf[h.conn]) \in Maps \cup {None}
BY FirstMapFacts DEF Typed, GetPendingMapChange, GetPendingMapByDestination

\* A handler's step: the table and the packet stay typed.
LEMMA StepTyped ==
    ASSUME Typed, UNCHANGED <<frames, connections, serial, fresh, shared, owner, here, goal, told>>,
           pendingMap' \in Seq(Entry), \A h \in running' : WellFormed(h)
    PROVE  Typed'
BY DEF Typed, Playing

LEMMA HandlerTyped == ASSUME Typed, NEW h \in running, Deserialize(h) PROVE Typed'
<1> USE DEF Stages
<1>1. WellFormed(h) /\ pendingMap \in Seq(Entry) /\ h \in Handler /\ h.conn \in Conns
    BY DEF Typed, WellFormed, Handler
<1>2. ASSUME TableStep \/ Reporting(h, TRUE) \/ Reporting(h, FALSE)
      PROVE  UNCHANGED <<frames, connections, serial, fresh, shared, owner, here, goal, told>>
    BY <1>2 DEF TableStep, Reporting, history, game
<1>3. ASSUME Finish(h) PROVE \A g \in running' : WellFormed(g)
    BY <1>3 DEF Finish, Typed
<1>4. ASSUME NEW stage \in Stages, NEW map \in Maps \cup {None}, GoTo(h, stage, map),
             h.kind \in {"charIdAndMap", "mapChanged"} => map = h.map,
             stage = "set" => map \in Maps
      PROVE  \A g \in running' : WellFormed(g)
    <2> DEFINE f == [h EXCEPT !.stage = stage, !.map = map]
    <2>1. WellFormed(f)
        BY <1>1, <1>4, GoToWellFormed
    <2>2. running' = (running \ {h}) \cup {f}
        BY <1>4 DEF GoTo
    <2> HIDE DEF f
    <2>3. QED
        BY <2>1, <2>2 DEF Typed
<1>5. CASE CharIdAndMapStart(h)
    <2>1. /\ h.char \in Chars /\ h.map \in Maps /\ GoTo(h, "dns", h.map) /\ TableStep
          /\ pendingMap' = SetConnectionMapChar(pendingMap, h.char, h.conn, h.map)
        BY <1>1, <1>5 DEF CharIdAndMapStart, At, WellFormed
    <2>2. pendingMap' \in Seq(Entry)
        BY <1>1, <2>1, SetMapFacts
    <2>3. QED
        BY <1>2, <1>4, <2>1, <2>2, StepTyped
<1>6. CASE CharIdAndMapResolved(h)
    <2>1. h.dest \in Servers /\ h.map \in Maps /\ Finish(h) /\ TableStep
        BY <1>1, <1>6 DEF CharIdAndMapResolved, At, WellFormed
    <2>2. pendingMap' \in Seq(Entry)
        BY <1>1, <1>6, <2>1, AnnounceFacts DEF CharIdAndMapResolved
    <2>3. QED
        BY <1>2, <1>3, <2>1, <2>2, StepTyped
<1>7. CASE MapLogin(h)
    <2>1. h.char \in Chars /\ Finish(h) /\ TableStep
        BY <1>1, <1>7 DEF MapLogin, At, WellFormed
    <2>2. pendingMap' \in Seq(Entry)
        BY <1>1, <1>7, <2>1, HandOverFacts DEF MapLogin
    <2>3. QED
        BY <1>2, <1>3, <2>1, <2>2, StepTyped
<1>8. CASE MapChangedStart(h)
    <2>1. /\ h.map \in Maps /\ GoTo(h, "pending", h.map) /\ TableStep
          /\ pendingMap' = SetConnectionMapChar(pendingMap, None, h.conn, h.map)
        BY <1>1, <1>8 DEF MapChangedStart, SetConnectionMap, At, WellFormed
    <2>2. pendingMap' \in Seq(Entry)
        BY <1>1, <2>1, SetMapFacts
    <2>3. QED
        BY <1>2, <1>4, <2>1, <2>2, StepTyped
<1>9. CASE MapChangedPending(h)
    <2>1. /\ h.map \in Maps /\ h.xy \in Spots /\ Host[ServerOf[h.conn]] \in Hosts
          /\ Finish(h) /\ TableStep
        BY <1>1, <1>9, ServerFacts DEF MapChangedPending, At, WellFormed
    <2>2. pendingMap' \in Seq(Entry)
        BY <1>1, <1>9, <2>1, AnnounceFacts DEF MapChangedPending
    <2>3. QED
        BY <1>2, <1>3, <2>1, <2>2, StepTyped
<1>10. CASE MapLoadedCoords(h)
    <2> DEFINE m == GetPendingMapChange(pendingMap, Host[ServerOf[h.conn]], h.xy)
    <2>1. /\ h.kind = "mapLoaded" /\ TableStep /\ pendingMap' = pendingMap
          /\ GoTo(h, IF m = None THEN "destination" ELSE "set", m)
        BY <1>10 DEF MapLoadedCoords, At
    <2>2. m \in Maps \cup {None}
        BY <2>1, LookupType
    <2> HIDE DEF m
    <2>3. \A g \in running' : WellFormed(g)
        BY <1>4, <2>1, <2>2
    <2>4. QED
        BY <1>1, <1>2, <2>1, <2>3, StepTyped
<1>11. CASE MapLoadedDestination(h)
    <2> DEFINE m == GetPendingMapByDestination(pendingMap, ServerOf[h.conn])
    <2>1. /\ h.kind = "mapLoaded" /\ TableStep /\ pendingMap' = pendingMap
          /\ IF m = None THEN Finish(h) ELSE GoTo(h, "set", m)
        BY <1>11 DEF MapLoadedDestination, At
    <2>2. m \in Maps \cup {None}
        BY <2>1, LookupType
    <2> HIDE DEF m
    <2>3. \A g \in running' : WellFormed(g)
        BY <1>3, <1>4, <2>1, <2>2
    <2>4. QED
        BY <1>1, <1>2, <2>1, <2>3, StepTyped
<1>12. CASE MapLoadedSet(h)
    <2>1. /\ h.map \in Maps /\ Finish(h) /\ TableStep
          /\ pendingMap' = SetConnectionMapChar(pendingMap, None, h.conn, h.map)
        BY <1>1, <1>12 DEF MapLoadedSet, SetConnectionMap, At, WellFormed
    <2>2. pendingMap' \in Seq(Entry)
        BY <1>1, <2>1, SetMapFacts
    <2>3. QED
        BY <1>2, <1>3, <2>1, <2>2, StepTyped
<1>13. ASSUME NEW reports, Reporting(h, reports) PROVE Typed'
    <2>1. Finish(h) /\ pendingMap' = pendingMap
          /\ UNCHANGED <<frames, connections, serial, fresh, shared, owner, here, goal, told>>
        BY <1>13 DEF Reporting, history, game
    <2>2. QED
        BY <1>1, <1>3, <2>1, StepTyped
<1>14. QED
    BY <1>5, <1>6, <1>7, <1>8, <1>9, <1>10, <1>11, <1>12, <1>13
    DEF Deserialize, VenderFound, VenderItemsLists, OfflineCloneFound, ActorInfo, SystemChat,
        SpecialItemObtain, UpgradeItemBroadcast, CharEmblemUpdate, ServersList

LEMMA TypedStep == Typed /\ [Next]_vars => Typed'
<1> SUFFICES ASSUME Typed, [Next]_vars PROVE Typed'
    OBVIOUS
<1>a. MaxFrames \in Nat
    BY ReportsAssumption
<1>1. ASSUME NEW c \in Conns, ConnOpened(c) PROVE Typed'
    BY <1>1 DEF ConnOpened, Typed, Playing, game, history
<1>2. ASSUME NEW c \in Conns, ConnClosed(c) PROVE Typed'
    <2>1. pendingMap' \in Seq(Entry)
        BY <1>2, ClearFacts DEF ConnClosed, Typed
    <2>2. Playing'
        BY <1>2 DEF ConnClosed, Typed, Playing
    <2>3. QED
        BY <1>a, <1>2, <2>1, <2>2 DEF ConnClosed, Typed
<1>3. ASSUME NEW c \in Conns, LinkLost(c) PROVE Typed'
    <2>1. pendingMap' \in Seq(Entry)
        BY <1>3, ClearFacts DEF LinkLost, Typed
    <2>2. Playing'
        BY <1>3 DEF LinkLost, Typed, Playing, game
    <2>3. QED
        BY <1>a, <1>3, <2>1, <2>2 DEF LinkLost, Typed
<1>4. CASE ConsumerStep
    BY <1>4 DEF ConsumerStep, Typed, Playing, game, history
<1>5. CASE UNCHANGED vars
    BY <1>5 DEF vars, Typed, Playing
<1>6. QED
    BY <1>1, <1>2, <1>3, <1>4, <1>5, ArrivalTyped, HandlerTyped DEF Next, Processor

LEMMA TypedInit == Init => Typed
<1> SUFFICES ASSUME Init PROVE Typed
    OBVIOUS
<1>1. pendingMap \in Seq(Entry) /\ MaxFrames \in Nat
    BY EmptySeq, ReportsAssumption DEF Init
<1>2. Nowhere \in [map : Maps \cup {None}, server : Servers \cup {None}] /\ Nowhere.server = None
    BY DEF Nowhere
<1>3. \A ch \in Chars : goal[ch] = Nowhere
    BY DEF Init
<1>4. Playing
    BY <1>2, <1>3 DEF Init, Playing
<1>5. QED
    BY <1>1, <1>4 DEF Init, Typed

(* Type correctness: the handlers and the processor keep the table, the    *)
(* packets at work and the queue of reports what they are.                 *)
THEOREM TypeCorrect == Spec => []TypeOK
<1>1. IInv /\ Typed => TypeOK
    BY DEF IInv, APIInv, Typed, Playing, TypeOK, WellFormed
<1>2. QED
    BY <1>1, ReportsInit, ReportsStep, TypedInit, TypedStep, PTL DEF Spec
-----------------------------------------------------------------------------
(* Closed connections are forgotten.  ClearConnectionMap removes one entry *)
(* only, so this needs that a connection never has two: an entry that      *)
(* MapLogin hands over goes to a connection that has none, and it is the   *)
(* character's only one, or else the connection is in shared.              *)

\* One handler at a time, of a connection that lives and, if it is one to a
\* map server, has its player.
OneHandler ==
    /\ \A g, h \in running : g = h
    /\ \A h \in running : /\ h.conn \in connections
                          /\ h.kind # "charIdAndMap" => owner[h.conn] # None

\* One entry per connection, of one that lives and has its player, but for
\* the connections that a login gave several entries.
OneEntry ==
    /\ \A i \in DOMAIN pendingMap :
          LET c == pendingMap[i].connId
          IN  /\ c \in connections \cup {None} \cup shared
              /\ c \in MapConns \ shared => owner[c] # None
    /\ \A i, j \in DOMAIN pendingMap :
          /\ pendingMap[i].connId = pendingMap[j].connId
          /\ pendingMap[i].connId \notin shared \cup {None}
          => i = j

\* Any other login finds its connection without an entry, its character with one.
CleanLogin ==
    \A h \in running : h.kind = "mapLogin" /\ h.conn \notin shared =>
        /\ \A i \in DOMAIN pendingMap : pendingMap[i].connId # h.conn
        /\ \A i, j \in DOMAIN pendingMap :
              pendingMap[i].charId = h.char /\ pendingMap[j].charId = h.char => i = j

Tidy == serial => OneHandler /\ OneEntry /\ CleanLogin

LEMMA AtMostOne ==
    ASSUME NEW n \in Nat, NEW T, T \subseteq 1 .. n, ~(Cardinality(T) > 1),
           NEW x \in T, NEW y \in T
    PROVE  x = y
<1> SUFFICES ASSUME x # y PROVE FALSE
    OBVIOUS
<1>1. IsFiniteSet(T)
    <2>1. IsFiniteSet(1 .. n)
        BY FS_Interval
    <2>2. QED
        BY <2>1, FS_Subset
<1>2. {x, y} \subseteq T
    OBVIOUS
<1>3. Cardinality({x, y}) = 2
    <2>1. IsFiniteSet({x}) /\ Cardinality({x}) = 1
        BY FS_Singleton
    <2>2. {x, y} = {x} \cup {y} /\ y \notin {x}
        OBVIOUS
    <2> DEFINE A == {x}
    <2>3. IsFiniteSet(A) /\ Cardinality(A) = 1 /\ y \notin A
        BY <2>1, <2>2
    <2> HIDE DEF A
    <2>4. Cardinality(A \cup {y}) = Cardinality(A) + 1
        BY <2>3, FS_AddElement
    <2>5. QED
        BY <2>2, <2>3, <2>4 DEF A
<1>4. Cardinality({x, y}) <= Cardinality(T) /\ Cardinality(T) \in Nat
    BY <1>1, <1>2, FS_Subset, FS_CardinalityType
<1>5. QED
    BY <1>3, <1>4

\* A packet arrives while no handler is at work.
LEMMA ArriveTidy ==
    ASSUME Tidy, NEW kind, NEW c \in Conns, NEW ch, NEW map, NEW xy, NEW s,
           Arrive(kind, c, ch, map, xy, s), shared \subseteq shared',
           \A d \in Conns : owner[d] # None => owner'[d] # None,
           kind # "charIdAndMap" => owner'[c] # None,
           serial /\ kind = "mapLogin" /\ c \notin shared' =>
               /\ \A i \in DOMAIN pendingMap : pendingMap[i].connId # c
               /\ \A i, j \in DOMAIN pendingMap :
                     pendingMap[i].charId = ch /\ pendingMap[j].charId = ch => i = j
    PROVE  Tidy'
<1> DEFINE h == [n |-> frames + 1, kind |-> kind, stage |-> "start", conn |-> c,
                 char |-> ch, map |-> map, xy |-> xy, dest |-> s]
<1>1. /\ running' = running \cup {h} /\ serial' = (serial /\ running = {})
      /\ UNCHANGED <<pendingMap, connections>> /\ c \in connections
    BY DEF Arrive
<1>2. h.conn = c /\ h.kind = kind /\ h.char = ch
    OBVIOUS
<1> HIDE DEF h
<1> SUFFICES ASSUME serial' PROVE (OneHandler /\ OneEntry /\ CleanLogin)'
    BY DEF Tidy
<1>3. serial /\ running' = {h}
    BY <1>1
<1>4. OneHandler'
    BY <1>1, <1>2, <1>3 DEF OneHandler
<1>5. OneEntry'
    BY <1>1, <1>3 DEF Tidy, OneEntry, MapConns
<1>6. CleanLogin'
    BY <1>1, <1>2, <1>3 DEF CleanLogin
<1>7. QED
    BY <1>4, <1>5, <1>6

LEMMA ArrivalTidy == ASSUME Typed, Tidy, Arrival PROVE Tidy'
<1>a. Playing
    BY DEF Typed
<1>1. ASSUME NEW c \in Conns, NEW ch \in Chars, NEW m \in Maps, NEW s \in Servers,
             CharSelected(c, ch, m, s)
      PROVE  Tidy'
    <2>1. Arrive("charIdAndMap", c, ch, m, None, s) /\ UNCHANGED <<owner, shared>>
        BY <1>1 DEF CharSelected
    <2>2. QED
        BY <2>1, ArriveTidy
<1>2. ASSUME NEW c \in Conns, NEW ch \in Chars, LoggedIn(c, ch) PROVE Tidy'
    <2> DEFINE P == {i \in DOMAIN pendingMap : pendingMap[i].charId = ch}
    <2>1. /\ Arrive("mapLogin", c, ch, None, None, None)
          /\ c \in MapConns /\ owner[c] = None /\ owner' = [owner EXCEPT ![c] = ch]
          /\ shared' = IF Cardinality(P) > 1 THEN shared \cup {c} ELSE shared
        BY <1>2 DEF LoggedIn
    <2>2. Len(pendingMap) \in Nat /\ DOMAIN pendingMap = 1 .. Len(pendingMap)
        BY SeqFacts DEF Typed
    <2>a. shared \subseteq shared' /\ (c \notin shared' => c \notin shared /\ ~(Cardinality(P) > 1))
        BY <2>1
    <2>3. ASSUME serial, c \notin shared', NEW i \in DOMAIN pendingMap PROVE pendingMap[i].connId # c
        BY <2>1, <2>3, <2>a DEF Tidy, OneEntry
    <2>4. ASSUME c \notin shared', NEW i \in DOMAIN pendingMap, NEW j \in DOMAIN pendingMap,
                 pendingMap[i].charId = ch, pendingMap[j].charId = ch
          PROVE  i = j
        <3>1. P \subseteq 1 .. Len(pendingMap) /\ i \in P /\ j \in P /\ ~(Cardinality(P) > 1)
            BY <2>a, <2>2, <2>4
        <3> HIDE DEF P
        <3>2. QED
            BY <2>2, <3>1, AtMostOne
    <2>5. ch # None /\ \A d \in Conns : owner[d] # None => owner'[d] # None
        BY <1>a, <2>1, ConnFacts DEF Playing
    <2>6. owner'[c] # None
        BY <1>a, <2>1, <2>5 DEF Playing
    <2>7. QED
        BY <2>1, <2>a, <2>3, <2>4, <2>5, <2>6, ArriveTidy
<1>3. ASSUME NEW c \in Conns, NEW m \in Maps, NEW xy \in Spots, NEW s \in Servers,
             Moved(c, m, xy, s)
      PROVE  Tidy'
    <2>1. Arrive("mapChanged", c, None, m, xy, None) /\ UNCHANGED <<owner, shared>>
          /\ owner[c] # None
        BY <1>a, <1>3 DEF Moved, Playing
    <2>2. QED
        BY <2>1, ArriveTidy
<1>4. ASSUME NEW c \in Conns, NEW xy \in Spots, Loaded(c, xy) PROVE Tidy'
    <2>1. Arrive("mapLoaded", c, None, None, xy, None) /\ UNCHANGED <<owner, shared>>
          /\ owner[c] # None
        BY <1>a, <1>4 DEF Loaded, Playing, game
    <2>2. QED
        BY <2>1, ArriveTidy
<1>5. ASSUME NEW c \in Conns, Seen(c) PROVE Tidy'
    <2>1. Arrive("report", c, None, None, None, None) /\ UNCHANGED <<owner, shared>>
          /\ owner[c] # None
        BY <1>a, <1>5 DEF Seen, Playing, game
    <2>2. QED
        BY <2>1, ArriveTidy
<1>6. QED
    BY <1>1, <1>2, <1>3, <1>4, <1>5 DEF Arrival

\* A handler of a connection that lives says where it is.
LEMMA SetMapTidy ==
    ASSUME Typed, OneHandler, OneEntry, NEW h \in running, NEW ch \in Chars \cup {None},
           h.map \in Maps, UNCHANGED <<connections, owner, shared>>,
           pendingMap' = SetConnectionMapChar(pendingMap, ch, h.conn, h.map)
    PROVE  OneEntry'
<1>1. /\ h.conn \in connections /\ h.conn \in Conns /\ h.conn # None
      /\ h.conn \in MapConns => owner[h.conn] # None
    BY ConnFacts DEF OneHandler, Typed, WellFormed
<1>2. PICK k \in DOMAIN pendingMap' :
          /\ pendingMap'[k].connId = h.conn
          /\ IF k \in DOMAIN pendingMap
                THEN pendingMap[k].connId = h.conn
                ELSE \A i \in DOMAIN pendingMap : pendingMap[i].connId # h.conn
          /\ \A i \in DOMAIN pendingMap' :
                i # k => i \in DOMAIN pendingMap /\ pendingMap'[i] = pendingMap[i]
    BY <1>1, SetMapFacts DEF Typed
<1>3. h.conn \notin shared => \A i \in DOMAIN pendingMap' : i # k => pendingMap'[i].connId # h.conn
    BY <1>1, <1>2 DEF OneEntry
<1>4. QED
    BY <1>1, <1>2, <1>3 DEF OneEntry

LEMMA HandlerTidy == ASSUME Typed, Tidy, NEW h \in running, Deserialize(h) PROVE Tidy'
<1>1. WellFormed(h) /\ pendingMap \in Seq(Entry) /\ h.conn \in Conns
    BY DEF Typed, WellFormed, Handler
<1>2. UNCHANGED <<connections, serial, shared, owner>>
    BY DEF Deserialize, CharIdAndMapStart, CharIdAndMapResolved, MapLogin, MapChangedStart,
       MapChangedPending, MapLoadedCoords, MapLoadedDestination, MapLoadedSet, VenderFound,
       VenderItemsLists, OfflineCloneFound, ActorInfo, SystemChat, SpecialItemObtain,
       UpgradeItemBroadcast, CharEmblemUpdate, ServersList, Reporting, TableStep, history, game
<1> SUFFICES ASSUME OneHandler, OneEntry, CleanLogin, serial
             PROVE  (OneHandler /\ OneEntry /\ CleanLogin)'
    BY <1>2 DEF Tidy
<1>3. running = {h}
    BY DEF OneHandler
<1>4. ASSUME Finish(h) PROVE OneHandler' /\ CleanLogin'
    BY <1>3, <1>4 DEF Finish, OneHandler, CleanLogin
<1>5. ASSUME NEW stage \in Stages, NEW map, GoTo(h, stage, map), h.kind # "mapLogin"
      PROVE  OneHandler' /\ CleanLogin'
    <2> DEFINE g == [h EXCEPT !.stage = stage, !.map = map]
    <2>1. g.conn = h.conn /\ g.kind = h.kind
        BY <1>1 DEF WellFormed, Handler
    <2>2. running' = {g}
        BY <1>3, <1>5 DEF GoTo
    <2> HIDE DEF g
    <2>3. QED
        BY <1>2, <1>5, <2>1, <2>2 DEF OneHandler, CleanLogin
<1>6. ASSUME pendingMap' = pendingMap PROVE OneEntry'
    BY <1>2, <1>6 DEF OneEntry
<1> USE DEF At, Stages
<1>7. CASE CharIdAndMapStart(h)
    <2>1. /\ h.char \in Chars /\ h.map \in Maps /\ GoTo(h, "dns", h.map) /\ h.kind # "mapLogin"
          /\ pendingMap' = SetConnectionMapChar(pendingMap, h.char, h.conn, h.map)
        BY <1>1, <1>7 DEF CharIdAndMapStart, WellFormed
    <2>2. QED
        BY <1>2, <1>5, <2>1, SetMapTidy
<1>8. CASE CharIdAndMapResolved(h) \/ MapChangedPending(h)
    <2>1. h.map \in Maps /\ Finish(h)
        BY <1>1, <1>8 DEF CharIdAndMapResolved, MapChangedPending, WellFormed
    <2>2. CASE pendingMap' = pendingMap
        BY <1>4, <1>6, <2>1, <2>2
    <2>3. CASE pendingMap' # pendingMap
        <3>1. \/ pendingMap' = SetPendingMapByDestination(pendingMap, h.dest, h.map)
                   /\ h.dest \in Servers
              \/ pendingMap' = SetPendingMapChange(pendingMap, Host[ServerOf[h.conn]], h.map, h.xy)
                   /\ h.xy \in Spots /\ Host[ServerOf[h.conn]] \in Hosts
            BY <1>1, <1>8, <2>3, ServerFacts
            DEF CharIdAndMapResolved, MapChangedPending, WellFormed
        <3>2. /\ \A i \in DOMAIN pendingMap : pendingMap'[i] = pendingMap[i]
              /\ \A i \in DOMAIN pendingMap' \ DOMAIN pendingMap : pendingMap'[i].connId = None
            BY <1>1, <2>1, <3>1, AnnounceFacts
        <3>3. OneEntry'
            BY <1>2, <3>2, ConnFacts DEF OneEntry
        <3>4. QED
            BY <1>4, <2>1, <3>3
    <2>4. QED
        BY <2>2, <2>3
<1>9. CASE MapLogin(h)
    <2>1. /\ h.kind = "mapLogin" /\ h.char \in Chars /\ Finish(h)
          /\ pendingMap' = SetPendingMapByCharId(pendingMap, h.char, h.conn)
        BY <1>1, <1>9 DEF MapLogin, WellFormed
    <2>2. /\ DOMAIN pendingMap' = DOMAIN pendingMap
          /\ \A i \in DOMAIN pendingMap :
                pendingMap'[i].connId = IF pendingMap[i].charId = h.char THEN h.conn
                                                                         ELSE pendingMap[i].connId
        BY <1>1, <2>1, HandOverFacts
    <2>3. h.conn \in connections /\ owner[h.conn] # None
        BY <2>1 DEF OneHandler
    <2>4. h.conn \notin shared =>
          /\ \A i \in DOMAIN pendingMap : pendingMap[i].connId # h.conn
          /\ \A i, j \in DOMAIN pendingMap :
                pendingMap[i].charId = h.char /\ pendingMap[j].charId = h.char => i = j
        BY <2>1 DEF CleanLogin
    <2>5. OneEntry'
        BY <1>2, <2>2, <2>3, <2>4 DEF OneEntry
    <2>6. QED
        BY <1>4, <2>1, <2>5
<1>10. CASE MapChangedStart(h)
    <2>1. /\ h.map \in Maps /\ GoTo(h, "pending", h.map) /\ h.kind # "mapLogin"
          /\ pendingMap' = SetConnectionMapChar(pendingMap, None, h.conn, h.map)
        BY <1>1, <1>10 DEF MapChangedStart, SetConnectionMap, WellFormed
    <2>2. QED
        BY <1>2, <1>5, <2>1, SetMapTidy
<1>11. CASE MapLoadedCoords(h)
    BY <1>5, <1>6, <1>11 DEF MapLoadedCoords
<1>12. CASE MapLoadedDestination(h)
    BY <1>4, <1>5, <1>6, <1>12 DEF MapLoadedDestination
<1>13. CASE MapLoadedSet(h)
    <2>1. /\ h.map \in Maps /\ Finish(h)
          /\ pendingMap' = SetConnectionMapChar(pendingMap, None, h.conn, h.map)
        BY <1>1, <1>13 DEF MapLoadedSet, SetConnectionMap, WellFormed
    <2>2. QED
        BY <1>2, <1>4, <2>1, SetMapTidy
<1>14. ASSUME NEW reports, Reporting(h, reports) PROVE (OneHandler /\ OneEntry /\ CleanLogin)'
    BY <1>4, <1>6, <1>14 DEF Reporting
<1>15. QED
    BY <1>7, <1>8, <1>9, <1>10, <1>11, <1>12, <1>13, <1>14
    DEF Deserialize, VenderFound, VenderItemsLists, OfflineCloneFound, ActorInfo, SystemChat,
        SpecialItemObtain, UpgradeItemBroadcast, CharEmblemUpdate, ServersList

\* A connection's entry is cleared while no handler of it is at work.
LEMMA ClearTidy ==
    ASSUME Typed, Tidy, NEW c \in Conns, pendingMap' = ClearConnectionMap(pendingMap, c),
           connections \ {c} \subseteq connections',
           \A d \in Conns : d # c => owner'[d] = owner[d],
           running' = running, serial' = (serial /\ \A h \in running : h.conn # c),
           shared' = shared
    PROVE  Tidy'
<1> SUFFICES ASSUME serial' PROVE (OneHandler /\ OneEntry /\ CleanLogin)'
    BY DEF Tidy
<1>1. OneHandler /\ OneEntry /\ CleanLogin /\ (\A h \in running : h.conn # c)
    BY DEF Tidy
<1>2. \A h \in running : h.conn \in Conns
    BY DEF Typed, WellFormed, Handler
<1>3. PICK m \in [DOMAIN pendingMap' -> DOMAIN pendingMap] :
          /\ \A i \in DOMAIN pendingMap' : pendingMap'[i] = pendingMap[m[i]]
          /\ \A i, j \in DOMAIN pendingMap' : m[i] = m[j] => i = j
          /\ \A j \in DOMAIN pendingMap :
                pendingMap[j].connId # c => \E i \in DOMAIN pendingMap' : m[i] = j
          /\ (\A i, j \in DOMAIN pendingMap :
                 pendingMap[i].connId = c /\ pendingMap[j].connId = c => i = j)
                => \A i \in DOMAIN pendingMap' : pendingMap'[i].connId # c
    <2> DEFINE u == ClearConnectionMap(pendingMap, c)
    <2>1. \E m \in [DOMAIN u -> DOMAIN pendingMap] :
             /\ \A i \in DOMAIN u : u[i] = pendingMap[m[i]]
             /\ \A i, j \in DOMAIN u : m[i] = m[j] => i = j
             /\ \A j \in DOMAIN pendingMap :
                   pendingMap[j].connId # c => \E i \in DOMAIN u : m[i] = j
             /\ (\A i, j \in DOMAIN pendingMap :
                    pendingMap[i].connId = c /\ pendingMap[j].connId = c => i = j)
                   => \A i \in DOMAIN u : u[i].connId # c
        BY ClearFacts DEF Typed
    <2>2. pendingMap' = u
        OBVIOUS
    <2> HIDE DEF u
    <2>3. QED
        BY <2>1, <2>2
<1>4. c \notin shared => \A i \in DOMAIN pendingMap' : pendingMap'[i].connId # c
    BY <1>1, <1>3, ConnFacts DEF OneEntry
<1>5. OneHandler'
    BY <1>1, <1>2 DEF OneHandler
<1>6. OneEntry'
    BY <1>1, <1>3, <1>4 DEF OneEntry, MapConns
<1>7. CleanLogin'
    BY <1>1, <1>3 DEF CleanLogin
<1>8. QED
    BY <1>5, <1>6, <1>7

LEMMA TidyStep == Typed /\ Tidy /\ [Next]_vars => Tidy'
<1> SUFFICES ASSUME Typed, Tidy, [Next]_vars PROVE Tidy'
    OBVIOUS
<1>1. ASSUME NEW c \in Conns, ConnOpened(c) PROVE Tidy'
    <2>1. /\ connections \subseteq connections'
          /\ UNCHANGED <<pendingMap, running, owner, serial, shared>>
        BY <1>1 DEF ConnOpened, game, history
    <2>2. QED
        BY <2>1 DEF Tidy, OneHandler, OneEntry, CleanLogin
<1>2. ASSUME NEW c \in Conns, ConnClosed(c) \/ LinkLost(c) PROVE Tidy'
    <2>1. /\ pendingMap' = ClearConnectionMap(pendingMap, c)
          /\ connections \ {c} \subseteq connections'
          /\ running' = running /\ serial' = (serial /\ \A h \in running : h.conn # c)
          /\ shared' = shared /\ owner' \in {owner, [owner EXCEPT ![c] = None]}
        BY <1>2 DEF ConnClosed, LinkLost, game
    <2>2. \A d \in Conns : d # c => owner'[d] = owner[d]
        BY <2>1 DEF Typed, Playing
    <2>3. QED
        BY <2>1, <2>2, ClearTidy
<1>3. CASE ConsumerStep \/ UNCHANGED vars
    <2>1. UNCHANGED <<pendingMap, running, connections, owner, serial, shared>>
        BY <1>3 DEF ConsumerStep, vars, game, history
    <2>2. QED
        BY <2>1 DEF Tidy, OneHandler, OneEntry, CleanLogin
<1>4. QED
    BY <1>1, <1>2, <1>3, ArrivalTidy, HandlerTidy DEF Next, Processor

LEMMA TidyInit == Init => Tidy
BY DEF Init, Tidy, OneHandler, OneEntry, CleanLogin

(* A connection that closes leaves no entry, so the same id starts without *)
(* a map: for every number of packets, connections and characters, as long *)
(* as no two handlers anywhere, and no handler and the close of its        *)
(* connection, overlapped, and unless a login on the connection found      *)
(* several entries of its character.                                       *)
THEOREM ClosedIsForgotten == Spec => []ForgottenOnClose
<1>1. Tidy => ForgottenOnClose
    BY DEF Tidy, OneEntry, ForgottenOnClose
<1>2. QED
    BY <1>1, TypedInit, TypedStep, TidyInit, TidyStep, PTL DEF Spec
-----------------------------------------------------------------------------
(* The map of a connection.  Between the packet that tells a map and the   *)
(* handler's last step the table may be behind; the handler then holds the *)
(* map the player is on, or finds nothing else in the table.               *)

\* The entries that MapLoaded looks for.
Answers(p, h) ==
    \/ p.source = Host[ServerOf[h.conn]] /\ p.xy = h.xy
    \/ p.dest = ServerOf[h.conn]

\* What a handler will store is the map its player is on.
RightLookup ==
    \A h \in running :
        LET m == here[h.conn]
        IN  /\ h.kind = "mapLogin" =>
                  \A i \in DOMAIN pendingMap :
                      pendingMap[i].charId = h.char => pendingMap[i].mapName = m
            /\ h.kind = "mapChanged" => m \in {None, h.map}
            /\ h.kind = "mapLoaded" =>
                  /\ m # None
                  /\ h.stage = "set" => h.map = m
                  /\ h.stage # "set" => \A i \in DOMAIN pendingMap :
                                           Answers(pendingMap[i], h) => pendingMap[i].mapName = m

\* c's entry says the map c's player is on; once MapChanged stored it there
\* is such an entry, and MapLogin gives it to no other connection.
Known(c) ==
    /\ here[c] # None =>
          \A i \in DOMAIN pendingMap : pendingMap[i].connId = c => pendingMap[i].mapName = here[c]
    /\ c \in told => \E i \in DOMAIN pendingMap :
                         pendingMap[i].connId = c /\ pendingMap[i].charId = None

\* A MapChanged of c whose handler has not begun.
Moving(c) ==
    \E h \in running : h.kind = "mapChanged" /\ h.stage = "start" /\ h.conn = c

KnownUnlessMoving == \A c \in Conns \ shared : ~Moving(c) => Known(c)

Sound == serial /\ fresh => RightLookup /\ KnownUnlessMoving

\* A packet arrives while no handler is at work.
LEMMA ArriveSound ==
    ASSUME Sound, NEW kind, NEW c \in Conns, NEW ch, NEW map, NEW xy, NEW s,
           Arrive(kind, c, ch, map, xy, s), fresh' => fresh, shared \subseteq shared',
           serial /\ fresh' /\ KnownUnlessMoving =>
               /\ \A d \in Conns \ shared' : (kind = "mapChanged" /\ d = c) \/ (Known(d) => Known(d)')
               /\ kind = "mapLogin" =>
                     \A i \in DOMAIN pendingMap :
                         pendingMap[i].charId = ch => pendingMap[i].mapName = here'[c]
               /\ kind = "mapChanged" => here'[c] \in {None, map}
               /\ kind = "mapLoaded" =>
                     /\ here'[c] # None
                     /\ \A i \in DOMAIN pendingMap :
                           \/ pendingMap[i].source = Host[ServerOf[c]] /\ pendingMap[i].xy = xy
                           \/ pendingMap[i].dest = ServerOf[c]
                           => pendingMap[i].mapName = here'[c]
    PROVE  Sound'
<1> DEFINE h == [n |-> frames + 1, kind |-> kind, stage |-> "start", conn |-> c,
                 char |-> ch, map |-> map, xy |-> xy, dest |-> s]
<1>1. /\ running' = running \cup {h} /\ serial' = (serial /\ running = {})
      /\ pendingMap' = pendingMap
    BY DEF Arrive
<1>2. h.conn = c /\ h.kind = kind /\ h.char = ch /\ h.map = map /\ h.xy = xy /\ h.stage = "start"
    OBVIOUS
<1> HIDE DEF h
<1> SUFFICES ASSUME serial', fresh' PROVE RightLookup' /\ KnownUnlessMoving'
    BY DEF Sound
<1>3. serial /\ fresh /\ running = {} /\ running' = {h}
    BY <1>1
<1>4. RightLookup /\ KnownUnlessMoving /\ \A d \in Conns \ shared : Known(d)
    BY <1>3 DEF Sound, KnownUnlessMoving, Moving
<1>5. RightLookup'
    BY <1>1, <1>2, <1>3, <1>4 DEF RightLookup, Answers
<1>6. KnownUnlessMoving'
    <2> SUFFICES ASSUME NEW d \in Conns \ shared', ~Moving(d)' PROVE Known(d)'
        BY DEF KnownUnlessMoving
    <2>1. ~(kind = "mapChanged" /\ d = c)
        BY <1>2, <1>3 DEF Moving
    <2>2. QED
        BY <1>3, <1>4, <2>1
<1>7. QED
    BY <1>5, <1>6

LEMMA ArrivalSound == ASSUME Typed, Tidy, Sound, Arrival PROVE Sound'
<1>a. Playing
    BY DEF Typed
<1>b. ASSUME NEW kind, NEW c \in Conns, NEW ch, NEW map, NEW xy, NEW s,
             Arrive(kind, c, ch, map, xy, s)
      PROVE  pendingMap' = pendingMap
    BY <1>b DEF Arrive
<1>1. ASSUME NEW c \in Conns, NEW ch \in Chars, NEW m \in Maps, NEW s \in Servers,
             CharSelected(c, ch, m, s)
      PROVE  Sound'
    <2>1. Arrive("charIdAndMap", c, ch, m, None, s) /\ UNCHANGED <<told, fresh, shared>>
          /\ here' = [d \in Conns |-> IF owner[d] = ch THEN None ELSE here[d]]
        BY <1>1 DEF CharSelected
    <2>2. \A d \in Conns : Known(d) => Known(d)'
        BY <1>b, <2>1 DEF Known
    <2>3. QED
        BY <2>1, <2>2, ArriveSound
<1>2. ASSUME NEW c \in Conns, NEW ch \in Chars, LoggedIn(c, ch) PROVE Sound'
    <2>1. /\ Arrive("mapLogin", c, ch, None, None, None) /\ told' = told
          /\ c \in MapConns /\ owner[c] = None /\ here' = [here EXCEPT ![c] = goal[ch].map]
          /\ fresh' => fresh
          /\ shared' \in {shared, shared \cup {c}}
          /\ fresh' => \A i \in DOMAIN pendingMap :
                          pendingMap[i].charId = ch => pendingMap[i].mapName = goal[ch].map
        BY <1>2 DEF LoggedIn
    <2>2. here'[c] = goal[ch].map /\ c \notin told
          /\ \A d \in Conns : d # c => here'[d] = here[d]
        BY <1>a, <2>1 DEF Playing
    <2>3. ASSUME serial, c \notin shared PROVE \A i \in DOMAIN pendingMap : pendingMap[i].connId # c
        BY <2>1, <2>3 DEF Tidy, OneEntry
    <2>4. ASSUME serial, NEW d \in Conns \ shared', Known(d) PROVE Known(d)'
        BY <1>b, <2>1, <2>2, <2>3, <2>4 DEF Known
    <2>5. QED
        BY <2>1, <2>2, <2>4, ArriveSound
<1>3. ASSUME NEW c \in Conns, NEW m \in Maps, NEW xy \in Spots, NEW s \in Servers,
             Moved(c, m, xy, s)
      PROVE  Sound'
    <2>1. /\ Arrive("mapChanged", c, None, m, xy, None) /\ UNCHANGED <<fresh, shared>>
          /\ told' = told \cup {c}
          /\ here' = [here EXCEPT ![c] = m] \/ here' = [here EXCEPT ![c] = None]
        BY <1>3 DEF Moved
    <2>2. here'[c] \in {None, m} /\ \A d \in Conns : d # c => here'[d] = here[d]
        BY <1>a, <2>1 DEF Playing
    <2>3. ASSUME NEW d \in Conns, d # c, Known(d) PROVE Known(d)'
        BY <1>b, <2>1, <2>2, <2>3 DEF Known
    <2>4. QED
        BY <2>1, <2>2, <2>3, ArriveSound
<1>4. ASSUME NEW c \in Conns, NEW xy \in Spots, Loaded(c, xy) PROVE Sound'
    <2>1. /\ Arrive("mapLoaded", c, None, None, xy, None) /\ UNCHANGED <<told, here, shared>>
          /\ here[c] # None /\ (fresh' => fresh)
          /\ fresh' => \A i \in DOMAIN pendingMap :
                 \/ pendingMap[i].source = Host[ServerOf[c]] /\ pendingMap[i].xy = xy
                 \/ pendingMap[i].dest = ServerOf[c]
                 => pendingMap[i].mapName = here[c]
        BY <1>4 DEF Loaded, game
    <2>2. \A d \in Conns : Known(d) => Known(d)'
        BY <1>b, <2>1 DEF Known
    <2>3. QED
        BY <2>1, <2>2, ArriveSound
<1>5. ASSUME NEW c \in Conns, Seen(c) PROVE Sound'
    <2>1. Arrive("report", c, None, None, None, None) /\ UNCHANGED <<told, here, fresh, shared>>
        BY <1>5 DEF Seen, game
    <2>2. \A d \in Conns : Known(d) => Known(d)'
        BY <1>b, <2>1 DEF Known
    <2>3. QED
        BY <2>1, <2>2, ArriveSound
<1>6. QED
    BY <1>1, <1>2, <1>3, <1>4, <1>5 DEF Arrival

\* What a stored map changes.
LEMMA SetMapKnown ==
    ASSUME Typed, OneHandler, OneEntry, NEW h \in running, NEW ch \in Chars \cup {None},
           h.map \in Maps, UNCHANGED <<here, told>>,
           pendingMap' = SetConnectionMapChar(pendingMap, ch, h.conn, h.map),
           NEW d \in Conns \ shared,
           IF d = h.conn THEN here[d] \in {None, h.map} /\ (d \in told => ch = None) ELSE Known(d)
    PROVE  Known(d)'
<1>1. h.conn \in Conns /\ h.conn # None
    BY ConnFacts DEF Typed, WellFormed, Handler
<1>2. PICK k \in DOMAIN pendingMap' :
          /\ pendingMap'[k].charId = ch /\ pendingMap'[k].connId = h.conn
          /\ pendingMap'[k].mapName = h.map
          /\ IF k \in DOMAIN pendingMap
                THEN pendingMap[k].connId = h.conn
                ELSE \A i \in DOMAIN pendingMap : pendingMap[i].connId # h.conn
          /\ \A i \in DOMAIN pendingMap' :
                i # k => i \in DOMAIN pendingMap /\ pendingMap'[i] = pendingMap[i]
    <2> DEFINE u == SetConnectionMapChar(pendingMap, ch, h.conn, h.map)
    <2>1. \E k \in DOMAIN u :
             /\ u[k].charId = ch /\ u[k].connId = h.conn /\ u[k].mapName = h.map
             /\ IF k \in DOMAIN pendingMap
                   THEN pendingMap[k].connId = h.conn
                   ELSE \A i \in DOMAIN pendingMap : pendingMap[i].connId # h.conn
             /\ \A i \in DOMAIN u : i # k => i \in DOMAIN pendingMap /\ u[i] = pendingMap[i]
        BY <1>1, SetMapFacts DEF Typed
    <2>2. pendingMap' = u
        OBVIOUS
    <2> HIDE DEF u
    <2>3. QED
        BY <2>1, <2>2
<1>3. h.conn \notin shared => \A i \in DOMAIN pendingMap' : i # k => pendingMap'[i].connId # h.conn
    BY <1>1, <1>2 DEF OneEntry
<1>4. DOMAIN pendingMap \subseteq DOMAIN pendingMap'
    BY <1>1, SetMapFacts DEF Typed
<1>5. CASE d = h.conn
    BY <1>2, <1>3, <1>5 DEF Known
<1>6. CASE d # h.conn
    <2>1. \A i \in DOMAIN pendingMap' : pendingMap'[i].connId = d =>
              i \in DOMAIN pendingMap /\ pendingMap'[i] = pendingMap[i]
        BY <1>2, <1>6
    <2>2. \A i \in DOMAIN pendingMap : pendingMap[i].connId = d =>
              i \in DOMAIN pendingMap' /\ pendingMap'[i] = pendingMap[i]
        BY <1>2, <1>4, <1>6
    <2>3. QED
        BY <1>6, <2>1, <2>2 DEF Known
<1>7. QED
    BY <1>5, <1>6

LEMMA HandlerSound ==
    ASSUME Typed, Tidy, Sound, NEW h \in running, Deserialize(h) PROVE Sound'
<1>1. WellFormed(h) /\ pendingMap \in Seq(Entry) /\ h.conn \in Conns /\ Playing
    BY DEF Typed, WellFormed, Handler
<1>2. UNCHANGED <<serial, fresh, shared, here, told>>
    BY DEF Deserialize, CharIdAndMapStart, CharIdAndMapResolved, MapLogin, MapChangedStart,
       MapChangedPending, MapLoadedCoords, MapLoadedDestination, MapLoadedSet, VenderFound,
       VenderItemsLists, OfflineCloneFound, ActorInfo, SystemChat, SpecialItemObtain,
       UpgradeItemBroadcast, CharEmblemUpdate, ServersList, Reporting, TableStep, history, game
<1> SUFFICES ASSUME OneHandler, OneEntry, CleanLogin, RightLookup, KnownUnlessMoving, serial, fresh
             PROVE  RightLookup' /\ KnownUnlessMoving'
    BY <1>2 DEF Tidy, Sound
<1>3. running = {h}
    BY DEF OneHandler
<1>4. ASSUME Finish(h) PROVE RightLookup'
    BY <1>3, <1>4 DEF Finish, RightLookup
<1>5. ASSUME NEW stage \in Stages, NEW map, GoTo(h, stage, map)
      PROVE  \E g : /\ running' = {g} /\ g.conn = h.conn /\ g.kind = h.kind /\ g.xy = h.xy
                    /\ g.stage = stage /\ g.map = map
    <2> DEFINE g == [h EXCEPT !.stage = stage, !.map = map]
    <2>1. /\ g.conn = h.conn /\ g.kind = h.kind /\ g.xy = h.xy
          /\ g.stage = stage /\ g.map = map
        BY <1>1 DEF WellFormed, Handler
    <2>2. running' = {g}
        BY <1>3, <1>5 DEF GoTo
    <2> HIDE DEF g
    <2>3. QED
        BY <2>1, <2>2
<1>6. \A d \in Conns \ shared : ~(h.kind = "mapChanged" /\ h.stage = "start" /\ h.conn = d) => Known(d)
    BY <1>3 DEF KnownUnlessMoving, Moving
<1>7. ASSUME pendingMap' = pendingMap, NEW d \in Conns \ shared, Known(d) PROVE Known(d)'
    BY <1>2, <1>7 DEF Known
<1>8. ASSUME \A d \in Conns \ shared : Known(d)' PROVE KnownUnlessMoving'
    BY <1>2, <1>8 DEF KnownUnlessMoving
<1> USE DEF At, Stages
<1>9. CASE CharIdAndMapStart(h)
    <2>1. /\ h.kind = "charIdAndMap" /\ h.char \in Chars /\ h.map \in Maps
          /\ GoTo(h, "dns", h.map) /\ h.conn \notin MapConns
          /\ pendingMap' = SetConnectionMapChar(pendingMap, h.char, h.conn, h.map)
        BY <1>1, <1>9 DEF CharIdAndMapStart, WellFormed
    <2>2. here[h.conn] = None /\ h.conn \notin told
        BY <1>1, <2>1 DEF Playing
    <2>3. \A d \in Conns \ shared : Known(d)'
        BY <1>2, <1>6, <2>1, <2>2, SetMapKnown
    <2>4. RightLookup'
        BY <1>5, <2>1 DEF RightLookup
    <2>5. QED
        BY <1>8, <2>3, <2>4
<1>10. CASE CharIdAndMapResolved(h) \/ MapChangedPending(h)
    <2>1. h.map \in Maps /\ Finish(h) /\ h.stage # "start"
        BY <1>1, <1>10 DEF CharIdAndMapResolved, MapChangedPending, WellFormed
    <2>2. \A d \in Conns \ shared : Known(d)
        BY <1>6, <2>1
    <2>3. CASE pendingMap' = pendingMap
        BY <1>4, <1>7, <1>8, <2>1, <2>2, <2>3
    <2>4. CASE pendingMap' # pendingMap
        <3>1. \/ pendingMap' = SetPendingMapByDestination(pendingMap, h.dest, h.map)
                   /\ h.dest \in Servers
              \/ pendingMap' = SetPendingMapChange(pendingMap, Host[ServerOf[h.conn]], h.map, h.xy)
                   /\ h.xy \in Spots /\ Host[ServerOf[h.conn]] \in Hosts
            BY <1>1, <1>10, <2>4, ServerFacts
            DEF CharIdAndMapResolved, MapChangedPending, WellFormed
        <3>2. /\ DOMAIN pendingMap \subseteq DOMAIN pendingMap'
              /\ \A i \in DOMAIN pendingMap : pendingMap'[i] = pendingMap[i]
              /\ \A i \in DOMAIN pendingMap' \ DOMAIN pendingMap : pendingMap'[i].connId = None
            BY <1>1, <2>1, <3>1, AnnounceFacts
        <3>3. \A d \in Conns \ shared : Known(d)'
            BY <1>2, <2>2, <3>2, ConnFacts DEF Known
        <3>4. QED
            BY <1>4, <1>8, <2>1, <3>3
    <2>5. QED
        BY <2>3, <2>4
<1>11. CASE MapLogin(h)
    <2>1. /\ h.kind = "mapLogin" /\ h.char \in Chars /\ h.char # None /\ Finish(h)
          /\ pendingMap' = SetPendingMapByCharId(pendingMap, h.char, h.conn)
        BY <1>1, <1>11, ConnFacts DEF MapLogin, WellFormed
    <2>2. /\ DOMAIN pendingMap' = DOMAIN pendingMap
          /\ \A i \in DOMAIN pendingMap :
                /\ pendingMap'[i].connId = IF pendingMap[i].charId = h.char
                                              THEN h.conn ELSE pendingMap[i].connId
                /\ pendingMap'[i].charId = pendingMap[i].charId
                /\ pendingMap'[i].mapName = pendingMap[i].mapName
        BY <1>1, <2>1, HandOverFacts
    <2>3. h.conn \notin shared => \A i \in DOMAIN pendingMap : pendingMap[i].connId # h.conn
        BY <2>1 DEF CleanLogin
    <2>4. \A i \in DOMAIN pendingMap :
              pendingMap[i].charId = h.char => pendingMap[i].mapName = here[h.conn]
        BY <2>1 DEF RightLookup
    <2>5. ASSUME NEW d \in Conns \ shared PROVE Known(d)'
        <3>1. Known(d)
            BY <1>6, <2>1
        <3>2. CASE d = h.conn
            BY <1>2, <2>2, <2>3, <2>4, <3>1, <3>2 DEF Known
        <3>3. CASE d # h.conn
            BY <1>2, <2>1, <2>2, <3>1, <3>3 DEF Known
        <3>4. QED
            BY <3>2, <3>3
    <2>6. QED
        BY <1>4, <1>8, <2>1, <2>5
<1>12. CASE MapChangedStart(h)
    <2>1. /\ h.kind = "mapChanged" /\ h.map \in Maps /\ GoTo(h, "pending", h.map)
          /\ pendingMap' = SetConnectionMapChar(pendingMap, None, h.conn, h.map)
          /\ here[h.conn] \in {None, h.map}
        BY <1>1, <1>12 DEF MapChangedStart, SetConnectionMap, WellFormed, RightLookup
    <2>2. \A d \in Conns \ shared : Known(d)'
        BY <1>2, <1>6, <2>1, SetMapKnown
    <2>3. RightLookup'
        BY <1>2, <1>5, <2>1 DEF RightLookup
    <2>4. QED
        BY <1>8, <2>2, <2>3
<1>13. CASE MapLoadedCoords(h) \/ MapLoadedDestination(h)
    <2> DEFINE m  == GetPendingMapChange(pendingMap, Host[ServerOf[h.conn]], h.xy)
               m2 == GetPendingMapByDestination(pendingMap, ServerOf[h.conn])
    <2>1. h.kind = "mapLoaded" /\ h.stage # "set" /\ pendingMap' = pendingMap /\ h.conn \in MapConns
        BY <1>1, <1>13 DEF MapLoadedCoords, MapLoadedDestination, WellFormed
    <2>2. /\ here[h.conn] # None
          /\ \A i \in DOMAIN pendingMap :
                Answers(pendingMap[i], h) => pendingMap[i].mapName = here[h.conn]
        BY <2>1 DEF RightLookup
    <2>3. m \in {None, here[h.conn]} /\ m2 \in {None, here[h.conn]}
        <3> DEFINE I == {i \in DOMAIN pendingMap : /\ pendingMap[i].source = Host[ServerOf[h.conn]]
                                                   /\ pendingMap[i].xy = h.xy}
                   J == {i \in DOMAIN pendingMap : pendingMap[i].dest = ServerOf[h.conn]}
        <3>1. m = FirstMap(pendingMap, I) /\ m2 = FirstMap(pendingMap, J)
            BY DEF GetPendingMapChange, GetPendingMapByDestination
        <3>2. /\ I \subseteq DOMAIN pendingMap /\ J \subseteq DOMAIN pendingMap
              /\ \A i \in I \cup J : pendingMap[i].mapName = here[h.conn]
            BY <2>2 DEF Answers
        <3> HIDE DEF I, J, m, m2
        <3>3. QED
            BY <1>1, <3>1, <3>2, FirstMapFacts
    <2>4. \A d \in Conns \ shared : Known(d)'
        BY <1>6, <1>7, <2>1
    <2>5. \/ Finish(h)
          \/ GoTo(h, "destination", m)
          \/ \E x \in {m, m2} : x # None /\ GoTo(h, "set", x)
        BY <1>13 DEF MapLoadedCoords, MapLoadedDestination
    <2> HIDE DEF m, m2
    <2>6. CASE \E x \in {m, m2} : x # None /\ GoTo(h, "set", x)
        <3>1. RightLookup'
            BY <1>2, <1>5, <2>1, <2>2, <2>3, <2>6 DEF RightLookup
        <3>2. QED
            BY <1>8, <2>4, <3>1
    <2>7. CASE GoTo(h, "destination", m)
        <3>1. PICK g : /\ running' = {g} /\ g.conn = h.conn /\ g.kind = h.kind /\ g.xy = h.xy
                       /\ g.stage = "destination"
            BY <1>5, <2>7
        <3>2. RightLookup'
            BY <1>2, <2>1, <2>2, <3>1 DEF RightLookup, Answers
        <3>3. QED
            BY <1>8, <2>4, <3>2
    <2>8. QED
        BY <1>4, <1>8, <2>4, <2>5, <2>6, <2>7
<1>14. CASE MapLoadedSet(h)
    <2>1. /\ h.kind = "mapLoaded" /\ h.map \in Maps /\ Finish(h)
          /\ pendingMap' = SetConnectionMapChar(pendingMap, None, h.conn, h.map)
          /\ here[h.conn] = h.map
        BY <1>1, <1>14 DEF MapLoadedSet, SetConnectionMap, WellFormed, RightLookup
    <2>2. \A d \in Conns \ shared : Known(d)'
        BY <1>2, <1>6, <2>1, SetMapKnown
    <2>3. QED
        BY <1>4, <1>8, <2>1, <2>2
<1>15. ASSUME NEW reports, Reporting(h, reports) PROVE RightLookup' /\ KnownUnlessMoving'
    <2>1. h.kind = "report" /\ Finish(h) /\ pendingMap' = pendingMap
        BY <1>15 DEF Reporting
    <2>2. \A d \in Conns \ shared : Known(d)'
        BY <1>6, <1>7, <2>1
    <2>3. QED
        BY <1>4, <1>8, <2>1, <2>2
<1>16. QED
    BY <1>9, <1>10, <1>11, <1>12, <1>13, <1>14, <1>15
    DEF Deserialize, VenderFound, VenderItemsLists, OfflineCloneFound, ActorInfo, SystemChat,
        SpecialItemObtain, UpgradeItemBroadcast, CharEmblemUpdate, ServersList

\* A connection's entry is cleared while no handler of it is at work.
LEMMA ClearSound ==
    ASSUME Typed, Tidy, Sound, NEW c \in Conns, ConnClosed(c) \/ LinkLost(c)
    PROVE  Sound'
<1>1. /\ pendingMap' = ClearConnectionMap(pendingMap, c) /\ told' = told \ {c}
      /\ running' = running /\ serial' = (serial /\ \A h \in running : h.conn # c)
      /\ UNCHANGED <<fresh, shared>> /\ here' \in {here, [here EXCEPT ![c] = None]}
    BY DEF ConnClosed, LinkLost, game
<1> SUFFICES ASSUME serial', fresh' PROVE RightLookup' /\ KnownUnlessMoving'
    BY DEF Sound
<1>2. /\ OneEntry /\ RightLookup /\ KnownUnlessMoving
      /\ \A h \in running : h.conn # c /\ h.conn \in Conns
    BY <1>1 DEF Tidy, Sound, Typed, WellFormed, Handler
<1>3. \A d \in Conns : d # c => here'[d] = here[d]
    BY <1>1 DEF Typed, Playing
<1>4. PICK m \in [DOMAIN pendingMap' -> DOMAIN pendingMap] :
          /\ \A i \in DOMAIN pendingMap' : pendingMap'[i] = pendingMap[m[i]]
          /\ \A j \in DOMAIN pendingMap :
                pendingMap[j].connId # c => \E i \in DOMAIN pendingMap' : m[i] = j
          /\ (\A i, j \in DOMAIN pendingMap :
                 pendingMap[i].connId = c /\ pendingMap[j].connId = c => i = j)
                => \A i \in DOMAIN pendingMap' : pendingMap'[i].connId # c
    <2> DEFINE u == ClearConnectionMap(pendingMap, c)
    <2>1. \E m \in [DOMAIN u -> DOMAIN pendingMap] :
             /\ \A i \in DOMAIN u : u[i] = pendingMap[m[i]]
             /\ \A i, j \in DOMAIN u : m[i] = m[j] => i = j
             /\ \A j \in DOMAIN pendingMap :
                   pendingMap[j].connId # c => \E i \in DOMAIN u : m[i] = j
             /\ (\A i, j \in DOMAIN pendingMap :
                    pendingMap[i].connId = c /\ pendingMap[j].connId = c => i = j)
                   => \A i \in DOMAIN u : u[i].connId # c
        BY ClearFacts DEF Typed
    <2>2. pendingMap' = u
        BY <1>1
    <2> HIDE DEF u
    <2>3. QED
        BY <2>1, <2>2
<1>5. c \notin shared => \A i \in DOMAIN pendingMap' : pendingMap'[i].connId # c
    BY <1>2, <1>4, ConnFacts DEF OneEntry
<1>6. RightLookup'
    BY <1>1, <1>2, <1>3, <1>4 DEF RightLookup, Answers
<1>7. ASSUME NEW d \in Conns \ shared, ~Moving(d)' PROVE Known(d)'
    <2>1. CASE d = c
        BY <1>1, <1>5, <2>1 DEF Known
    <2>2. CASE d # c
        <3>1. Known(d)
            BY <1>1, <1>2, <1>7 DEF KnownUnlessMoving, Moving
        <3>2. \A i \in DOMAIN pendingMap' : m[i] \in DOMAIN pendingMap
            BY <1>4
        <3>3. here'[d] = here[d] /\ (d \in told' => d \in told)
            BY <1>1, <1>3, <2>2
        <3>4. ASSUME NEW j \in DOMAIN pendingMap, pendingMap[j].connId = d,
                     pendingMap[j].charId = None
              PROVE  \E i \in DOMAIN pendingMap' : /\ pendingMap'[i].connId = d
                                                   /\ pendingMap'[i].charId = None
            BY <1>4, <2>2, <3>4
        <3>5. QED
            BY <1>4, <3>1, <3>2, <3>3, <3>4 DEF Known
    <2>3. QED
        BY <2>1, <2>2
<1>8. QED
    BY <1>1, <1>6, <1>7 DEF KnownUnlessMoving

LEMMA SoundStep == Typed /\ Tidy /\ Sound /\ [Next]_vars => Sound'
<1> SUFFICES ASSUME Typed, Tidy, Sound, [Next]_vars PROVE Sound'
    OBVIOUS
<1>1. ASSUME \/ \E c \in Conns : ConnOpened(c)
             \/ ConsumerStep
             \/ UNCHANGED vars
      PROVE  Sound'
    <2>1. UNCHANGED <<pendingMap, running, here, told, serial, fresh, shared>>
        BY <1>1 DEF ConnOpened, ConsumerStep, vars, game, history
    <2>2. QED
        BY <2>1 DEF Sound, RightLookup, Answers, KnownUnlessMoving, Moving, Known
<1>2. QED
    BY <1>1, ArrivalSound, HandlerSound, ClearSound DEF Next, Processor

LEMMA SoundInit == Init => Sound
<1>1. DOMAIN <<>> = {}
    OBVIOUS
<1>2. QED
    BY <1>1 DEF Init, Sound, RightLookup, KnownUnlessMoving, Known

(* The map reported for a connection is the map its player is on, or none  *)
(* while no packet told it: for every number of packets, characters, maps  *)
(* and connections, in every order of selections, logins, moves, loads,    *)
(* closes and lost links, as long as no two handlers overlapped and no     *)
(* lookup met an entry of an earlier visit, and unless a login on the      *)
(* connection found several entries of its character.                      *)
THEOREM MapIsRight == Spec => []RightMap
<1>1. Typed /\ Sound => RightMap
    <2> SUFFICES ASSUME Typed, Sound, serial, fresh, running = {},
                        NEW c \in connections \ shared, here[c] # None
                 PROVE  KnowsMap(c)
        BY DEF RightMap
    <2> DEFINE I == {i \in DOMAIN pendingMap : pendingMap[i].connId = c}
    <2>1. Known(c) /\ pendingMap \in Seq(Entry)
        BY DEF Typed, Sound, KnownUnlessMoving, Moving
    <2>2. GetConnectionMap(pendingMap, c) = FirstMap(pendingMap, I)
        BY DEF GetConnectionMap
    <2>3. I \subseteq DOMAIN pendingMap /\ \A i \in I : pendingMap[i].mapName = here[c]
        BY <2>1 DEF Known
    <2>4. c \in told => I # {}
        BY <2>1 DEF Known
    <2> HIDE DEF I
    <2>5. FirstMap(pendingMap, I) = IF I = {} THEN None ELSE here[c]
        BY <2>1, <2>3, FirstMapFacts
    <2>6. QED
        BY <2>2, <2>4, <2>5 DEF KnowsMap
<1>2. QED
    BY <1>1, TypedInit, TypedStep, TidyInit, TidyStep, SoundInit, SoundStep, PTL DEF Spec
=============================================================================
