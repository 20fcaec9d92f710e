---------------------------- MODULE WorkerProofs ----------------------------
(***************************************************************************)
(* Theorems about Worker, for every number of chunks and of permits.       *)
(***************************************************************************)
EXTENDS Worker, SequenceTheorems, TLAPS

Chunks == [dir : Direction, kind : {"part", "end", "bad"}]

LEMMA TypeInit == Init => TypeOK
<1> SUFFICES ASSUME Init PROVE TypeOK
    OBVIOUS
<1>1. input \in Seq(Chunks) /\ Len(input) = 0
    BY EmptySeq DEF Init, Chunks
<1>2. /\ buffer \in [Direction -> Seq(Chunk)]
      /\ packets \in [Direction -> Seq(Seq(Chunk))]
    BY EmptySeq DEF Init
<1>3. /\ Len(input) <= MaxChunks /\ taken \in 0 .. Len(input)
      /\ wg \in -1 .. 1 /\ wg # -1 /\ ending \in 0 .. taken
    BY <1>1, WorkerAssumption DEF Init
<1>4. QED
    BY <1>1, <1>2, <1>3 DEF Init, TypeOK, Chunks

\* The counters of a step that receives a chunk.
LEMMA TakeCounts ==
    ASSUME TypeOK, Waiting, taken' = taken + 1, input' = input
    PROVE  /\ taken' \in 0 .. Len(input') /\ taken + 1 \in Chunk
           /\ input[taken + 1] \in Chunks
<1>1. input \in Seq(Chunks) /\ taken \in 0 .. Len(input) /\ Len(input) <= MaxChunks
    BY DEF TypeOK, Chunks
<1>2. Len(input) \in Nat /\ taken < Len(input)
    BY <1>1, LenProperties DEF Waiting
<1>3. taken + 1 \in 1 .. Len(input)
    BY <1>1, <1>2
<1>4. input[taken + 1] \in Chunks
    BY <1>1, <1>3, ElementOfSeq
<1>5. QED
    BY <1>1, <1>2, <1>3, <1>4, WorkerAssumption DEF Chunk

LEMMA ParseType ==
    ASSUME TypeOK, NEW d \in Direction, NEW n \in Chunk, NEW kind, Parse(d, n, kind)
    PROVE  /\ buffer' \in [Direction -> Seq(Chunk)]
           /\ packets' \in [Direction -> Seq(Seq(Chunk))]
           /\ deser' \in [Chunk -> {"none", "spawned", "running", "done"}]
<1>1. buffer[d] \in Seq(Chunk) /\ packets[d] \in Seq(Seq(Chunk))
    BY DEF TypeOK
<1>2. Append(buffer[d], n) \in Seq(Chunk)
    BY <1>1
<1>3. Append(packets[d], Append(buffer[d], n)) \in Seq(Seq(Chunk))
    BY <1>1, <1>2
<1>4. <<>> \in Seq(Chunk)
    BY EmptySeq
<1>5. CASE kind = "end"
    BY <1>3, <1>4, <1>5 DEF Parse, TypeOK
<1>6. CASE kind # "end"
    BY <1>2, <1>6 DEF Parse, TypeOK
<1>7. QED
    BY <1>5, <1>6

LEMMA DoneType ==
    ASSUME TypeOK, ~crashed, Done
    PROVE  wg' \in -1 .. 1 /\ crashed' \in BOOLEAN /\ (~crashed' => wg' # -1)
<1>1. wg \in 0 .. 1
    BY DEF TypeOK
<1>2. wg' \in -1 .. 1 /\ (wg # 0 => wg' # -1)
    BY <1>1 DEF Done
<1>3. crashed' = (wg = 0)
    BY Zenon DEF Done
<1>4. crashed' \in BOOLEAN
    BY <1>3, Zenon
<1>5. wg = 0 => crashed'
    BY <1>3, Zenon
<1>6. QED
    BY <1>2, <1>4, <1>5

LEMMA TypeStep == TypeOK /\ [Next]_vars => TypeOK'
<1> SUFFICES ASSUME TypeOK, [Next]_vars PROVE TypeOK'
    OBVIOUS
<1>1. ASSUME NEW d \in Direction, NEW kind \in Kind(d), SendChunk(d, kind) PROVE TypeOK'
    <2>1. [dir |-> d, kind |-> kind] \in Chunks
        BY DEF Chunks, Kind
    <2>2. input \in Seq(Chunks) /\ Len(input) < MaxChunks /\ Len(input) \in Nat
        BY <1>1, LenProperties DEF TypeOK, SendChunk, Chunks
    <2>3. /\ input' \in Seq(Chunks) /\ Len(input') <= MaxChunks
          /\ Len(input') = Len(input) + 1
        BY <1>1, <2>1, <2>2, AppendProperties, WorkerAssumption DEF SendChunk
    <2>4. taken' \in 0 .. Len(input')
        BY <1>1, <2>2, <2>3 DEF TypeOK, SendChunk
    <2>5. QED
        BY <1>1, <2>3, <2>4 DEF TypeOK, SendChunk, parsing, life, history, Chunks
<1>2. CASE CloseWorker
    BY <1>2 DEF TypeOK, CloseWorker, parsing, life, history
<1>3. CASE CancelParent
    BY <1>3 DEF TypeOK, CancelParent, parsing, life, history
<1>4. CASE WaitStart
    BY <1>4 DEF TypeOK, WaitStart, inbox, parsing, history
<1>5. CASE WaitReturn
    BY <1>5 DEF TypeOK, WaitReturn, inbox, parsing, history
<1>6. CASE TakeChunk
    <2> DEFINE d == input[taken + 1].dir
    <2>1. taken' = taken + 1 /\ UNCHANGED <<input, ending>> /\ Waiting
        BY <1>6 DEF TakeChunk, life
    <2>2. taken' \in 0 .. Len(input') /\ taken + 1 \in Chunk /\ d \in Direction
        BY <2>1, TakeCounts DEF Chunks
    <2>3. Parse(d, taken + 1, input[taken + 1].kind)
        BY <1>6 DEF TakeChunk
    <2>4. /\ buffer' \in [Direction -> Seq(Chunk)]
          /\ packets' \in [Direction -> Seq(Seq(Chunk))]
          /\ deser' \in [Chunk -> {"none", "spawned", "running", "done"}]
        <3> HIDE DEF d
        <3>1. QED
            BY <2>2, <2>3, ParseType
    <2>5. ending' \in 0 .. taken'
        BY <2>1 DEF TypeOK
    <2> HIDE DEF d
    <2>6. QED
        BY <1>6, <2>2, <2>4, <2>5 DEF TypeOK, TakeChunk, life, history
<1>7. CASE TakePanics
    <2>1. /\ taken' = taken + 1 /\ UNCHANGED input /\ Waiting
          /\ ending' = ending + 1
        BY <1>7 DEF TakePanics, Restart
    <2>2. taken' \in 0 .. Len(input')
        BY <2>1, TakeCounts
    <2>3. buffer' \in [Direction -> Seq(Chunk)]
        BY <1>7, EmptySeq DEF TakePanics
    <2>4. ending' \in 0 .. taken'
        BY <2>1 DEF TypeOK
    <2>5. QED
        BY <1>7, <2>2, <2>3, <2>4 DEF TypeOK, TakePanics, Restart
<1>8. CASE FinishPanic
    <2>1. ending' \in 0 .. taken' /\ Done /\ ~crashed
        BY <1>8 DEF TypeOK, FinishPanic, inbox
    <2>2. QED
        BY <1>8, <2>1, DoneType DEF TypeOK, FinishPanic, inbox, parsing, history
<1>9. CASE LoopEnd
    BY <1>9 DEF TypeOK, LoopEnd, inbox, parsing, life, history
<1>10. CASE DrainEnd
    BY <1>10 DEF TypeOK, DrainEnd, inbox, parsing, life, history
<1>11. CASE DrainTimeout
    BY <1>11 DEF TypeOK, DrainTimeout, inbox, parsing, life
<1>12. CASE SettleAll
    BY <1>12, DoneType DEF TypeOK, SettleAll, inbox, parsing, history
<1>13. CASE SettleTimeout
    BY <1>13, DoneType DEF TypeOK, SettleTimeout, inbox, parsing, history
<1>14. ASSUME NEW n \in Chunk, Acquire(n) PROVE TypeOK'
    BY <1>14 DEF TypeOK, Acquire, inbox, parsing, life, history
<1>15. ASSUME NEW n \in Chunk, Finish(n) PROVE TypeOK'
    BY <1>15 DEF TypeOK, Finish, inbox, parsing, life, history
<1>16. CASE UNCHANGED vars
    BY <1>16 DEF TypeOK, vars
<1>17. QED
    BY <1>1, <1>2, <1>3, <1>4, <1>5, <1>6, <1>7, <1>8, <1>9, <1>10, <1>11,
       <1>12, <1>13, <1>14, <1>15, <1>16
    DEF Next, Dispatcher, Loop, Deserializer

(* Type correctness: packets and buffers only ever hold chunks received.   *)
THEOREM TypeCorrect == Spec => []TypeOK
BY TypeInit, TypeStep, PTL DEF Spec
-----------------------------------------------------------------------------
(* Wait.                                                                   *)

\* WaitMeansEnded made inductive: as long as nothing panicked, the WaitGroup
\* counts the one loop.
Counted ==
    ~panicked =>
        /\ ~crashed /\ ending = 0
        /\ wg = IF pc = "exited" THEN 0 ELSE 1
        /\ waiter = "returned" => pc = "exited"

LEMMA CountedStep == TypeOK /\ Counted /\ [Next]_vars => Counted'
<1> SUFFICES ASSUME TypeOK, Counted, [Next]_vars PROVE Counted'
    OBVIOUS
<1> USE DEF TypeOK, Counted, life, history
<1>1. ASSUME NEW d \in Direction, NEW kind \in Kind(d), SendChunk(d, kind)
      PROVE  Counted'
    BY <1>1 DEF SendChunk
<1>2. CASE CloseWorker \/ CancelParent
    BY <1>2 DEF CloseWorker, CancelParent
<1>3. CASE WaitStart \/ WaitReturn
    BY <1>3 DEF WaitStart, WaitReturn
<1>4. CASE TakeChunk
    BY <1>4 DEF TakeChunk
<1>5. CASE TakePanics
    BY <1>5 DEF TakePanics
<1>6. CASE FinishPanic
    BY <1>6 DEF FinishPanic
<1>7. CASE LoopEnd \/ DrainEnd \/ DrainTimeout
    BY <1>7 DEF LoopEnd, DrainEnd, DrainTimeout
<1>8. CASE SettleAll \/ SettleTimeout
    BY <1>8 DEF SettleAll, SettleTimeout, Done
<1>9. ASSUME NEW n \in Chunk, Deserializer(n) PROVE Counted'
    BY <1>9 DEF Deserializer, Acquire, Finish
<1>10. CASE UNCHANGED vars
    BY <1>10 DEF vars
<1>11. QED
    BY <1>1, <1>2, <1>3, <1>4, <1>5, <1>6, <1>7, <1>8, <1>9, <1>10
    DEF Next, Dispatcher, Loop

(* A worker that never panicked does not crash the process, and Wait       *)
(* returns only after its loop.                                            *)
THEOREM WaitIsSound == Spec => []WaitMeansEnded
<1>1. Init => Counted
    BY DEF Init, Counted
<1>2. Counted => WaitMeansEnded
    BY DEF Counted, WaitMeansEnded
<1>3. QED
    BY <1>1, <1>2, TypeCorrect, CountedStep, PTL DEF Spec
-----------------------------------------------------------------------------
(* The drain.                                                              *)

LEMMA DrainStep == TypeOK /\ DrainTakesAll /\ [Next]_vars => DrainTakesAll'
<1> SUFFICES ASSUME TypeOK, DrainTakesAll, [Next]_vars PROVE DrainTakesAll'
    OBVIOUS
<1> USE DEF TypeOK, DrainTakesAll, Emptied, Waiting, inbox, history
<1>1. ASSUME NEW d \in Direction, NEW kind \in Kind(d), SendChunk(d, kind)
      PROVE  DrainTakesAll'
    BY <1>1 DEF SendChunk
<1>2. CASE CloseWorker \/ CancelParent
    BY <1>2 DEF CloseWorker, CancelParent
<1>3. CASE WaitStart \/ WaitReturn
    BY <1>3 DEF WaitStart, WaitReturn
<1>4. CASE TakeChunk
    BY <1>4 DEF TakeChunk
<1>5. CASE TakePanics
    BY <1>5 DEF TakePanics, Restart
<1>6. CASE FinishPanic
    BY <1>6 DEF FinishPanic
<1>7. CASE LoopEnd \/ DrainEnd \/ DrainTimeout
    BY <1>7 DEF LoopEnd, DrainEnd, DrainTimeout
<1>8. CASE SettleAll \/ SettleTimeout
    BY <1>8 DEF SettleAll, SettleTimeout
<1>9. ASSUME NEW n \in Chunk, Deserializer(n) PROVE DrainTakesAll'
    BY <1>9 DEF Deserializer, Acquire, Finish
<1>10. CASE UNCHANGED vars
    BY <1>10 DEF vars
<1>11. QED
    BY <1>1, <1>2, <1>3, <1>4, <1>5, <1>6, <1>7, <1>8, <1>9, <1>10
    DEF Next, Dispatcher, Loop

(* Unless the drain timed out, a worker ends with its channel closed and   *)
(* every chunk taken.                                                      *)
THEOREM DrainIsComplete == Spec => []DrainTakesAll
<1>1. Init => DrainTakesAll
    BY DEF Init, DrainTakesAll
<1>2. QED
    BY <1>1, TypeCorrect, DrainStep, PTL DEF Spec

(* A worker ends with its chunks parsed, and its waiter is released only   *)
(* then.                                                                   *)
THEOREM WorkerEndsOrderly == Spec => []EndsOrderly
<1>1. WaitMeansEnded /\ DrainTakesAll => EndsOrderly
    BY DEF EndsOrderly
<1>2. QED
    BY <1>1, WaitIsSound, DrainIsComplete, PTL
-----------------------------------------------------------------------------
(* How the stream is cut.                                                  *)

LEMMA AppendFacts ==
    ASSUME NEW S, NEW q \in Seq(S), NEW x \in S
    PROVE  /\ Append(q, x) \in Seq(S) /\ Len(q) \in Nat
           /\ DOMAIN q = 1 .. Len(q) /\ DOMAIN Append(q, x) = 1 .. Len(q) + 1
           /\ \A i \in 1 .. Len(q) : Append(q, x)[i] = q[i]
           /\ Append(q, x)[Len(q) + 1] = x
BY AppendProperties, LenProperties

LEMMA MembersDef ==
    ASSUME NEW ss, NEW x
    PROVE  x \in Members(ss) <=> \E k \in DOMAIN ss : \E i \in DOMAIN ss[k] : x = ss[k][i]
BY DEF Members, Range

\* One chunk more at the end of the buffer.
LEMMA BufferGrows ==
    ASSUME NEW ps \in Seq(Seq(Chunk)), NEW b \in Seq(Chunk), NEW n \in Chunk,
           Rising(Append(ps, b)), \A x \in Members(Append(ps, b)) : x < n
    PROVE  /\ Rising(Append(ps, Append(b, n)))
           /\ Members(Append(ps, Append(b, n))) = Members(Append(ps, b)) \cup {n}
<1> DEFINE old == Append(ps, b)
           c   == Append(b, n)
           new == Append(ps, c)
           m   == Len(ps)
           z   == Len(b)
<1>1. /\ c \in Seq(Chunk) /\ z \in Nat /\ DOMAIN b = 1 .. z /\ DOMAIN c = 1 .. z + 1
      /\ \A i \in 1 .. z : c[i] = b[i]
      /\ c[z + 1] = n
    BY AppendFacts
<1>2. /\ m \in Nat /\ DOMAIN old = 1 .. m + 1 /\ DOMAIN new = 1 .. m + 1
      /\ \A k \in 1 .. m : old[k] = ps[k] /\ new[k] = ps[k]
      /\ old[m + 1] = b /\ new[m + 1] = c
    <2> HIDE DEF c
    <2>1. QED
        BY <1>1, AppendFacts
<1> HIDE DEF old, new, c, m, z
<1>3. ASSUME NEW k \in DOMAIN new, NEW i \in DOMAIN new[k]
      PROVE  \/ k \in DOMAIN old /\ i \in DOMAIN old[k] /\ new[k][i] = old[k][i]
             \/ k = m + 1 /\ i = z + 1 /\ new[k][i] = n
    <2>1. CASE k \in 1 .. m
        <3>1. new[k] = old[k] /\ k \in DOMAIN old
            BY <1>2, <2>1
        <3>2. QED
            BY <3>1
    <2>2. CASE k = m + 1
        <3>1. new[k] = c /\ old[k] = b /\ k \in DOMAIN old
            BY <1>2, <2>2
        <3>2. i \in 1 .. z \/ i = z + 1
            BY <1>1, <3>1
        <3>3. QED
            BY <1>1, <2>2, <3>1, <3>2
    <2>3. QED
        BY <1>2, <2>1, <2>2
<1>4. \A k \in DOMAIN old : k \in DOMAIN new /\ \A i \in DOMAIN old[k] :
          i \in DOMAIN new[k] /\ new[k][i] = old[k][i]
    <2> SUFFICES ASSUME NEW k \in DOMAIN old
                 PROVE  k \in DOMAIN new /\ \A i \in DOMAIN old[k] :
                            i \in DOMAIN new[k] /\ new[k][i] = old[k][i]
        OBVIOUS
    <2>1. CASE k \in 1 .. m
        BY <1>2, <2>1
    <2>2. CASE k = m + 1
        BY <1>1, <1>2, <2>2
    <2>3. QED
        BY <1>2, <2>1, <2>2
<1>5. \A k \in DOMAIN old : \A i \in DOMAIN old[k] : old[k][i] < n
    BY MembersDef DEF old
<1>6. Rising(new)
    <2> SUFFICES ASSUME NEW k \in DOMAIN new, NEW l \in DOMAIN new,
                        NEW i \in DOMAIN new[k], NEW j \in DOMAIN new[l],
                        k < l \/ (k = l /\ i < j)
                 PROVE  new[k][i] < new[l][j]
        BY DEF Rising
    <2>1. CASE l \in DOMAIN old /\ j \in DOMAIN old[l] /\ new[l][j] = old[l][j]
        <3>1. ~(k = m + 1 /\ i = z + 1)
            BY <1>1, <1>2, <2>1
        <3>2. k \in DOMAIN old /\ i \in DOMAIN old[k] /\ new[k][i] = old[k][i]
            BY <1>3, <3>1
        <3>3. QED
            BY <2>1, <3>2 DEF Rising, old
    <2>2. CASE l = m + 1 /\ j = z + 1 /\ new[l][j] = n
        <3>1. ~(k = m + 1 /\ i = z + 1)
            BY <1>1, <1>2, <2>2
        <3>2. k \in DOMAIN old /\ i \in DOMAIN old[k] /\ new[k][i] = old[k][i]
            BY <1>3, <3>1
        <3>3. QED
            BY <1>5, <2>2, <3>2
    <2>3. QED
        BY <1>3, <2>1, <2>2
<1>7. Members(new) = Members(old) \cup {n}
    <2>1. m + 1 \in DOMAIN new /\ z + 1 \in DOMAIN new[m + 1] /\ new[m + 1][z + 1] = n
        BY <1>1, <1>2
    <2>2. ASSUME NEW x \in Members(new) PROVE x \in Members(old) \cup {n}
        BY <1>3, MembersDef
    <2>3. ASSUME NEW x \in Members(old) \cup {n} PROVE x \in Members(new)
        BY <1>4, <2>1, MembersDef
    <2>4. QED
        BY <2>2, <2>3
<1>8. QED
    BY <1>6, <1>7 DEF new, old, c

\* An empty buffer after the packets changes nothing.
LEMMA EmptyBuffer ==
    ASSUME NEW ps \in Seq(Seq(Chunk))
    PROVE  /\ Rising(ps) => Rising(Append(ps, <<>>))
           /\ Members(Append(ps, <<>>)) = Members(ps)
<1> DEFINE new == Append(ps, <<>>)
           m   == Len(ps)
<1>1. /\ m \in Nat /\ DOMAIN ps = 1 .. m /\ DOMAIN new = 1 .. m + 1
      /\ \A k \in 1 .. m : new[k] = ps[k]
      /\ new[m + 1] = <<>>
    BY AppendFacts, EmptySeq
<1>2. DOMAIN <<>> = {}
    OBVIOUS
<1> HIDE DEF new, m
<1>3. \A k \in DOMAIN new : \A i \in DOMAIN new[k] : k \in DOMAIN ps /\ new[k] = ps[k]
    BY <1>1, <1>2
<1>4. \A k \in DOMAIN ps : k \in DOMAIN new /\ new[k] = ps[k]
    BY <1>1
<1>5. Rising(ps) => Rising(new)
    BY <1>3 DEF Rising
<1>6. \A x : x \in Members(new) <=> x \in Members(ps)
    BY <1>3, <1>4, MembersDef
<1>7. QED
    BY <1>5, <1>6 DEF new

\* What is lost with a buffer leaves the rest in order.
LEMMA BufferLost ==
    ASSUME NEW ps \in Seq(Seq(Chunk)), NEW b \in Seq(Chunk), Rising(Append(ps, b))
    PROVE  /\ Rising(Append(ps, <<>>))
           /\ Members(Append(ps, <<>>)) \subseteq Members(Append(ps, b))
<1> DEFINE old == Append(ps, b)
           m   == Len(ps)
<1>1. /\ m \in Nat /\ DOMAIN ps = 1 .. m /\ DOMAIN old = 1 .. m + 1
      /\ \A k \in 1 .. m : old[k] = ps[k]
    BY AppendFacts
<1> HIDE DEF old, m
<1>2. \A k \in DOMAIN ps : k \in DOMAIN old /\ old[k] = ps[k]
    BY <1>1
<1>3. Rising(ps)
    BY <1>2 DEF Rising, old
<1>4. \A x : x \in Members(ps) => x \in Members(old)
    BY <1>2, MembersDef
<1>5. QED
    BY <1>3, <1>4, EmptyBuffer DEF old

LEMMA ReassemblyInit == Init => Reassembly
<1> SUFFICES ASSUME Init, NEW d \in Direction
             PROVE  Rising(Cut(d)) /\ Members(Cut(d)) = Received(d)
    BY DEF Init, Reassembly
<1>1. Cut(d) = Append(<<>>, <<>>) /\ <<>> \in Seq(Seq(Chunk)) /\ DOMAIN <<>> = {}
    BY EmptySeq DEF Init, Cut
<1>2. Rising(<<>>) /\ Members(<<>>) = {}
    BY <1>1 DEF Rising, Members
<1>3. Received(d) = {}
    BY DEF Init, Received
<1>4. QED
    BY <1>1, <1>2, <1>3, EmptyBuffer

LEMMA ReassemblyStep == TypeOK /\ Reassembly /\ [Next]_vars => Reassembly'
<1> SUFFICES ASSUME TypeOK, Reassembly, [Next]_vars, NEW d \in Direction
             PROVE  /\ Rising(Cut(d))'
                    /\ IF panicked' THEN Members(Cut(d))' \subseteq Received(d)'
                                    ELSE Members(Cut(d))' = Received(d)'
    BY DEF Reassembly, Direction
<1> DEFINE n == taken + 1
           e == input[n].dir
<1>0. /\ packets[d] \in Seq(Seq(Chunk)) /\ buffer[d] \in Seq(Chunk) /\ taken \in Nat
      /\ packets \in [Direction -> Seq(Seq(Chunk))] /\ buffer \in [Direction -> Seq(Chunk)]
      /\ input \in Seq(Chunks) /\ taken \in 0 .. Len(input) /\ Len(input) \in Nat
    BY LenProperties DEF TypeOK, Chunks
<1>1. ASSUME UNCHANGED <<packets, buffer, taken, panicked>>, Received(d)' = Received(d)
      PROVE  /\ Rising(Cut(d))'
             /\ IF panicked' THEN Members(Cut(d))' \subseteq Received(d)'
                             ELSE Members(Cut(d))' = Received(d)'
    <2>1. Cut(d)' = Cut(d)
        BY <1>1 DEF Cut
    <2>2. QED
        BY <1>1, <2>1 DEF Reassembly, Rising, Members
<1>2. ASSUME UNCHANGED <<packets, buffer, taken, panicked, input>>
      PROVE  /\ Rising(Cut(d))'
             /\ IF panicked' THEN Members(Cut(d))' \subseteq Received(d)'
                             ELSE Members(Cut(d))' = Received(d)'
    BY <1>1, <1>2 DEF Received
<1>3. ASSUME NEW f \in Direction, NEW kind \in Kind(f), SendChunk(f, kind)
      PROVE  UNCHANGED <<packets, buffer, taken, panicked>> /\ Received(d)' = Received(d)
    <2>1. [dir |-> f, kind |-> kind] \in Chunks
        BY <1>3 DEF Chunks, Kind
    <2>2. \A k \in 1 .. taken : input'[k] = input[k]
        BY <1>0, <1>3, <2>1, AppendFacts DEF SendChunk
    <2>3. QED
        BY <1>3, <2>2 DEF SendChunk, parsing, history, Received
<1>4. CASE TakeChunk
    <2>1. /\ taken' = n /\ Parse(e, n, input[n].kind) /\ UNCHANGED <<input, panicked>>
          /\ n \in Chunk /\ e \in Direction
        BY <1>4, TakeCounts DEF TakeChunk, history, Chunks
    <2>2. \A x \in Members(Cut(d)) : x < n
        <3>1. Members(Cut(d)) \subseteq Received(d)
            BY DEF Reassembly
        <3>2. Received(d) \subseteq 1 .. taken
            BY DEF Received
        <3>3. QED
            BY <1>0, <3>1, <3>2
    <2>3. CASE d # e
        <3>1. packets'[d] = packets[d] /\ buffer'[d] = buffer[d]
            BY <1>0, <2>1, <2>3 DEF Parse
        <3>2. Received(d)' = Received(d)
            BY <1>0, <2>1, <2>3 DEF Received
        <3>3. Cut(d)' = Cut(d)
            BY <3>1 DEF Cut
        <3>4. QED
            BY <2>1, <3>2, <3>3 DEF Reassembly, Rising, Members
    <2>4. CASE d = e
        <3> DEFINE b  == Append(buffer[d], n)
                   c  == Append(packets[d], b)
        <3>1. b \in Seq(Chunk) /\ c \in Seq(Seq(Chunk))
            BY <1>0, <2>1, AppendFacts
        <3>2. Rising(c) /\ Members(c) = Members(Cut(d)) \cup {n}
            BY <1>0, <2>1, <2>2, BufferGrows DEF Reassembly, Cut
        <3>3. Received(d)' = Received(d) \cup {n}
            BY <1>0, <2>1, <2>4 DEF Received
        <3>4. Cut(d)' = c \/ Cut(d)' = Append(c, <<>>)
            BY <1>0, <2>1, <2>4 DEF Parse, Cut
        <3>5. Rising(Cut(d)') /\ Members(Cut(d)') = Members(c)
            <4> HIDE DEF c
            <4>1. QED
                BY <3>1, <3>2, <3>4, EmptyBuffer
        <3>6. QED
            BY <2>1, <3>2, <3>3, <3>5 DEF Reassembly, Rising, Members
    <2>5. QED
        BY <2>3, <2>4
<1>5. CASE TakePanics
    <2>1. /\ taken' = n /\ panicked' /\ UNCHANGED <<input, packets>>
          /\ buffer' = [f \in Direction |-> <<>>]
        BY <1>5 DEF TakePanics
    <2>2. Cut(d)' = Append(packets[d], <<>>)
        BY <2>1 DEF Cut
    <2>3. Received(d) \subseteq Received(d)'
        BY <1>0, <2>1 DEF Received
    <2>4. Rising(Cut(d)') /\ Members(Cut(d)') \subseteq Members(Cut(d))
        BY <1>0, <2>2, BufferLost DEF Reassembly, Cut
    <2>5. QED
        BY <2>1, <2>3, <2>4 DEF Reassembly, Rising, Members
<1>6. UNCHANGED vars \/ CloseWorker \/ CancelParent \/ WaitStart \/ WaitReturn \/ FinishPanic
         \/ LoopEnd \/ DrainEnd \/ DrainTimeout \/ SettleAll \/ SettleTimeout
         \/ (\E k \in Chunk : Deserializer(k))
      => UNCHANGED <<packets, buffer, taken, panicked, input>>
    BY DEF vars, CloseWorker, CancelParent, WaitStart, WaitReturn, FinishPanic, LoopEnd,
       DrainEnd, DrainTimeout, SettleAll, SettleTimeout, Deserializer, Acquire, Finish,
       parsing, inbox, history
<1>7. QED
    BY <1>1, <1>2, <1>3, <1>4, <1>5, <1>6 DEF Next, Dispatcher, Loop

(* The packets of each direction are its chunks in order, each once, for   *)
(* every number of chunks: tryParsePackets gets the stream as it came, and *)
(* after a recovered panic at least nothing twice or out of order.         *)
THEOREM StreamsAreReassembled == Spec => []Reassembly
BY ReassemblyInit, ReassemblyStep, TypeCorrect, PTL DEF Spec
=============================================================================
