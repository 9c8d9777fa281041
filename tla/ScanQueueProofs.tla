--------------------------- MODULE ScanQueueProofs ---------------------------
(***************************************************************************)
(* Proofs about ScanQueue, for every set of items and workers and every    *)
(* cap, window and batch size, when the drain threshold is not above the   *)
(* queue's cap, as with the code's defaults (otherwise the drain's own     *)
(* enqueues spill into the file that the drain then overwrites).           *)
(*                                                                         *)
(* NoSilentLoss is inductive with the types.  What has to be shown is that *)
(* each step accounts for every entry it moves: SpillFacts for an append   *)
(* that is torn, fails or compacts the file, EnqueueFacts for a newcomer   *)
(* at the cap, Drains for a whole batch enqueued one by one.               *)
(***************************************************************************)
EXTENDS ScanQueue, SelectionProofs

\* The spill file.

FileType == [lines : Seq(Items), torn : BOOLEAN]

-----------------------------------------------------------------------------
(* Spilling *)

\* Only the fates of the items of D change.
LEMMA LedgeredFacts ==
  ASSUME NEW f \in [Items -> Fates], NEW D, NEW outcome \in Fates
  PROVE  /\ Ledgered(f, D, outcome) \in [Items -> Fates]
         /\ \A i \in Items : Ledgered(f, D, outcome)[i] = IF i \in D THEN outcome ELSE f[i]
<1> QED
  BY DEF Ledgered

\* A compaction drops only what it reports.
LEMMA CompactedFacts ==
  ASSUME NEW f \in FileType
  PROVE  /\ Compacted(f).file \in FileType
         /\ \A i \in Range(f.lines) :
              i \in Range(Compacted(f).file.lines) \/ i \in Compacted(f).dropped
<1> DEFINE q == f.lines
           n == Len(q) - SpillMax
           doomed == Marked(q, n, Protected)
           kept == KeepAt(q, DOMAIN q \ doomed)
<1>1. q \in Seq(Items) /\ Len(q) \in Nat /\ SpillMax \in Nat
  BY ScanQueueAssumption DEF FileType
<1>2. CASE Len(q) <= SpillMax
  BY <1>2 DEF Compacted
<1>3. CASE ~(Len(q) <= SpillMax)
  <2>1. /\ Compacted(f).file = [lines |-> kept, torn |-> FALSE]
        /\ Compacted(f).dropped = {q[k] : k \in doomed}
    BY <1>3 DEF Compacted
  <2> HIDE DEF q
  <2>2. n \in Nat
    BY <1>1, <1>3
  <2> HIDE DEF n
  <2>3. doomed \in SUBSET DOMAIN q
    BY <1>1, <2>2, MarkedFacts
  <2> HIDE DEF doomed
  <2>4. /\ kept \in Seq(Items)
        /\ \A x : x \in Range(kept) <=> \E k \in DOMAIN q \ doomed : q[k] = x
    BY <1>1, <2>3, RangeKeepAt
  <2> HIDE DEF kept
  <2>5. ASSUME NEW i \in Range(q) PROVE i \in Range(kept) \/ i \in {q[k] : k \in doomed}
    <3>1. PICK k \in DOMAIN q : q[k] = i
      BY <1>1, RangeFacts
    <3> QED
      BY <2>4, <3>1
  <2>6. [lines |-> kept, torn |-> FALSE] \in FileType
    BY <2>4 DEF FileType
  <2> QED
    BY <2>1, <2>5, <2>6 DEF q
<1> QED
  BY <1>2, <1>3

\* So does an append that may or may not find the file grown to its ceiling.
LEMMA GrownFacts ==
  ASSUME NEW f \in FileType, NEW g \in Grown(f)
  PROVE  /\ g.file \in FileType
         /\ \A i \in Range(f.lines) : i \in Range(g.file.lines) \/ i \in g.dropped
<1>1. g = [file |-> f, dropped |-> {}] \/ g = Compacted(f)
  BY DEF Grown
<1>2. CASE g = [file |-> f, dropped |-> {}]
  BY <1>2
<1>3. CASE g = Compacted(f)
  BY <1>3, CompactedFacts
<1> QED
  BY <1>1, <1>2, <1>3

\* An append makes every entry readable but the one glued to a torn line.
LEMMA ReadableFacts ==
  ASSUME NEW f \in FileType, NEW batch \in Seq(Items)
  PROVE  /\ f.lines \o Readable(f, batch) \in Seq(Items)
         /\ \A i \in Range(f.lines) : i \in Range(f.lines \o Readable(f, batch))
         /\ \A i \in Range(batch) :
              i \in Glued(f, batch) \/ i \in Range(f.lines \o Readable(f, batch))
<1>1. f.lines \in Seq(Items)
  BY DEF FileType
<1>2. /\ Readable(f, batch) \in Seq(Items)
      /\ \A i \in Range(batch) : i \in Glued(f, batch) \/ i \in Range(Readable(f, batch))
  <2>1. CASE f.torn /\ batch # <<>>
    <3>1. Glued(f, batch) = {Head(batch)} /\ Readable(f, batch) = Tail(batch)
      BY <2>1 DEF Glued, Readable
    <3>2. Tail(batch) \in Seq(Items) /\ Range(batch) = {Head(batch)} \cup Range(Tail(batch))
      BY <2>1, RangeHeadTail
    <3> QED
      BY <3>1, <3>2
  <2>2. CASE ~(f.torn /\ batch # <<>>)
    BY <2>2 DEF Glued, Readable
  <2> QED
    BY <2>1, <2>2
<1>3. /\ f.lines \o Readable(f, batch) \in Seq(Items)
      /\ Range(f.lines \o Readable(f, batch)) = Range(f.lines) \cup Range(Readable(f, batch))
  BY <1>1, <1>2, RangeConcat
<1> QED
  BY <1>2, <1>3

\* After a spill every entry of the file and of the batch that is pending is readable,
\* and nothing became pending.
LEMMA SpillFacts ==
  ASSUME NEW f \in FileType, NEW batch \in Seq(Items), NEW fates \in [Items -> Fates],
         NEW r \in SpillResults(f, batch)
  PROVE  /\ r.file \in FileType
         /\ Settled(fates, f, batch, r) \in [Items -> Fates]
         /\ \A i \in Items : Settled(fates, f, batch, r)[i] = "pending" =>
              /\ fates[i] = "pending"
              /\ i \in Range(f.lines) \cup Range(batch) => i \in Range(r.file.lines)
<1> DEFINE all == [lines |-> f.lines \o Readable(f, batch), torn |-> FALSE]
           Part(k) == SubSeq(batch, 1, k)
           fate2 == Settled(fates, f, batch, r)
<1>1. \/ r = [ok |-> FALSE, file |-> f, dropped |-> {}]
      \/ \E g \in Grown(all) : r = [ok |-> TRUE, file |-> g.file, dropped |-> g.dropped]
      \/ \E k \in 0..(Len(batch) - 1) :
           r = [ok |-> FALSE, dropped |-> {},
                file |-> [lines |-> f.lines \o Readable(f, Part(k)), torn |-> TRUE]]
  BY DEF SpillResults
<1> HIDE DEF all, Part
<1>2. {"pending", "dropped", "glued"} \subseteq Fates
  BY DEF Fates
<1>3. ASSUME ~r.ok, r.file \in FileType, Range(f.lines) \subseteq Range(r.file.lines)
      PROVE  /\ fate2 \in [Items -> Fates]
             /\ \A i \in Items : fate2[i] = "pending" =>
                  /\ fates[i] = "pending"
                  /\ i \in Range(f.lines) \cup Range(batch) => i \in Range(r.file.lines)
  <2>1. fate2 = Ledgered(fates, Range(batch), "dropped")
    BY <1>3 DEF Settled
  <2>2. /\ fate2 \in [Items -> Fates]
        /\ \A i \in Items : fate2[i] = IF i \in Range(batch) THEN "dropped" ELSE fates[i]
    BY <1>2, <2>1, LedgeredFacts
  <2> QED
    BY <1>3, <2>2
<1>4. CASE r = [ok |-> FALSE, file |-> f, dropped |-> {}]
  <2>1. ~r.ok /\ r.file = f
    BY <1>4
  <2> QED
    BY <1>3, <2>1
<1>5. ASSUME NEW g \in Grown(all), r = [ok |-> TRUE, file |-> g.file, dropped |-> g.dropped]
      PROVE  /\ r.file \in FileType
             /\ fate2 \in [Items -> Fates]
             /\ \A i \in Items : fate2[i] = "pending" =>
                  /\ fates[i] = "pending"
                  /\ i \in Range(f.lines) \cup Range(batch) => i \in Range(r.file.lines)
  <2>1. /\ all \in FileType
        /\ \A i \in Range(f.lines) : i \in Range(all.lines)
        /\ \A i \in Range(batch) : i \in Glued(f, batch) \/ i \in Range(all.lines)
    BY ReadableFacts DEF all, FileType
  <2>2. /\ g.file \in FileType
        /\ \A i \in Range(all.lines) : i \in Range(g.file.lines) \/ i \in g.dropped
    BY <2>1, GrownFacts
  <2>3. fate2 = Ledgered(Ledgered(fates, Glued(f, batch), "glued"), g.dropped, "dropped")
    BY <1>5 DEF Settled
  <2>4. /\ Ledgered(fates, Glued(f, batch), "glued") \in [Items -> Fates]
        /\ \A i \in Items : Ledgered(fates, Glued(f, batch), "glued")[i] =
                             IF i \in Glued(f, batch) THEN "glued" ELSE fates[i]
    BY <1>2, LedgeredFacts
  <2>5. /\ fate2 \in [Items -> Fates]
        /\ \A i \in Items : fate2[i] =
             IF i \in g.dropped THEN "dropped"
             ELSE Ledgered(fates, Glued(f, batch), "glued")[i]
    BY <1>2, <2>3, <2>4, LedgeredFacts
  <2>6. ASSUME NEW i \in Items, fate2[i] = "pending"
        PROVE  fates[i] = "pending" /\ i \notin g.dropped /\ i \notin Glued(f, batch)
    BY <2>4, <2>5, <2>6
  <2> QED
    BY <1>5, <2>1, <2>2, <2>5, <2>6
<1>6. ASSUME NEW k \in 0..(Len(batch) - 1),
             r = [ok |-> FALSE, dropped |-> {},
                  file |-> [lines |-> f.lines \o Readable(f, Part(k)), torn |-> TRUE]]
      PROVE  /\ ~r.ok /\ r.file \in FileType
             /\ Range(f.lines) \subseteq Range(r.file.lines)
  <2>1. Part(k) \in Seq(Items)
    <3>1. k \in 0..Len(batch) /\ 1 \in Nat \ {0}
      OBVIOUS
    <3> QED
      BY <3>1, RangeSubSeq DEF Part
  <2>2. /\ f.lines \o Readable(f, Part(k)) \in Seq(Items)
        /\ \A i \in Range(f.lines) : i \in Range(f.lines \o Readable(f, Part(k)))
    BY <2>1, ReadableFacts
  <2> QED
    BY <1>6, <2>2 DEF FileType
<1>7. CASE r.file \in FileType /\ ~r.ok /\ Range(f.lines) \subseteq Range(r.file.lines)
  BY <1>3, <1>7
<1> QED
  BY <1>1, <1>4, <1>5, <1>6, <1>7

-----------------------------------------------------------------------------
(* Draining *)

\* The recursive definition of After has a solution.
Solves(f, start, fresh, N) ==
  f = [n \in 0..N |-> IF n = 0 THEN {start} ELSE EnqueueAll(f[n - 1], fresh[n])]

\* Were there a first length without one, the one before it could be extended.
LEMMA AfterExists ==
  ASSUME NEW start, NEW fresh, NEW N \in Nat
  PROVE  \E f : Solves(f, start, fresh, N)
<1> DEFINE Upto(m, f) == Solves(f, start, fresh, m)
           None == {m \in Nat : \A f : ~Upto(m, f)}
<1> USE DEF Solves
<1>1. SUFFICES ASSUME None # {} PROVE FALSE
  OBVIOUS
<1>2. PICK m \in None : \A k \in None : m <= k
  BY <1>1, LeastMember
<1>3. m \in Nat /\ \A f : ~Upto(m, f)
  BY <1>2
<1>4. CASE m = 0
  <2>1. Upto(0, [n \in 0..0 |-> {start}])
    OBVIOUS
  <2> QED
    BY <1>3, <1>4, <2>1
<1>5. ASSUME m # 0 PROVE \E f : Upto(m - 1, f)
  <2>1. m - 1 \in Nat /\ ~(m <= m - 1)
    BY <1>3, <1>5
  <2>2. m - 1 \notin None
    BY <1>2, <2>1
  <2> HIDE DEF Upto
  <2> QED
    BY <2>1, <2>2
<1>6. CASE m # 0
  <2>1. PICK f : Upto(m - 1, f)
    BY <1>5, <1>6
  <2> DEFINE g == [n \in 0..m |-> IF n = m THEN EnqueueAll(f[m - 1], fresh[m]) ELSE f[n]]
  <2>2. \A n \in 0..(m - 1) : f[n] = IF n = 0 THEN {start} ELSE EnqueueAll(f[n - 1], fresh[n])
    BY <2>1
  <2>3. /\ \A n \in 0..(m - 1) : g[n] = f[n] /\ n \in 0..m
        /\ g[m] = EnqueueAll(f[m - 1], fresh[m])
        /\ \A n \in 0..m : n # m => n \in 0..(m - 1)
        /\ \A n \in 0..m : n # 0 => n - 1 \in 0..(m - 1)
    BY <1>3, <1>6
  <2>4. g = [n \in 0..m |-> g[n]]
    OBVIOUS
  <2> HIDE DEF g
  <2>5. ASSUME NEW n \in 0..m
        PROVE  g[n] = IF n = 0 THEN {start} ELSE EnqueueAll(g[n - 1], fresh[n])
    <3>1. CASE n = m
      BY <1>6, <2>3, <3>1
    <3>2. CASE n # m
      BY <2>2, <2>3, <3>2
    <3> QED
      BY <3>1, <3>2
  <2>6. Upto(m, g)
    BY <2>4, <2>5
  <2> QED
    BY <1>3, <2>6
<1> QED
  BY <1>4, <1>6

\* Its last value is what AllEnqueued returns.
LEMMA AllEnqueuedSolves ==
  ASSUME NEW start, NEW fresh, Len(fresh) \in Nat
  PROVE  \E f : Solves(f, start, fresh, Len(fresh)) /\ AllEnqueued(start, fresh) = f[Len(fresh)]
<1> DEFINE N == Len(fresh)
           g == CHOOSE f : Solves(f, start, fresh, N)
<1>1. Solves(g, start, fresh, N)
  BY AfterExists, Zenon
<1>2. AllEnqueued(start, fresh) = g[N]
  BY Zenon DEF AllEnqueued, Solves
<1> QED
  BY <1>1, <1>2, Zenon

\* A batch is what the selection takes out of the file, and fits below the threshold.
LEMMA BatchFacts ==
  ASSUME TypeOK, DrainEnabled
  PROVE  /\ DrainPick(file.lines, BatchSize) \in SUBSET DOMAIN file.lines
         /\ Batch \in Seq(Items)
         /\ Len(queue) + Len(Batch) <= DrainThreshold
         /\ \A x : x \in Range(Batch)
                     <=> \E k \in DrainPick(file.lines, BatchSize) : file.lines[k] = x
<1> DEFINE q == file.lines
           n == BatchSize
           pick == DrainPick(q, n)
           first == {k \in pick : q[k] \in Protected}
           a == KeepAt(q, first)
           b == KeepAt(q, pick \ first)
<1>1. q \in Seq(Items) /\ queue \in Seq(Items) /\ Len(queue) \in Nat /\ Len(q) \in Nat
  BY DEF TypeOK
<1>2. n \in Nat /\ Len(queue) + n <= DrainThreshold
  BY <1>1, ScanQueueAssumption DEF DrainEnabled, BatchSize, Smaller
<1>3. pick = Marked(q, n, Items \ Protected)
  BY DEF DrainPick
<1>4. Batch = a \o b
  BY DEF Batch, DrainOrder
<1>5. first \in SUBSET pick
  OBVIOUS
<1> HIDE DEF q, n, first, pick
<1>6. pick \in SUBSET DOMAIN q /\ Cardinality(pick) = Smaller(n, Len(q))
  BY <1>1, <1>2, <1>3, MarkedFacts DEF EvictsLooseThenOldest
<1>7. /\ a \in Seq(Items) /\ Len(a) = Cardinality(first)
      /\ \A x : x \in Range(a) <=> \E k \in first : q[k] = x
  BY <1>1, <1>5, <1>6, RangeKeepAt
<1>8. /\ b \in Seq(Items) /\ Len(b) = Cardinality(pick \ first)
      /\ \A x : x \in Range(b) <=> \E k \in pick \ first : q[k] = x
  <2>1. pick \ first \in SUBSET DOMAIN q
    BY <1>6
  <2> QED
    BY <1>1, <2>1, RangeKeepAt
<1> HIDE DEF a, b
<1>9. /\ Batch \in Seq(Items)
      /\ Len(Batch) = Cardinality(first) + Cardinality(pick \ first)
      /\ Range(Batch) = Range(a) \cup Range(b)
  BY <1>4, <1>7, <1>8, RangeConcat
<1>10. Cardinality(first) + Cardinality(pick \ first) = Cardinality(pick)
  <2>1. IsFiniteSet(pick)
    BY <1>1, <1>6, FS_Interval, FS_Subset
  <2>2. /\ Cardinality(pick \ first) = Cardinality(pick) - Cardinality(pick \cap first)
        /\ pick \cap first = first
    BY <1>5, <2>1, FS_Difference
  <2>3. IsFiniteSet(first)
    BY <1>5, <2>1, FS_Subset
  <2>4. Cardinality(first) \in Nat /\ Cardinality(pick) \in Nat
    BY <2>1, <2>3, FS_CardinalityType
  <2>5. Cardinality(pick \ first) = Cardinality(pick) - Cardinality(first)
    BY <2>2
  <2> QED
    BY <2>4, <2>5
<1>11. Len(queue) + Len(Batch) <= DrainThreshold
  BY <1>1, <1>2, <1>6, <1>9, <1>10, ScanQueueAssumption DEF Smaller
<1>12. \A x : x \in Range(Batch) <=> \E k \in pick : q[k] = x
  BY <1>5, <1>7, <1>8, <1>9
<1> QED
  BY <1>6, <1>9, <1>11, <1>12 DEF pick, q, n

\* The entries of the batch of this state that are new, and where their enqueues start.
FreshBatch == Fresh(Batch)
StartState == Start(Batch, FreshBatch)

\* The entries of a batch that are neither scanned nor queued.
LEMMA FreshFacts ==
  ASSUME TypeOK, DrainEnabled
  PROVE  /\ FreshBatch \in Seq(Items)
         /\ Len(FreshBatch) <= Len(Batch)
         /\ \A x : x \in Range(FreshBatch)
                     <=> x \in Range(Batch) /\ x \notin recent /\ x \notin Range(queue)
<1> DEFINE S == {k \in DOMAIN Batch : Batch[k] \notin recent /\ Batch[k] \notin Range(queue)}
<1>1. Batch \in Seq(Items)
  BY BatchFacts
<1>2. FreshBatch = KeepAt(Batch, S) /\ S \in SUBSET DOMAIN Batch
  BY DEF FreshBatch, Fresh
<1>3. \A k \in DOMAIN Batch :
        k \in S <=> Batch[k] \notin recent /\ Batch[k] \notin Range(queue)
  OBVIOUS
<1> HIDE DEF S
<1>4. /\ FreshBatch \in Seq(Items) /\ Len(FreshBatch) = Cardinality(S)
      /\ \A x : x \in Range(FreshBatch) <=> \E k \in S : Batch[k] = x
  BY <1>1, <1>2, RangeKeepAt
<1>5. Cardinality(S) <= Len(Batch)
  <2>1. Len(Batch) \in Nat /\ DOMAIN Batch = 1..Len(Batch)
    BY <1>1
  <2>2. IsFiniteSet(1..Len(Batch)) /\ Cardinality(1..Len(Batch)) = Len(Batch)
    BY <2>1, IntervalSize
  <2> QED
    BY <1>2, <2>1, <2>2, FS_Subset
<1>6. \A x : x \in Range(Batch) <=> \E k \in DOMAIN Batch : Batch[k] = x
  BY <1>1, RangeFacts
<1> QED
  BY <1>2, <1>3, <1>4, <1>5, <1>6

\* What the drain may have done when it has enqueued n fresh entries below the cap.
Enqueued(st, n) ==
  /\ st \in [queue : Seq(Items), file : FileType, fate : [Items -> Fates]]
  /\ st.file = file /\ st.fate = StartState.fate
  /\ Len(st.queue) = Len(queue) + n
  /\ Range(queue) \subseteq Range(st.queue)
  /\ Range(st.queue) \subseteq Range(queue) \cup Range(FreshBatch)
  /\ \A k \in 1..n : FreshBatch[k] \in Range(st.queue)

\* One enqueue more below the cap adds that item and nothing else.
LEMMA EnqueueBelowCap ==
  ASSUME NEW n \in Nat, NEW st, Enqueued(st, n), NEW i, NEW next \in Enqueue(st, i),
         Len(queue) \in Nat, FreshBatch \in Seq(Items),
         n + 1 \in 1..Len(FreshBatch), i = FreshBatch[n + 1],
         Len(queue) + n < MaxScanQueue
  PROVE  Enqueued(next, n + 1)
<1>1. /\ st.queue \in Seq(Items) /\ Len(st.queue) < MaxScanQueue
      /\ i \in Items /\ i \in Range(FreshBatch)
  BY RangeFacts DEF Enqueued
<1>2. next = [st EXCEPT !.queue = Append(@, i)]
  BY <1>1 DEF Enqueue
<1>3. /\ Append(st.queue, i) \in Seq(Items)
      /\ Len(Append(st.queue, i)) = Len(st.queue) + 1
      /\ Range(Append(st.queue, i)) = Range(st.queue) \cup {i}
  BY <1>1, RangeAppend
<1>4. /\ next \in [queue : Seq(Items), file : FileType, fate : [Items -> Fates]]
      /\ next.queue = Append(st.queue, i)
      /\ next.file = st.file /\ next.fate = st.fate
  BY <1>2, <1>3 DEF Enqueued
<1>5. \A k \in 1..(n + 1) : k \in 1..n \/ k = n + 1
  OBVIOUS
<1>6. Len(next.queue) = Len(queue) + (n + 1)
  BY <1>3, <1>4 DEF Enqueued
<1>7. \A k \in 1..(n + 1) : FreshBatch[k] \in Range(next.queue)
  BY <1>3, <1>4, <1>5 DEF Enqueued
<1> QED
  BY <1>1, <1>3, <1>4, <1>6, <1>7 DEF Enqueued

\* A drain that stays below the cap spills nothing: it only appends the fresh entries.
LEMMA Drains ==
  ASSUME TypeOK, DrainEnabled, DrainThreshold <= MaxScanQueue, NEW st \in Drained
  PROVE  Enqueued(st, Len(FreshBatch))
<1> DEFINE N == Len(FreshBatch)
<1>1. /\ FreshBatch \in Seq(Items) /\ N \in Nat /\ Len(queue) \in Nat
      /\ Len(queue) + N <= MaxScanQueue
  <2>1. FreshBatch \in Seq(Items) /\ queue \in Seq(Items) /\ Batch \in Seq(Items)
    BY BatchFacts, FreshFacts DEF TypeOK
  <2>2. N \in Nat /\ Len(queue) \in Nat /\ Len(Batch) \in Nat
    BY <2>1
  <2>3. N <= Len(Batch) /\ Len(queue) + Len(Batch) <= DrainThreshold
    BY BatchFacts, FreshFacts
  <2> QED
    BY <2>1, <2>2, <2>3, ScanQueueAssumption
<1>2. PICK After : Solves(After, StartState, FreshBatch, N) /\ Drained = After[N]
  <2>1. Drained = AllEnqueued(StartState, FreshBatch)
    BY DEF Drained, StartState, FreshBatch
  <2> QED
    BY <1>1, <2>1, AllEnqueuedSolves
<1>3. /\ 0 \in 0..N /\ After[0] = {StartState}
      /\ \A n \in 1..N : n \in 0..N /\ After[n] = EnqueueAll(After[n - 1], FreshBatch[n])
  BY <1>1, <1>2 DEF Solves
<1> HIDE DEF N
<1> DEFINE Bad == {n \in 0..N : \E x \in After[n] : ~Enqueued(x, n)}
<1>4. Enqueued(StartState, 0)
  <2>1. {"scanned", "pending"} \subseteq Fates
    BY DEF Fates
  <2>2. Ledgered(fate, Range(Batch) \cap recent, "scanned") \in [Items -> Fates]
    BY <2>1, LedgeredFacts DEF TypeOK
  <2>3. Ledgered(Ledgered(fate, Range(Batch) \cap recent, "scanned"),
                 Range(FreshBatch), "pending")
          \in [Items -> Fates]
    BY <2>1, <2>2, LedgeredFacts
  <2>4. /\ StartState \in [queue : Seq(Items), file : FileType, fate : [Items -> Fates]]
        /\ StartState.queue = queue /\ StartState.file = file
    BY <2>3 DEF StartState, Start, TypeOK, FileType
  <2> QED
    BY <1>1, <2>4 DEF Enqueued
<1>5. ASSUME Bad # {} PROVE FALSE
  <2>1. Bad \in SUBSET Nat
    BY <1>1
  <2>2. PICK m \in Bad : \A k \in Bad : m <= k
    BY <1>5, <2>1, LeastMember
  <2>3. PICK x \in After[m] : ~Enqueued(x, m)
    BY <2>2
  <2>4. m # 0 /\ m \in 0..N
    BY <1>3, <1>4, <2>2, <2>3
  <2>5. m \in 1..N /\ m - 1 \in 0..N /\ ~(m <= m - 1) /\ (m - 1) + 1 = m
    BY <1>1, <2>4
  <2>6. x \in EnqueueAll(After[m - 1], FreshBatch[m])
    BY <1>3, <2>3, <2>5
  <2>7. PICK y \in After[m - 1] : x \in Enqueue(y, FreshBatch[m])
    BY <2>6 DEF EnqueueAll
  <2>8. Enqueued(y, m - 1)
    BY <2>2, <2>5, <2>7
  <2>9. m - 1 \in Nat /\ Len(queue) + (m - 1) < MaxScanQueue
    BY <1>1, <2>5, ScanQueueAssumption
  <2> QED
    BY <1>1, <2>3, <2>5, <2>7, <2>8, <2>9, EnqueueBelowCap DEF N
<1>6. N \in 0..N /\ st \in After[N]
  BY <1>1, <1>2 DEF N
<1> QED
  BY <1>5, <1>6 DEF N

-----------------------------------------------------------------------------
(* The choices of an enqueue and of a dequeue *)

\* A victim is protected only if the whole head window is.
LEMMA VictimFacts ==
  ASSUME NEW q \in Seq(Items), q # <<>>
  PROVE  /\ Victim(q) \in DOMAIN q
         /\ q[Victim(q)] \in Protected =>
              \A k \in 1..Smaller(Len(q), EvictionWindow) : q[k] \in Protected
<1> DEFINE window == 1..Smaller(Len(q), EvictionWindow)
           loose == {k \in window : q[k] \notin Protected}
<1>1. /\ Len(q) \in Nat \ {0} /\ DOMAIN q = 1..Len(q)
      /\ window \in SUBSET DOMAIN q /\ window \in SUBSET Nat
  BY ScanQueueOpsAssumption DEF Smaller
<1>2. Victim(q) = IF loose = {} THEN 1 ELSE CHOOSE k \in loose : \A j \in loose : k <= j
  BY DEF Victim
<1>3. \A k \in window : k \in loose <=> q[k] \notin Protected
  OBVIOUS
<1>4. loose \in SUBSET window
  OBVIOUS
<1> HIDE DEF window, loose
<1>5. CASE loose = {}
  BY <1>1, <1>2, <1>3, <1>5 DEF window
<1>6. CASE loose # {}
  <2>1. \E k \in loose : \A j \in loose : k <= j
    BY <1>1, <1>4, <1>6, LeastMember
  <2>2. Victim(q) \in loose
    BY <1>2, <1>6, <2>1
  <2> QED
    BY <1>1, <1>3, <1>4, <2>2
<1> QED
  BY <1>5, <1>6

\* A dequeue takes an item of the queue.
LEMMA NextIndexFacts ==
  ASSUME NEW q \in Seq(Items), q # <<>>, NEW newest \in BOOLEAN
  PROVE  NextIndex(q, newest) \in DOMAIN q
<1> DEFINE urgent == {k \in 1..Smaller(Len(q), DequeueWindow) : q[k] \in Priority}
<1>1. /\ Len(q) \in Nat \ {0} /\ DOMAIN q = 1..Len(q)
      /\ urgent \in SUBSET DOMAIN q /\ urgent \in SUBSET Nat
  BY ScanQueueOpsAssumption DEF Smaller
<1>2. NextIndex(q, newest) =
        IF newest THEN Len(q)
        ELSE IF PriorityDequeue /\ urgent # {}
             THEN CHOOSE k \in urgent : \A j \in urgent : k <= j ELSE 1
  BY DEF NextIndex
<1> HIDE DEF urgent
<1>3. urgent # {} => \E k \in urgent : \A j \in urgent : k <= j
  BY <1>1, LeastMember
<1>4. urgent # {} => (CHOOSE k \in urgent : \A j \in urgent : k <= j) \in DOMAIN q
  BY <1>1, <1>3
<1>5. Len(q) \in DOMAIN q /\ 1 \in DOMAIN q
  BY <1>1
<1> QED
  BY <1>2, <1>4, <1>5

\* After an enqueue, whatever is pending and was queued, in the file or the newcomer is
\* queued or in the file.
LEMMA EnqueueFacts ==
  ASSUME NEW s \in [queue : Seq(Items), file : FileType, fate : [Items -> Fates]],
         NEW i \in Items, NEW st \in Enqueue(s, i)
  PROVE  /\ st \in [queue : Seq(Items), file : FileType, fate : [Items -> Fates]]
         /\ i \in Range(st.queue)
         /\ \A j \in Items : st.fate[j] = "pending" =>
              /\ s.fate[j] = "pending"
              /\ j \in Range(s.queue) \cup Range(s.file.lines) =>
                   j \in Range(st.queue) \cup Range(st.file.lines)
         /\ \A p \in Protected : p \in Range(s.queue) \ Range(st.queue) =>
              \A k \in 1..Smaller(Len(s.queue), EvictionWindow) : s.queue[k] \in Protected
<1> DEFINE q == s.queue
           v == Victim(q)
           gone == <<q[v]>>
           rest == RemoveAt(q, v)
<1>1. q \in Seq(Items) /\ s.file \in FileType /\ s.fate \in [Items -> Fates] /\ Len(q) \in Nat
  OBVIOUS
<1>2. CASE Len(q) < MaxScanQueue
  <2>1. st = [s EXCEPT !.queue = Append(@, i)]
    BY <1>2 DEF Enqueue
  <2>2. Append(q, i) \in Seq(Items) /\ Range(Append(q, i)) = Range(q) \cup {i}
    BY <1>1, RangeAppend
  <2>3. /\ st.queue = Append(q, i) /\ st.file = s.file /\ st.fate = s.fate
        /\ st \in [queue : Seq(Items), file : FileType, fate : [Items -> Fates]]
    BY <2>1, <2>2
  <2> HIDE DEF q
  <2> QED
    BY <2>2, <2>3 DEF q
<1>3. CASE ~(Len(q) < MaxScanQueue)
  <2>1. PICK r \in SpillResults(s.file, gone) :
          st = [queue |-> Append(rest, i), file |-> r.file,
                fate |-> Settled(s.fate, s.file, gone, r)]
    BY <1>3 DEF Enqueue
  <2> HIDE DEF q
  <2>2. q # <<>>
    BY <1>1, <1>3, ScanQueueAssumption
  <2>3. /\ v \in DOMAIN q
        /\ q[v] \in Protected =>
             \A k \in 1..Smaller(Len(q), EvictionWindow) : q[k] \in Protected
    BY <1>1, <2>2, VictimFacts
  <2> HIDE DEF v
  <2>4. rest \in Seq(Items) /\ Range(q) = Range(rest) \cup {q[v]}
    BY <1>1, <2>3, RangeRemoveAt
  <2> HIDE DEF rest
  <2>5. gone \in Seq(Items) /\ Range(gone) = {q[v]}
    <3>1. gone \in Seq(Items) /\ DOMAIN gone = {1} /\ gone[1] = q[v]
      BY <1>1, <2>3
    <3> QED
      BY <3>1 DEF Range
  <2> HIDE DEF gone
  <2>6. Append(rest, i) \in Seq(Items) /\ Range(Append(rest, i)) = Range(rest) \cup {i}
    BY <2>4, RangeAppend
  <2>7. /\ r.file \in FileType
        /\ Settled(s.fate, s.file, gone, r) \in [Items -> Fates]
        /\ \A j \in Items : Settled(s.fate, s.file, gone, r)[j] = "pending" =>
             /\ s.fate[j] = "pending"
             /\ j \in Range(s.file.lines) \cup Range(gone) => j \in Range(r.file.lines)
    BY <1>1, <2>5, SpillFacts
  <2>8. /\ st.queue = Append(rest, i) /\ st.file = r.file
        /\ st.fate = Settled(s.fate, s.file, gone, r)
        /\ st \in [queue : Seq(Items), file : FileType, fate : [Items -> Fates]]
    BY <2>1, <2>6, <2>7
  <2>9. \A p \in Range(q) \ Range(st.queue) : p = q[v]
    BY <2>4, <2>6, <2>8
  <2> QED
    BY <2>3, <2>4, <2>5, <2>6, <2>7, <2>8, <2>9 DEF q
<1> QED
  BY <1>2, <1>3

-----------------------------------------------------------------------------
(* The steps *)

\* The inductive invariant.
IInv == TypeOK /\ NoSilentLoss

\* What ProtectedShedLast says of one step.
ShedRule ==
  \A p \in Protected :
    p \in Range(queue) \ (Range(queue') \cup Range(taken')) =>
      IF Range(queue') \subseteq Range(queue)
      THEN Range(queue') \subseteq Protected \cup IocKnown
      ELSE \A k \in 1..Smaller(Len(queue), EvictionWindow) : queue[k] \in Protected

\* A new monitor has nothing to lose.
LEMMA Started == Init => IInv
<1> SUFFICES ASSUME Init PROVE IInv
  OBVIOUS
<1>1. LaneCount \in Nat \ {0}
  BY ScanQueueOpsAssumption DEF LaneCount
<1>2. TypeOK
  BY <1>1, ScanQueueAssumption DEF Init, TypeOK, Fates
<1>3. NoSilentLoss
  BY DEF Init, NoSilentLoss
<1> QED
  BY <1>2, <1>3 DEF IInv

\* The newcomer is queued; what it displaces is in the file or ledgered.
LEMMA IngestKeeps ==
  ASSUME IInv, NEW i \in Items, Ingest(i)
  PROVE  IInv' /\ ShedRule
<1> DEFINE s == [queue |-> queue, file |-> file, fate |-> [fate EXCEPT ![i] = "pending"]]
<1>1. /\ s \in [queue : Seq(Items), file : FileType, fate : [Items -> Fates]]
      /\ s.queue = queue /\ s.file = file
      /\ \A j \in Items : j # i => s.fate[j] = fate[j]
  BY DEF IInv, TypeOK, FileType, Fates
<1>2. PICK st \in Enqueue(s, i) : queue' = st.queue /\ file' = st.file /\ fate' = st.fate
  BY DEF Ingest
<1>3. UNCHANGED <<taken, recent, seq, pressure>> /\ i \notin Range(queue)
  BY DEF Ingest
<1> HIDE DEF s
<1>4. /\ st \in [queue : Seq(Items), file : FileType, fate : [Items -> Fates]]
      /\ i \in Range(st.queue)
      /\ \A j \in Items : st.fate[j] = "pending" =>
           /\ s.fate[j] = "pending"
           /\ j \in Range(queue) \cup Range(file.lines) =>
                j \in Range(st.queue) \cup Range(st.file.lines)
      /\ \A p \in Protected : p \in Range(queue) \ Range(st.queue) =>
           \A k \in 1..Smaller(Len(queue), EvictionWindow) : queue[k] \in Protected
  <2>1. /\ st \in [queue : Seq(Items), file : FileType, fate : [Items -> Fates]]
        /\ i \in Range(st.queue)
        /\ \A j \in Items : st.fate[j] = "pending" =>
             /\ s.fate[j] = "pending"
             /\ j \in Range(s.queue) \cup Range(s.file.lines) =>
                  j \in Range(st.queue) \cup Range(st.file.lines)
        /\ \A p \in Protected : p \in Range(s.queue) \ Range(st.queue) =>
             \A k \in 1..Smaller(Len(s.queue), EvictionWindow) : s.queue[k] \in Protected
    BY <1>1, EnqueueFacts
  <2> QED
    BY <1>1, <2>1
<1>5. TypeOK'
  BY <1>2, <1>3, <1>4 DEF IInv, TypeOK, FileType
<1>6. ASSUME NEW j \in Items, fate'[j] = "pending"
      PROVE  j \in Range(queue') \cup Range(file'.lines) \cup Range(taken')
  <2>1. CASE j = i
    BY <1>2, <1>4, <2>1
  <2>2. CASE j # i
    <3>1. fate[j] = "pending"
      BY <1>1, <1>2, <1>4, <1>6, <2>2
    <3> QED
      BY <1>2, <1>3, <1>4, <1>6, <3>1 DEF IInv, NoSilentLoss
  <2> QED
    BY <2>1, <2>2
<1>7. ShedRule
  BY <1>2, <1>3, <1>4 DEF ShedRule
<1> QED
  BY <1>5, <1>6, <1>7 DEF IInv, NoSilentLoss

\* An item moves from the queue to a worker.
LEMMA TakeKeeps ==
  ASSUME IInv, NEW w \in Workers, Take(w)
  PROVE  IInv' /\ ShedRule
<1> DEFINE k == NextIndex(queue, PullNewest(seq, Len(queue)))
<1>1. /\ taken[w] = Nobody /\ queue # <<>>
      /\ taken' = [taken EXCEPT ![w] = queue[k]]
      /\ queue' = RemoveAt(queue, k)
      /\ seq' = (seq + 1) % LaneCount
      /\ UNCHANGED <<file, recent, pressure, fate>>
  BY DEF Take
<1>2. queue \in Seq(Items) /\ taken \in [Workers -> Items \cup {Nobody}]
  BY DEF IInv, TypeOK
<1>3. k \in DOMAIN queue
  <2>1. PullNewest(seq, Len(queue)) \in BOOLEAN
    BY ScanQueueOpsAssumption DEF PullNewest
  <2> QED
    BY <1>1, <1>2, <2>1, NextIndexFacts
<1> HIDE DEF k
<1>4. queue' \in Seq(Items) /\ Range(queue) = Range(queue') \cup {queue[k]}
  BY <1>1, <1>2, <1>3, RangeRemoveAt
<1>5. /\ taken' \in [Workers -> Items \cup {Nobody}]
      /\ taken'[w] = queue[k]
      /\ \A v \in Workers : taken[v] # Nobody => taken'[v] = taken[v]
  BY <1>1, <1>2, <1>3
<1>6. seq' \in 0..(LaneCount - 1)
  <2>1. LaneCount \in Nat \ {0} /\ seq + 1 \in Nat
    BY ScanQueueOpsAssumption DEF LaneCount, IInv, TypeOK
  <2> QED
    BY <1>1, <2>1
<1>7. TypeOK'
  BY <1>1, <1>4, <1>5, <1>6 DEF IInv, TypeOK
<1>8. queue[k] \in Range(taken') /\ \A i \in Items : i \in Range(taken) => i \in Range(taken')
  <2>1. \A i \in Items : i \in Range(taken) <=> \E v \in Workers : taken[v] = i
    BY <1>2 DEF Range
  <2>2. \A i : i \in Range(taken') <=> \E v \in Workers : taken'[v] = i
    BY <1>5 DEF Range
  <2> QED
    BY <1>5, <2>1, <2>2, ScanQueueAssumption
<1>9. ASSUME NEW i \in Items, fate'[i] = "pending"
      PROVE  i \in Range(queue') \cup Range(file'.lines) \cup Range(taken')
  BY <1>1, <1>4, <1>8, <1>9 DEF IInv, NoSilentLoss
<1>10. ShedRule
  BY <1>4, <1>8 DEF ShedRule
<1> QED
  BY <1>7, <1>9, <1>10 DEF IInv, NoSilentLoss

\* The item a worker is done with is no longer pending.
LEMMA FinishKeeps ==
  ASSUME IInv, NEW w \in Workers, Finish(w)
  PROVE  IInv' /\ ShedRule
<1>1. /\ taken[w] # Nobody
      /\ recent' = recent \cup {taken[w]}
      /\ fate' = [fate EXCEPT ![taken[w]] = "scanned"]
      /\ taken' = [taken EXCEPT ![w] = Nobody]
      /\ UNCHANGED <<queue, file, seq, pressure>>
  BY DEF Finish
<1>2. /\ taken \in [Workers -> Items \cup {Nobody}] /\ taken[w] \in Items
      /\ fate \in [Items -> Fates]
  BY <1>1 DEF IInv, TypeOK
<1>3. TypeOK'
  BY <1>1, <1>2 DEF IInv, TypeOK, Fates
<1>4. ASSUME NEW i \in Items, fate'[i] = "pending"
      PROVE  i \in Range(queue') \cup Range(file'.lines) \cup Range(taken')
  <2>1. i # taken[w] /\ fate[i] = "pending"
    BY <1>1, <1>2, <1>4
  <2>2. i \in Range(taken) => i \in Range(taken')
    <3>1. \A v \in Workers : v # w => taken'[v] = taken[v]
      BY <1>1, <1>2
    <3>2. i \in Range(taken) => \E v \in Workers : taken[v] = i
      BY <1>2 DEF Range
    <3>3. \A v \in Workers : taken'[v] \in Range(taken')
      BY <1>1, <1>2 DEF Range
    <3> QED
      BY <2>1, <3>1, <3>2, <3>3
  <2> QED
    BY <1>1, <2>1, <2>2 DEF IInv, NoSilentLoss
<1>5. ShedRule
  BY <1>1 DEF ShedRule
<1> QED
  BY <1>3, <1>4, <1>5 DEF IInv, NoSilentLoss

\* An emergency spills what it evicts, the items outside kept before the others.
LEMMA EmergencyKeeps ==
  ASSUME IInv, Emergency
  PROVE  IInv' /\ ShedRule
<1>1. PICK kept \in {Protected, Protected \cup IocKnown} :
        LET out == Marked(queue, Len(queue) - EmergencyKeep, kept)
            batch == KeepAt(queue, out)
        IN  /\ queue' = KeepAt(queue, DOMAIN queue \ out)
            /\ \E r \in SpillResults(file, batch) :
                 /\ file' = r.file
                 /\ fate' = Settled(fate, file, batch, r)
  BY DEF Emergency
<1> DEFINE n == Len(queue) - EmergencyKeep
           out == Marked(queue, n, kept)
           batch == KeepAt(queue, out)
<1>2. PICK r \in SpillResults(file, batch) :
        file' = r.file /\ fate' = Settled(fate, file, batch, r)
  BY <1>1
<1>3. queue' = KeepAt(queue, DOMAIN queue \ out)
  BY <1>1
<1>4. /\ queue \in Seq(Items) /\ file \in FileType /\ fate \in [Items -> Fates]
      /\ recent' = {} /\ UNCHANGED <<taken, seq, pressure>>
  BY DEF IInv, TypeOK, FileType, Emergency
<1>5. n \in Nat
  BY <1>4, ScanQueueAssumption DEF Emergency
<1> HIDE DEF n
<1>6. /\ out \in SUBSET DOMAIN queue
      /\ \A i \in out, j \in DOMAIN queue \ out :
           queue[i] \in kept => queue[j] \in kept
  BY <1>4, <1>5, MarkedFacts DEF EvictsLooseThenOldest
<1> HIDE DEF out
<1>7. /\ batch \in Seq(Items)
      /\ \A x : x \in Range(batch) <=> \E k \in out : queue[k] = x
  BY <1>4, <1>6, RangeKeepAt
<1> HIDE DEF batch
<1>8. /\ queue' \in Seq(Items)
      /\ \A x : x \in Range(queue') <=> \E k \in DOMAIN queue \ out : queue[k] = x
  <2> DEFINE rest == DOMAIN queue \ out
  <2>1. rest \in SUBSET DOMAIN queue /\ queue' = KeepAt(queue, rest)
    BY <1>3
  <2> HIDE DEF rest
  <2>2. /\ KeepAt(queue, rest) \in Seq(Items)
        /\ \A x : x \in Range(KeepAt(queue, rest)) <=> \E k \in rest : queue[k] = x
    BY <1>4, <2>1, RangeKeepAt
  <2> QED
    BY <2>1, <2>2 DEF rest
<1>9. \A x : x \in Range(queue) <=> \E k \in DOMAIN queue : queue[k] = x
  BY <1>4, RangeFacts
<1>10. /\ file' \in FileType /\ fate' \in [Items -> Fates]
       /\ \A j \in Items : fate'[j] = "pending" =>
            /\ fate[j] = "pending"
            /\ j \in Range(file.lines) \cup Range(batch) => j \in Range(file'.lines)
  BY <1>2, <1>4, <1>7, SpillFacts
<1>11. TypeOK'
  BY <1>4, <1>8, <1>10 DEF IInv, TypeOK, FileType
<1>12. ASSUME NEW j \in Items, fate'[j] = "pending"
       PROVE  j \in Range(queue') \cup Range(file'.lines) \cup Range(taken')
  <2>1. j \in Range(queue) \cup Range(file.lines) \cup Range(taken)
    BY <1>10, <1>12 DEF IInv, NoSilentLoss
  <2>2. j \in Range(queue) => j \in Range(batch) \/ j \in Range(queue')
    BY <1>7, <1>8, <1>9
  <2> QED
    BY <1>4, <1>10, <1>12, <2>1, <2>2
<1>13. ShedRule
  <2>1. ASSUME NEW p \in Protected, p \in Range(queue) \ (Range(queue') \cup Range(taken'))
        PROVE  /\ Range(queue') \subseteq Range(queue)
               /\ Range(queue') \subseteq Protected \cup IocKnown
    <3>1. PICK k \in out : queue[k] = p
      BY <1>8, <1>9, <2>1
    <3>2. queue[k] \in kept /\ kept \subseteq Protected \cup IocKnown
      BY <3>1
    <3> QED
      BY <1>6, <1>8, <1>9, <3>2
  <2> QED
    BY <2>1 DEF ShedRule
<1> QED
  BY <1>11, <1>12, <1>13 DEF IInv, NoSilentLoss

\* What is pending after a drain is queued, being processed, or an entry of the file
\* that the drain did not take.
LEMMA DrainedFacts ==
  ASSUME IInv, DrainEnabled, DrainThreshold <= MaxScanQueue, NEW st \in Drained
  PROVE  /\ st.queue \in Seq(Items) /\ st.fate \in [Items -> Fates] /\ st.file = file
         /\ Range(queue) \subseteq Range(st.queue)
         /\ \A j \in Items : st.fate[j] = "pending" =>
              \/ j \in Range(st.queue) \cup Range(taken)
              \/ j \in Range(file.lines) \ Range(Batch)
<1> DEFINE known == Ledgered(fate, Range(Batch) \cap recent, "scanned")
<1>1. TypeOK /\ fate \in [Items -> Fates] /\ {"scanned", "pending"} \subseteq Fates
  BY DEF IInv, TypeOK, Fates
<1>2. Enqueued(st, Len(FreshBatch))
  BY <1>1, Drains
<1>3. /\ known \in [Items -> Fates]
      /\ \A j \in Items :
           known[j] = IF j \in Range(Batch) \cap recent THEN "scanned" ELSE fate[j]
  BY <1>1, LedgeredFacts
<1>4. st.fate = Ledgered(known, Range(FreshBatch), "pending")
  BY <1>2 DEF Enqueued, StartState, Start
<1> HIDE DEF known
<1>5. \A j \in Items : st.fate[j] = IF j \in Range(FreshBatch) THEN "pending" ELSE known[j]
  BY <1>1, <1>3, <1>4, LedgeredFacts
<1>6. Range(FreshBatch) \subseteq Range(st.queue)
  <2>1. FreshBatch \in Seq(Items)
    BY <1>1, FreshFacts
  <2> QED
    BY <1>2, <2>1, RangeFacts DEF Enqueued
<1>7. \A x : x \in Range(FreshBatch)
               <=> x \in Range(Batch) /\ x \notin recent /\ x \notin Range(queue)
  BY <1>1, FreshFacts
<1>8. /\ st.queue \in Seq(Items) /\ st.fate \in [Items -> Fates] /\ st.file = file
      /\ Range(queue) \subseteq Range(st.queue)
  BY <1>2 DEF Enqueued
<1>9. ASSUME NEW j \in Items, st.fate[j] = "pending"
      PROVE  \/ j \in Range(st.queue) \cup Range(taken)
             \/ j \in Range(file.lines) \ Range(Batch)
  <2>1. CASE j \in Range(FreshBatch)
    BY <1>6, <2>1
  <2>2. CASE j \notin Range(FreshBatch)
    <3>1. fate[j] = "pending" /\ ~(j \in Range(Batch) \cap recent)
      BY <1>3, <1>5, <1>9, <2>2
    <3>2. j \in Range(queue) \cup Range(file.lines) \cup Range(taken)
      BY <3>1 DEF IInv, NoSilentLoss
    <3> QED
      BY <1>7, <1>8, <2>2, <3>1, <3>2
  <2> QED
    BY <2>1, <2>2
<1> QED
  BY <1>8, <1>9

\* A drain moves its batch from the file to the queue, ...
LEMMA DrainKeeps ==
  ASSUME IInv, Drain, DrainThreshold <= MaxScanQueue
  PROVE  IInv' /\ ShedRule
<1> DEFINE q == file.lines
           pick == DrainPick(q, BatchSize)
           rest == DOMAIN q \ pick
<1>1. PICK st \in Drained : queue' = st.queue /\ fate' = st.fate
  BY DEF Drain
<1>2. DrainEnabled /\ UNCHANGED <<taken, recent, seq, pressure>> /\ TypeOK
  BY DEF Drain, IInv
<1>3. /\ queue' \in Seq(Items) /\ fate' \in [Items -> Fates]
      /\ Range(queue) \subseteq Range(queue')
      /\ \A j \in Items : fate'[j] = "pending" =>
           \/ j \in Range(queue') \cup Range(taken)
           \/ j \in Range(q) \ Range(Batch)
  BY <1>1, <1>2, DrainedFacts
<1>4. file' = [lines |-> KeepAt(q, rest), torn |-> FALSE]
  BY DEF Drain, Rewritten
<1>5. q \in Seq(Items) /\ rest \in SUBSET DOMAIN q
  BY <1>2 DEF TypeOK
<1>6. /\ \A x : x \in Range(Batch) <=> \E k \in pick : q[k] = x
      /\ \A x : x \in Range(q) <=> \E k \in DOMAIN q : q[k] = x
      /\ \A k \in DOMAIN q : k \in rest <=> k \notin pick
  BY <1>2, <1>5, BatchFacts, RangeFacts
<1> HIDE DEF q, pick, rest
<1>7. /\ KeepAt(q, rest) \in Seq(Items)
      /\ \A x : x \in Range(KeepAt(q, rest)) <=> \E k \in rest : q[k] = x
  BY <1>5, RangeKeepAt
<1>8. TypeOK'
  BY <1>2, <1>3, <1>4, <1>7 DEF TypeOK
<1>9. ASSUME NEW j \in Items, fate'[j] = "pending"
      PROVE  j \in Range(queue') \cup Range(file'.lines) \cup Range(taken')
  BY <1>2, <1>3, <1>4, <1>6, <1>7, <1>9
<1>10. ShedRule
  BY <1>3 DEF ShedRule
<1> QED
  BY <1>8, <1>9, <1>10 DEF IInv, NoSilentLoss

\* ... and leaves it in both when it cannot rewrite the file.
LEMMA DrainUnwrittenKeeps ==
  ASSUME IInv, DrainUnwritten, DrainThreshold <= MaxScanQueue
  PROVE  IInv' /\ ShedRule
<1>1. PICK st \in Drained : queue' = st.queue /\ fate' = st.fate /\ file' = st.file
  BY DEF DrainUnwritten
<1>2. DrainEnabled /\ UNCHANGED <<taken, recent, seq, pressure>> /\ TypeOK
  BY DEF DrainUnwritten, IInv
<1>3. /\ queue' \in Seq(Items) /\ fate' \in [Items -> Fates] /\ file' = file
      /\ Range(queue) \subseteq Range(queue')
      /\ \A j \in Items : fate'[j] = "pending" =>
           \/ j \in Range(queue') \cup Range(taken)
           \/ j \in Range(file.lines) \ Range(Batch)
  BY <1>1, <1>2, DrainedFacts
<1>4. TypeOK'
  BY <1>2, <1>3 DEF TypeOK
<1>5. ASSUME NEW j \in Items, fate'[j] = "pending"
      PROVE  j \in Range(queue') \cup Range(file'.lines) \cup Range(taken')
  BY <1>2, <1>3, <1>5
<1>6. ShedRule
  BY <1>3 DEF ShedRule
<1> QED
  BY <1>4, <1>5, <1>6 DEF IInv, NoSilentLoss

\* No step of the monitor breaks the invariant or the rule.
LEMMA StepKeeps ==
  ASSUME IInv, [Next]_vars, DrainThreshold <= MaxScanQueue
  PROVE  IInv' /\ (ShedRule \/ UNCHANGED vars)
<1>1. CASE \E i \in Items : Ingest(i)
  BY <1>1, IngestKeeps
<1>2. CASE \E w \in Workers : Take(w) \/ Finish(w)
  BY <1>2, TakeKeeps, FinishKeeps
<1>3. CASE \E l \in Levels : Sample(l)
  <2>1. /\ UNCHANGED <<queue, file, taken, recent, seq, fate>> /\ pressure' \in Levels
    BY <1>3 DEF Sample
  <2> QED
    BY <2>1 DEF IInv, TypeOK, NoSilentLoss, ShedRule
<1>4. CASE Forget
  <2>1. /\ UNCHANGED <<queue, file, taken, seq, pressure, fate>> /\ recent' \in SUBSET recent
    BY <1>4 DEF Forget
  <2> QED
    BY <2>1 DEF IInv, TypeOK, NoSilentLoss, ShedRule
<1>5. CASE Emergency
  BY <1>5, EmergencyKeeps
<1>6. CASE Drain
  BY <1>6, DrainKeeps
<1>7. CASE DrainUnwritten
  BY <1>7, DrainUnwrittenKeeps
<1>8. CASE UNCHANGED vars
  BY <1>8 DEF vars, IInv, TypeOK, NoSilentLoss
<1> QED
  BY <1>1, <1>2, <1>3, <1>4, <1>5, <1>6, <1>7, <1>8 DEF Next

-----------------------------------------------------------------------------
(* The theorems *)

\* No item is lost without a trace, whatever evictions, compactions, torn appends and
\* failed rewrites it meets: while it is pending it is queued, in the spill file or with
\* a worker.
THEOREM NothingLostSilently ==
  ASSUME DrainThreshold <= MaxScanQueue
  PROVE  Spec => []ItemsAccounted
<1>1. IInv /\ [Next]_vars => IInv'
  BY StepKeeps
<1>2. IInv => ItemsAccounted
  BY DEF IInv, ItemsAccounted
<1> QED
  BY Started, <1>1, <1>2, PTL DEF Spec

\* Under pressure the queue sheds what is protected last: an enqueue at the cap only
\* if the whole eviction window is protected, an emergency only if nothing loose is left.
THEOREM ProtectedLast ==
  ASSUME DrainThreshold <= MaxScanQueue
  PROVE  Spec => ProtectedShedLast
<1>1. IInv /\ [Next]_vars => IInv'
  BY StepKeeps
<1>2. IInv /\ [Next]_vars => [ShedRule]_vars
  BY StepKeeps
<1>3. Spec => [][ShedRule]_vars
  BY Started, <1>1, <1>2, PTL DEF Spec
<1> QED
  BY <1>3, PTL DEF ProtectedShedLast, ShedRule

-----------------------------------------------------------------------------
(* Order of a drain *)

\* What a drain picks: the oldest protected entries, then the oldest of the others.
LEMMA PickedFacts ==
  ASSUME NEW line \in Seq(Items), NEW n \in Nat
  PROVE  LET Pr == {k \in DOMAIN line : line[k] \in Protected}
             Lo == {k \in DOMAIN line : line[k] \in Items \ Protected}
             l == Smaller(n, Cardinality(Pr))
         IN  /\ {k \in DrainPick(line, n) : line[k] \in Protected} = FirstOf(Pr, n)
             /\ DrainPick(line, n) \ FirstOf(Pr, n) = FirstOf(Lo, n - l)
             /\ n - l \in Nat
             /\ Cardinality(Pr) + Cardinality(Lo) = Len(line)
<1> DEFINE D == DOMAIN line
           m == Len(line)
           Pr == {k \in D : line[k] \in Protected}
           Lo == {k \in D : line[k] \in Items \ Protected}
           first == FirstOf(Pr, n)
           l == Smaller(n, Cardinality(Pr))
           pick == DrainPick(line, n)
<1>1. m \in Nat /\ D = 1..m /\ Pr \in SUBSET (1..m) /\ Lo \in SUBSET (1..m)
  OBVIOUS
<1>2. /\ \A k \in D : line[k] \in Items
      /\ \A k \in D : k \in Pr <=> line[k] \in Protected
      /\ D \ Pr = Lo
  OBVIOUS
<1>3. pick = first \cup FirstOf(D \ first, n - Cardinality(first))
  <2>1. {k \in D : line[k] \notin Items \ Protected} = Pr
    BY <1>2
  <2> QED
    BY <2>1 DEF DrainPick, Marked
<1> HIDE DEF D, m, Pr, Lo, pick
<1>4. IsFiniteSet(Pr) /\ IsFiniteSet(Lo) /\ Cardinality(Pr) \in Nat /\ Cardinality(Lo) \in Nat
  BY <1>1, Places
<1>5. Cardinality(Pr) + Cardinality(Lo) = m
  <2>1. IsFiniteSet(D) /\ Cardinality(D) = m
    BY <1>1, FS_Interval
  <2>2. D \cap Pr = Pr
    BY <1>1
  <2>3. Cardinality(D \ Pr) = Cardinality(D) - Cardinality(D \cap Pr)
    BY <2>1, FS_Difference
  <2>4. Cardinality(Lo) = m - Cardinality(Pr)
    BY <1>2, <2>1, <2>2, <2>3, Zenon
  <2> QED
    BY <1>1, <1>4, <2>4
<1>6. first \in SUBSET Pr /\ Cardinality(first) = l /\ n \in Int
  <2>1. n \in Int
    OBVIOUS
  <2> QED
    BY <1>1, <2>1, FirstOfFacts
<1>7. n - l \in Nat /\ l \in Nat /\ (n - l # 0 => l = Cardinality(Pr))
  BY <1>4 DEF Smaller
<1>8. FirstOf(D \ first, n - l) = FirstOf(Lo, n - l)
  <2>1. CASE n - l = 0
    <3>1. \A X : X \in SUBSET (1..m) => FirstOf(X, 0) = {}
      <4> SUFFICES ASSUME NEW X \in SUBSET (1..m) PROVE FirstOf(X, 0) = {}
        OBVIOUS
      <4>1. Cardinality(X) \in Nat /\ \A j \in X : Place(X, j) \in 1..Cardinality(X)
        BY <1>1, Places
      <4>2. \A j \in X : ~(Place(X, j) <= 0)
        BY <4>1
      <4> QED
        BY <4>2 DEF FirstOf
    <3>2. D \ first \in SUBSET (1..m)
      BY <1>1
    <3> QED
      BY <1>1, <2>1, <3>1, <3>2
  <2>2. CASE n - l # 0
    <3>1. first = Pr
      BY <1>4, <1>6, <1>7, <2>2, FS_Subset
    <3> QED
      BY <1>2, <3>1
  <2> QED
    BY <2>1, <2>2
<1>9. FirstOf(Lo, n - l) \in SUBSET Lo
  BY DEF FirstOf
<1>10. pick = first \cup FirstOf(Lo, n - l)
  BY <1>3, <1>6, <1>8
<1>11. Pr \cap Lo = {}
  BY <1>2
<1> HIDE DEF first, l
<1>12. {k \in pick : line[k] \in Protected} = first
  BY <1>1, <1>2, <1>6, <1>9, <1>10, <1>11
<1>13. pick \ first = FirstOf(Lo, n - l)
  BY <1>6, <1>9, <1>10, <1>11
<1> QED
  BY <1>5, <1>7, <1>12, <1>13 DEF D, m, Pr, Lo, pick, first, l

\* The order in which a drain enqueues (drainBacklog) is that of the reference, for every
\* backlog and every size of the batch.
THEOREM DrainInOrder ==
  ASSUME NEW line \in Seq(Items), NEW n \in Nat
  PROVE  DrainIsProtectedThenFifo(line, n)
<1> DEFINE Pr == {k \in DOMAIN line : line[k] \in Protected}
           Lo == {k \in DOMAIN line : line[k] \in Items \ Protected}
           l == Smaller(n, Cardinality(Pr))
           a == KeepAt(line, Pr)
           b == KeepAt(line, Lo)
<1>1. DrainOrder(line, n) = KeepAt(line, FirstOf(Pr, n)) \o KeepAt(line, FirstOf(Lo, n - l))
      /\ n - l \in Nat /\ Cardinality(Pr) + Cardinality(Lo) = Len(line)
  BY PickedFacts DEF DrainOrder
<1>2. Filtered(line, Protected) = a /\ Filtered(line, Items \ Protected) = b
  BY FilteredIsKeepAt
<1>3. Pr \in SUBSET DOMAIN line /\ Lo \in SUBSET DOMAIN line
  OBVIOUS
<1> HIDE DEF Pr, Lo, l
<1>4. /\ KeepAt(line, FirstOf(Pr, n)) = SubSeq(a, 1, l)
      /\ KeepAt(line, FirstOf(Lo, n - l)) = SubSeq(b, 1, Smaller(n - l, Cardinality(Lo)))
  BY <1>1, <1>3, KeepAtFirst DEF l
<1>5. /\ a \in Seq(Items) /\ Len(a) = Cardinality(Pr)
      /\ b \in Seq(Items) /\ Len(b) = Cardinality(Lo)
  BY <1>3, KeepAtFacts
<1> HIDE DEF a, b
<1>6. SubSeq(a, 1, l) \o SubSeq(b, 1, Smaller(n - l, Len(b)))
        = SubSeq(a \o b, 1, Smaller(n, Len(a) + Len(b)))
  BY <1>5, OpeningOfBoth DEF l
<1> QED
  BY <1>1, <1>2, <1>4, <1>5, <1>6 DEF DrainIsProtectedThenFifo

\* The evictions, the compaction and the drain meet their references.
THEOREM SelectionsCorrect == Spec => []SelectionsMeetReference
<1>1. ASSUME NEW line \in BoundedSeq(Items, MaxLen), NEW n \in 0..MaxLen
      PROVE  EvictsLooseThenOldest(line, n, Protected) /\ DrainIsProtectedThenFifo(line, n)
  <2>1. line \in Seq(Items) /\ n \in Nat
    <3>1. PICK m \in 0..MaxLen : line \in [1..m -> Items]
      BY DEF BoundedSeq, SeqOf
    <3> QED
      BY <3>1, ScanQueueAssumption
  <2> QED
    BY <2>1, MarkedFacts, DrainInOrder
<1>2. SelectionsMeetReference
  BY <1>1 DEF SelectionsMeetReference, SelectionsAgree
<1> QED
  BY <1>2, PTL

=============================================================================
