------------------------------ MODULE ScanQueue ------------------------------
(***************************************************************************)
(* The live scan queue, the backlog file it spills to and the workers that *)
(* empty it (src/src/monitor/scan-queue.js, src/src/monitor/spill.js, the  *)
(* memory breaker and the drain tick of src/src/monitor/daemon.js, and the *)
(* worker loop of src/src/monitor/queue.js).  An item is one version of a  *)
(* package; it may be published again after it was scanned.  Every handler *)
(* here is synchronous and is one action; disk failures are chosen freely. *)
(***************************************************************************)
EXTENDS ScanQueueOps

CONSTANTS Workers,
          Levels,           \* memory pressure levels: all between the two act alike
          Nobody,           \* an idle worker's item
          MaxScanQueue,     \* MAX_SCAN_QUEUE
          EmergencyKeep,    \* EMERGENCY_QUEUE_KEEP
          SpillEnabled,     \* MUADDIB_QUEUE_SPILL
          SpillMax,         \* MUADDIB_SPILL_MAX
          SpillCeiling,     \* more lines than this always exceed the byte budget
          DrainThreshold,   \* SPILL_DRAIN_THRESHOLD
          DrainBatch,       \* SPILL_DRAIN_BATCH
          TornAppends,      \* whether an append may fail after writing a partial line
          MaxLen            \* bound: arrays on which the selections meet their reference

ASSUME ScanQueueAssumption ==
  /\ {"none", "emergency"} \subseteq Levels
  /\ IsFiniteSet(Workers) /\ Nobody \notin Items
  /\ MaxScanQueue \in Nat \ {0} /\ EmergencyKeep \in Nat
  /\ SpillEnabled \in BOOLEAN /\ TornAppends \in BOOLEAN
  /\ SpillMax \in Nat \ {0} /\ SpillCeiling \in Nat /\ SpillCeiling >= SpillMax
  /\ DrainThreshold \in Nat \ {0} /\ DrainBatch \in Nat \ {0} /\ MaxLen \in Nat

VARIABLES queue,      \* scanQueue
          file,       \* the backlog: its readable lines; does its last byte lack a newline
          taken,      \* the item each worker is processing
          recent,     \* recentlyScanned
          seq,        \* _dequeueSeq, modulo the number of lanes
          pressure,   \* memory pressure level of the last sample
          fate        \* what the ledger or the scan result says of each item

vars == <<queue, file, taken, recent, seq, pressure, fate>>

\* "unseen": never ingested.  "pending": ingested, and neither scanned nor ledgered
\* as dropped since then.  "glued": its last record, ledgered as spilled, went to a
\* line that no reader can parse.
Fates == {"unseen", "pending", "scanned", "dropped", "glued"}

TypeOK ==
  /\ queue \in Seq(Items)
  /\ file \in [lines : Seq(Items), torn : BOOLEAN]
  /\ taken \in [Workers -> Items \cup {Nobody}]
  /\ recent \in SUBSET Items
  /\ seq \in 0..(LaneCount - 1)
  /\ pressure \in Levels
  /\ fate \in [Items -> Fates]

Init ==
  /\ queue = <<>>
  /\ file = [lines |-> <<>>, torn |-> FALSE]
  /\ taken = [w \in Workers |-> Nobody]
  /\ recent = {}
  /\ seq = 0
  /\ pressure = "none"
  /\ fate = [i \in Items |-> "unseen"]

-----------------------------------------------------------------------------
(* Spilling *)

\* The ledger entries of a set of items.
Ledgered(f, D, outcome) == [i \in Items |-> IF i \in D THEN outcome ELSE f[i]]

\* Appending to a file whose last line is torn glues the first record to it: the
\* reader skips the glued line.
Glued(f, batch) == IF f.torn /\ batch # <<>> THEN {Head(batch)} ELSE {}
Readable(f, batch) == IF Glued(f, batch) # {} THEN Tail(batch) ELSE batch

\* _compactBacklog: down to the cap, oldest unprotected entries first, ledgered.
\* A file under the cap is left as it is.
Compacted(f) ==
  LET doomed == Marked(f.lines, Len(f.lines) - SpillMax, Protected)
  IN  IF Len(f.lines) <= SpillMax THEN [file |-> f, dropped |-> {}]
      ELSE [file |-> [lines |-> KeepAt(f.lines, DOMAIN f.lines \ doomed), torn |-> FALSE],
            dropped |-> {f.lines[k] : k \in doomed}]

\* The byte count that triggers a compaction only estimates the number of lines:
\* it never fires below the cap and may fire late above it.
Grown(f) ==
  (IF Len(f.lines) > SpillCeiling THEN {} ELSE {[file |-> f, dropped |-> {}]})
    \cup {Compacted(f)}

\* spillItems: appended, or not, or (torn) partly.
SpillResults(f, batch) ==
  {[ok |-> FALSE, file |-> f, dropped |-> {}]}
    \cup
  (IF SpillEnabled
   THEN {[ok |-> TRUE, file |-> g.file, dropped |-> g.dropped] :
           g \in Grown([lines |-> f.lines \o Readable(f, batch), torn |-> FALSE])}
   ELSE {})
    \cup
  (IF SpillEnabled /\ TornAppends
   THEN {[ok |-> FALSE, dropped |-> {},
          file |-> [lines |-> f.lines \o Readable(f, SubSeq(batch, 1, k)), torn |-> TRUE]] :
           k \in 0..(Len(batch) - 1)}
   ELSE {})

\* Mutant: a failed spill is not ledgered as a drop.
SettledUnledgered(fates, f, batch, r) == Ledgered(fates, r.dropped, "dropped")

\* The fates after the batch was spilled to file f with result r: what was not
\* written is ledgered as dropped, and so is what a compaction removed.
Settled(fates, f, batch, r) ==
  IF r.ok THEN Ledgered(Ledgered(fates, Glued(f, batch), "glued"), r.dropped, "dropped")
          ELSE Ledgered(fates, Range(batch), "dropped")

-----------------------------------------------------------------------------
(* Enqueue *)

\* enqueueScan: what the queue, the file and the ledger may be afterwards.
Enqueue(st, i) ==
  LET v == Victim(st.queue)
      gone == st.queue[v]
      After(r) ==
        [queue |-> Append(RemoveAt(st.queue, v), i),
         file  |-> r.file,
         fate  |-> Settled(st.fate, st.file, <<gone>>, r)]
  IN  IF Len(st.queue) < MaxScanQueue
      THEN {[st EXCEPT !.queue = Append(@, i)]}
      ELSE {After(r) : r \in SpillResults(st.file, <<gone>>)}

EnqueueAll(S, i) == UNION {Enqueue(st, i) : st \in S}

\* A poll or a burst extra publishes a version that is not queued already.
Ingest(i) ==
  /\ i \notin Range(queue)
  /\ \E st \in Enqueue([queue |-> queue, file |-> file,
                        fate |-> [fate EXCEPT ![i] = "pending"]], i) :
       /\ queue' = st.queue
       /\ file' = st.file
       /\ fate' = st.fate
  /\ UNCHANGED <<taken, recent, seq, pressure>>

-----------------------------------------------------------------------------
(* Workers *)

\* _spawnWorker's loop body up to its first await.
Take(w) ==
  /\ taken[w] = Nobody
  /\ queue # <<>>
  /\ LET k == NextIndex(queue, PullNewest(seq, Len(queue)))
     IN  /\ taken' = [taken EXCEPT ![w] = queue[k]]
         /\ queue' = RemoveAt(queue, k)
  /\ seq' = (seq + 1) % LaneCount
  /\ UNCHANGED <<file, recent, pressure, fate>>

\* The worker is done with its item: scanned now, or skipped because it was.
Finish(w) ==
  /\ taken[w] # Nobody
  /\ recent' = recent \cup {taken[w]}
  /\ fate' = [fate EXCEPT ![taken[w]] = "scanned"]
  /\ taken' = [taken EXCEPT ![w] = Nobody]
  /\ UNCHANGED <<queue, file, seq, pressure>>

-----------------------------------------------------------------------------
(* Memory breaker *)

Sample(l) ==
  /\ pressure # l
  /\ pressure' = l
  /\ UNCHANGED <<queue, file, taken, recent, seq, fate>>

\* recentlyScanned forgets: its FIFO cap, its pruning, the daily report and the
\* breaker's cache pruning all do it.
Forget ==
  /\ \E S \in SUBSET recent : S # recent /\ recent' = S
  /\ UNCHANGED <<queue, file, taken, seq, pressure, fate>>

\* handleMemoryPressure at EMERGENCY: evictFromScanQueueBulk.  The IOC index is
\* used if it could be loaded.
Emergency ==
  /\ pressure = "emergency"
  /\ Len(queue) > EmergencyKeep
  /\ \E kept \in {Protected, Protected \cup IocKnown} :
       LET out == Marked(queue, Len(queue) - EmergencyKeep, kept)
           batch == KeepAt(queue, out)
       IN  /\ queue' = KeepAt(queue, DOMAIN queue \ out)
           /\ \E r \in SpillResults(file, batch) :
                /\ file' = r.file
                /\ fate' = Settled(fate, file, batch, r)
  /\ recent' = {}
  /\ UNCHANGED <<taken, seq, pressure>>

-----------------------------------------------------------------------------
(* Drain *)

\* The headroom below the threshold bounds the batch.
BatchSize ==
  Smaller(DrainBatch, IF DrainThreshold > Len(queue) THEN DrainThreshold - Len(queue) ELSE 1)

\* _writeEntries of what the drain did not pick, from the lines it read first.
Rewritten(lines, pick) == [lines |-> KeepAt(lines, DOMAIN lines \ pick), torn |-> FALSE]

\* What drainBacklog reads: a batch, of which the duplicates are discarded.
Batch == DrainOrder(file.lines, BatchSize)

Fresh(batch) ==
  KeepAt(batch, {k \in DOMAIN batch : batch[k] \notin recent /\ batch[k] \notin Range(queue)})

\* The state in which drainBacklog enqueues them.
Start(batch, fresh) ==
  [queue |-> queue, file |-> file,
   fate |-> Ledgered(Ledgered(fate, Range(batch) \cap recent, "scanned"),
                     Range(fresh), "pending")]

\* What may have happened when the items of fresh are enqueued one after the other.
AllEnqueued(start, fresh) ==
  LET after[n \in 0..Len(fresh)] ==
        IF n = 0 THEN {start} ELSE EnqueueAll(after[n - 1], fresh[n])
  IN  after[Len(fresh)]

\* What drainBacklog leaves in the queue, the file and the ledger before it rewrites
\* the file.  (Bound variables, as TLC evaluates those once.)
Drained ==
  UNION {AllEnqueued(Start(Batch, fresh), fresh) : fresh \in {Fresh(batch) : batch \in {Batch}}}

DrainEnabled ==
  /\ SpillEnabled
  /\ pressure = "none"
  /\ Len(queue) < DrainThreshold
  /\ file.lines # <<>>

\* drainBacklog, the rewrite succeeds.
Drain ==
  /\ DrainEnabled
  /\ \E st \in Drained :
       /\ queue' = st.queue
       /\ fate' = st.fate
  /\ file' = Rewritten(file.lines, DrainPick(file.lines, BatchSize))
  /\ UNCHANGED <<taken, recent, seq, pressure>>

\* drainBacklog, the rewrite throws: the entries are queued and in the file.
DrainUnwritten ==
  /\ DrainEnabled
  /\ \E st \in Drained :
       /\ queue' = st.queue
       /\ fate' = st.fate
       /\ file' = st.file
  /\ UNCHANGED <<taken, recent, seq, pressure>>

-----------------------------------------------------------------------------

Next ==
  \/ \E i \in Items : Ingest(i)
  \/ \E w \in Workers : Take(w) \/ Finish(w)
  \/ \E l \in Levels : Sample(l)
  \/ Forget
  \/ Emergency
  \/ Drain
  \/ DrainUnwritten

\* A worker that finds an item takes it and every scan ends (its timeouts see to
\* it); the main loop runs a drain tick whenever the drain stays allowed.
Fairness ==
  /\ \A w \in Workers : WF_vars(Take(w)) /\ WF_vars(Finish(w))
  /\ WF_vars(Drain)

Spec == Init /\ [][Next]_vars

FairSpec == Spec /\ Fairness

-----------------------------------------------------------------------------
(* Properties *)

\* No coverage loss without a trace: an ingested item is queued, in the backlog or
\* being processed until it is scanned or ledgered as dropped.  The one exception
\* the code makes is the record glued to a torn line.
NoSilentLoss ==
  \A i \in Items : fate[i] = "pending" =>
    i \in Range(queue) \cup Range(file.lines) \cup Range(taken)

\* The queue, the backlog and the workers account for every item, and keep to their types.
ItemsAccounted == TypeOK /\ NoSilentLoss

\* A protected item is shed only by a newcomer that finds the whole head window
\* protected, or by a bulk eviction that leaves nothing less important.
ProtectedShedLast ==
  [][\A p \in Protected :
       p \in Range(queue) \ (Range(queue') \cup Range(taken')) =>
         IF Range(queue') \subseteq Range(queue)
         THEN Range(queue') \subseteq Protected \cup IocKnown
         ELSE \A k \in 1..Smaller(Len(queue), EvictionWindow) : queue[k] \in Protected]_vars

\* A drain (drainBacklog) is the first n entries of "all protected ones, then the
\* others", each class in file order.
DrainIsProtectedThenFifo(line, n) ==
  DrainOrder(line, n) =
    SubSeq(Filtered(line, Protected) \o Filtered(line, Items \ Protected),
           1, Smaller(n, Len(line)))

SelectionsAgree ==
  \A line \in BoundedSeq(Items, MaxLen), n \in 0..MaxLen :
    EvictsLooseThenOldest(line, n, Protected) /\ DrainIsProtectedThenFifo(line, n)

\* The index arithmetic of the eviction, the compaction (evictFromScanQueueBulk,
\* _compactBacklog) and the drain meets its reference definition, on every array of at
\* most MaxLen items and for every size of a batch.  It depends on no state.
SelectionsMeetReference == Init => SelectionsAgree

\* The reserved lanes keep the oldest items moving: nothing stays queued for good.
QueueServed == \A i \in Items : []<>(i \notin Range(queue))

\* In a lasting calm the backlog empties.
BacklogDrains ==
  <>[](pressure = "none" /\ Len(queue) < DrainThreshold) => []<>(file.lines = <<>>)

=============================================================================
