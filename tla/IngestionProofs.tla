---------------------------- MODULE IngestionProofs ----------------------------
(***************************************************************************)
(* Proofs about Ingestion, for every number of polls, batch and chunk      *)
(* size, catch-up limit and number of faults.  Neither cursor property is  *)
(* inductive.  A poll carries what it still has to queue in its local      *)
(* state across its awaits, so HalvesCovered says of every poll, abandoned *)
(* ones included, that what it will advance over is queued, settled or     *)
(* still in its hands.  A save replaces the older snapshot, so             *)
(* SnapshotFresh says that memory knows everything the disk knows.         *)
(***************************************************************************)
EXTENDS Ingestion, TLAPS

HalvesCovered ==
  \A p \in Polls :
    /\ half[p].at = "push" => 1..half[p].upto \subseteq queue \cup settled \cup half[p].todo
    /\ half[p].at \in {"fetch", "reinit", "probe"} => 1..half[p].from \subseteq queue \cup settled

SnapshotFresh == phase # "down" => queueFile \cup restored \subseteq queue \cup settled

Stopped ==
  phase = "down" => /\ queue = {} /\ restored = {} /\ cursor = None /\ current = None
                    /\ half = [p \in Polls |-> At("off")]

Covered ==
  /\ CursorCovered
  /\ SavedCursorCovered
  /\ HalvesCovered
  /\ SnapshotFresh

IInv == TypeOK /\ Covered /\ Stopped

-----------------------------------------------------------------------------

LEMMA InitInv == Init => IInv
  BY IngestionAssumption
  DEF Init, IInv, TypeOK, Covered, CursorCovered, SavedCursorCovered, HalvesCovered,
      SnapshotFresh, Stopped, Below, At, Half, Steps, Awaiting, Seqs, Feeds, IngestionAssumption

\* What the steps of one half have in common: they change that half, and only add to the
\* changes accounted for.
LEMMA HalfStep ==
  ASSUME IInv, NEW p \in Polls, NEW h \in Half, phase # "down",
         half' = [half EXCEPT ![p] = h],
         UNCHANGED <<feed, head, queueFile, stateFile, phase, restored>>,
         current' \in Polls \cup {None}, faults' \in 0..MaxFaults,
         cursor' \in Seqs \cup {None}, cursorFile' \in Seqs \cup {None},
         queue' \subseteq Seqs, settled' \subseteq Seqs,
         queue \cup settled \subseteq queue' \cup settled',
         Below(cursor') \subseteq queue' \cup settled',
         settled \subseteq settled',
         h.at = "push" => 1..h.upto \subseteq queue' \cup settled' \cup h.todo,
         h.at \in {"fetch", "reinit", "probe"} => 1..h.from \subseteq queue' \cup settled'
  PROVE  IInv'
<1>1. TypeOK'
  BY DEF IInv, TypeOK
<1>2. CursorCovered' /\ SavedCursorCovered' /\ SnapshotFresh'
  BY DEF IInv, Covered, CursorCovered, SavedCursorCovered, SnapshotFresh, Below
<1>3. HalvesCovered'
  <2> SUFFICES ASSUME NEW q \in Polls
               PROVE  /\ half'[q].at = "push" =>
                            1..half'[q].upto \subseteq queue' \cup settled' \cup half'[q].todo
                      /\ half'[q].at \in {"fetch", "reinit", "probe"} =>
                            1..half'[q].from \subseteq queue' \cup settled'
    BY DEF HalvesCovered
  <2>1. CASE q = p
    BY <2>1 DEF IInv, TypeOK
  <2>2. CASE q # p
    <3>1. half'[q] = half[q]
      BY <2>2 DEF IInv, TypeOK
    <3> QED
      BY <3>1 DEF IInv, Covered, HalvesCovered
  <2> QED
    BY <2>1, <2>2
<1>4. Stopped'
  BY DEF Stopped
<1> QED
  BY <1>1, <1>2, <1>3, <1>4 DEF IInv, Covered

\* What a half has still to queue joins what is covered below it.
LEMMA Ranges ==
  ASSUME NEW a \in Seqs, NEW b \in Seqs
  PROVE  /\ (a + 1)..b \subseteq Seqs /\ 1..b \subseteq Seqs
         /\ 1..b \subseteq 1..a \cup (a + 1)..b
  BY IngestionAssumption DEF Seqs, IngestionAssumption

\* A half that returns, hangs or turns to RSS has nothing to cover.
LEMMA Idle ==
  /\ At("off") \in Half /\ At("done") \in Half /\ At("hung") \in Half
  /\ At("init") \in Half /\ At("rss") \in Half /\ At("fetch") \in Half
  /\ \A step \in Steps : At(step).at = step /\ At(step).from = 0 /\ At(step).upto = 0
  BY IngestionAssumption DEF At, Half, Steps, Awaiting, Seqs, IngestionAssumption

LEMMA PollStep ==
  ASSUME IInv, NEW p \in Polls,
         \/ InitAnswer(p) \/ FetchAnswer(p) \/ FetchError(p) \/ ReinitAnswer(p)
         \/ \E seen \in Seqs : Fallback(p, seen)
         \/ \E known \in BOOLEAN : ProbeAnswer(p, known)
         \/ PushChunk(p) \/ Advance(p) \/ RssEnd(p)
         \/ StartPoll(p) \/ Hang(p) \/ Watchdog(p)
  PROVE  IInv'
<1> USE IngestionAssumption DEF IngestionAssumption
<1>0. TypeOK /\ Covered /\ Stopped
  BY DEF IInv
<1>a. /\ head \in Seqs /\ 1..head \subseteq Seqs /\ half[p] \in Half
      /\ half[p].from \in Seqs /\ half[p].upto \in Seqs /\ half[p].todo \subseteq Seqs
      /\ half[p].at \in Steps
      /\ settled \subseteq Seqs /\ queue \subseteq Seqs
      /\ cursor \in Seqs \cup {None} /\ cursorFile \in Seqs \cup {None}
      /\ current \in Polls \cup {None} /\ faults \in 0..MaxFaults
      /\ Below(cursor) \subseteq queue \cup settled
  BY <1>0, Ranges DEF TypeOK, Half, Covered, CursorCovered
<1> DEFINE ret == At(IF current = p THEN "done" ELSE "off")
<1>b. ret \in Half /\ ret.at \notin {"push", "fetch", "reinit", "probe"}
  BY Idle DEF Steps
<1>c. \A n \in Seqs : Below(n) = 1..n
  BY DEF Below, Seqs
<1>1. CASE InitAnswer(p)
  <2>1. /\ phase # "down" /\ half' = [half EXCEPT ![p] = ret]
        /\ UNCHANGED <<feed, head, current, queue, queueFile, stateFile, phase, restored, faults>>
        /\ cursor' = head /\ cursorFile' = head /\ settled' = settled \cup 1..head
    BY <1>1 DEF InitAnswer, Is, Running, Returns, Becomes, Moved, disk
  <2> QED
    BY <1>a, <1>b, <1>c, <2>1, HalfStep
<1>2. CASE FetchAnswer(p)
  <2> DEFINE from == half[p].from
             upto == IF head > from + Limit[feed] THEN from + Limit[feed] ELSE head
             h == [at |-> "push", from |-> from, upto |-> upto, todo |-> (from + 1)..upto]
  <2>1. from <= head /\ upto \in Seqs
    <3>1. Limit[feed] \in Nat
      BY <1>0 DEF TypeOK
    <3> QED
      BY <1>2, <1>a, <3>1 DEF FetchAnswer, Seqs
  <2>2. (from + 1)..upto \subseteq Seqs /\ 1..upto \subseteq 1..from \cup (from + 1)..upto
    BY <1>a, <2>1, Ranges
  <2>3. 1..from \subseteq queue \cup settled /\ phase # "down"
    BY <1>0, <1>2 DEF FetchAnswer, Is, Running, Covered, HalvesCovered
  <2>4. UNCHANGED <<feed, head, cursor, current, queue, queueFile, stateFile, cursorFile, phase,
                    restored, settled, faults>>
    BY <1>2 DEF FetchAnswer, Asked, disk, history
  <2>5. \/ half' = [half EXCEPT ![p] = ret]
        \/ half' = [half EXCEPT ![p] = [h EXCEPT !.at = "probe", !.todo = {}]]
        \/ half' = [half EXCEPT ![p] = h]
    BY <1>2, Z3 DEF FetchAnswer, Returns, Becomes
  <2>6. h \in Half /\ [h EXCEPT !.at = "probe", !.todo = {}] \in Half
    BY <1>a, <2>1, <2>2 DEF Half, Steps, Awaiting
  <2>7. CASE half' = [half EXCEPT ![p] = ret]
    BY <1>a, <1>b, <2>3, <2>4, <2>7, HalfStep
  <2>8. CASE half' = [half EXCEPT ![p] = [h EXCEPT !.at = "probe", !.todo = {}]]
    BY <1>a, <2>3, <2>4, <2>6, <2>8, HalfStep
  <2>9. CASE half' = [half EXCEPT ![p] = h]
    BY <1>a, <2>2, <2>3, <2>4, <2>6, <2>9, HalfStep
  <2> QED
    BY <2>5, <2>7, <2>8, <2>9
<1>3. CASE FetchError(p)
  <2> DEFINE h == [half[p] EXCEPT !.at = "reinit"]
  <2>1. /\ phase # "down" /\ half' = [half EXCEPT ![p] = h]
        /\ UNCHANGED <<feed, head, cursor, current, queue, queueFile, stateFile, cursorFile,
                       phase, restored, settled, faults>>
        /\ 1..half[p].from \subseteq queue \cup settled
    BY <1>0, <1>3
    DEF FetchError, Is, Running, Becomes, Asked, disk, history, Covered, HalvesCovered
  <2>2. h \in Half /\ h.at = "reinit" /\ h.from = half[p].from
    BY <1>a DEF Half, Steps, Awaiting
  <2> QED
    BY <1>a, <2>1, <2>2, HalfStep
<1>4. CASE ReinitAnswer(p)
  <2>1. /\ phase # "down" /\ half' = [half EXCEPT ![p] = ret]
        /\ UNCHANGED <<feed, head, current, queue, queueFile, stateFile, phase, restored, faults>>
        /\ cursor' = head /\ cursorFile' = head
        /\ settled' = settled \cup (half[p].from + 1)..head
        /\ 1..half[p].from \subseteq queue \cup settled
    BY <1>0, <1>4
    DEF ReinitAnswer, Is, Running, Returns, Becomes, Moved, disk, Covered, HalvesCovered
  <2>2. /\ (half[p].from + 1)..head \subseteq Seqs
        /\ 1..head \subseteq 1..half[p].from \cup (half[p].from + 1)..head
    BY <1>a, Ranges
  <2> QED
    BY <1>a, <1>b, <1>c, <2>1, <2>2, HalfStep
<1>5. ASSUME NEW seen \in Seqs, Fallback(p, seen) PROVE IInv'
  <2> DEFINE h == [At("rss") EXCEPT !.todo = (seen + 1)..head]
  <2>1. /\ phase # "down" /\ half' = [half EXCEPT ![p] = h]
        /\ UNCHANGED <<feed, head, cursor, current, queue, queueFile, stateFile, cursorFile,
                       phase, restored, settled, faults>>
    BY <1>5 DEF Fallback, Is, Running, Becomes, Asked, disk, history
  <2>2. h \in Half /\ h.at = "rss"
    BY <1>a, <1>5, Ranges, Idle DEF Half, At
  <2> QED
    BY <1>a, <2>1, <2>2, HalfStep
<1>6. ASSUME NEW known \in BOOLEAN, ProbeAnswer(p, known) PROVE IInv'
  <2> DEFINE h == half[p]
             g == [h EXCEPT !.at = "push", !.todo = (h.from + 1)..h.upto]
  <2>1. /\ phase # "down"
        /\ UNCHANGED <<feed, head, current, queue, queueFile, stateFile, phase, restored, faults>>
        /\ 1..h.from \subseteq queue \cup settled
        /\ CatchUp(p, head) \/ CatchUp(p, h.upto) \/ StartPush(p)
    BY <1>0, <1>6 DEF ProbeAnswer, Is, Running, Moved, disk, Covered, HalvesCovered
  <2>2. \A n \in Seqs : /\ (h.from + 1)..n \subseteq Seqs
                        /\ 1..n \subseteq 1..h.from \cup (h.from + 1)..n
    BY <1>a, Ranges
  <2>3. ASSUME NEW n \in Seqs, CatchUp(p, n) PROVE IInv'
    <3>1. /\ half' = [half EXCEPT ![p] = ret]
          /\ cursor' = n /\ cursorFile' = n /\ settled' = settled \cup (h.from + 1)..n
      BY <2>3 DEF CatchUp, Returns, Becomes
    <3> QED
      BY <1>a, <1>b, <1>c, <2>1, <2>2, <3>1, HalfStep
  <2>4. CASE StartPush(p)
    <3>1. /\ half' = [half EXCEPT ![p] = g]
          /\ cursor' = cursor /\ cursorFile' = cursorFile /\ settled' = settled
      BY <2>4 DEF StartPush, Becomes
    <3>2. g \in Half /\ g.at = "push" /\ g.upto = h.upto /\ g.todo = (h.from + 1)..h.upto
      BY <1>a, <2>2 DEF Half, Steps, Awaiting
    <3> QED
      BY <1>a, <2>1, <2>2, <3>1, <3>2, HalfStep
  <2> QED
    BY <1>a, <2>1, <2>3, <2>4
<1>7. CASE PushChunk(p)
  <2> DEFINE todo == half[p].todo
             chunk == {n \in todo : Cardinality({m \in todo : m < n}) < ChunkSize}
             h == [half[p] EXCEPT !.todo = half[p].todo \ chunk]
  <2>1. /\ phase # "down" /\ half[p].at \in {"push", "rss"}
        /\ queue' = queue \cup chunk /\ half' = [half EXCEPT ![p] = h]
        /\ UNCHANGED <<feed, head, cursor, current, queueFile, stateFile, cursorFile, phase,
                       restored, settled, faults>>
        /\ half[p].at = "push" => 1..half[p].upto \subseteq queue \cup settled \cup todo
    <3> HIDE DEF chunk
    <3>1. /\ phase # "down" /\ half[p].at \in {"push", "rss"}
          /\ UNCHANGED <<feed, head, cursor, current, queueFile, stateFile, cursorFile, phase,
                         restored, settled, faults>>
      BY <1>7 DEF PushChunk, Is, Running, disk, history
    <3>2. queue' = queue \cup chunk /\ half' = [half EXCEPT ![p] = h]
      BY <1>7, <1>a, <1>0 DEF PushChunk, Becomes, TypeOK, chunk, Half
    <3> QED
      BY <1>0, <3>1, <3>2 DEF Covered, HalvesCovered
  <2>2. chunk \subseteq todo
    OBVIOUS
  <2> HIDE DEF chunk
  <2>3. h \in Half /\ h.at = half[p].at /\ h.upto = half[p].upto /\ h.todo = todo \ chunk
    BY <1>a DEF Half
  <2> QED
    BY <1>a, <2>1, <2>2, <2>3, HalfStep
<1>8. CASE Advance(p)
  <2>1. /\ phase # "down" /\ half' = [half EXCEPT ![p] = ret]
        /\ UNCHANGED <<feed, head, current, queue, queueFile, stateFile, phase, restored,
                       settled, faults>>
        /\ cursor' = half[p].upto /\ cursorFile' \in {half[p].upto, cursorFile}
        /\ 1..half[p].upto \subseteq queue \cup settled
    BY <1>0, <1>8 DEF Advance, Is, Running, Returns, Becomes, Moved, disk, Covered, HalvesCovered
  <2> QED
    BY <1>a, <1>b, <1>c, <2>1, HalfStep
<1>9. CASE RssEnd(p)
  <2>1. /\ phase # "down" /\ half' = [half EXCEPT ![p] = ret]
        /\ UNCHANGED <<feed, head, cursor, current, queue, queueFile, stateFile, cursorFile,
                       phase, restored, settled, faults>>
    BY <1>9 DEF RssEnd, Is, Running, Returns, Becomes, Asked, disk, history
  <2> QED
    BY <1>a, <1>b, <2>1, HalfStep
<1>10. CASE StartPoll(p)
  <2> DEFINE h == IF cursor = None THEN At("init") ELSE [At("fetch") EXCEPT !.from = cursor]
  <2>1. /\ phase # "down" /\ half' = [half EXCEPT ![p] = h] /\ current' = p
        /\ UNCHANGED <<feed, head, cursor, queue, queueFile, stateFile, cursorFile,
                       phase, restored, settled, faults>>
    BY <1>10 DEF StartPoll, Becomes, disk, history
  <2>2. CASE cursor = None
    BY <1>a, <2>1, <2>2, Idle, HalfStep DEF At
  <2>3. CASE cursor # None
    <3>1. cursor \in Seqs /\ Below(cursor) = 1..cursor
      BY <1>a, <1>c, <2>3
    <3>2. h \in Half /\ h.at = "fetch" /\ h.from = cursor
      BY <2>3, <3>1, Idle DEF Half, At
    <3> QED
      BY <1>a, <2>1, <3>1, <3>2, HalfStep
  <2> QED
    BY <2>2, <2>3
<1>11. CASE Hang(p)
  <2>1. /\ phase # "down" /\ half' = [half EXCEPT ![p] = At("hung")]
        /\ faults' \in 0..MaxFaults
        /\ UNCHANGED <<feed, head, cursor, current, queue, queueFile, stateFile, cursorFile,
                       phase, restored, settled>>
    BY <1>11, <1>a DEF Hang, Becomes, disk
  <2> QED
    BY <1>a, <2>1, Idle, HalfStep DEF At
<1>12. CASE Watchdog(p)
  <2>1. /\ phase # "down" /\ current' = None /\ faults' \in 0..MaxFaults
        /\ UNCHANGED <<feed, head, cursor, queue, queueFile, stateFile, cursorFile,
                       phase, restored, settled>>
        /\ \/ half' = [half EXCEPT ![p] = half[p]]
           \/ half' = [half EXCEPT ![p] = At("off")]
    BY <1>12, <1>a, <1>0 DEF Watchdog, Becomes, Running, disk, TypeOK
  <2>2. CASE half' = [half EXCEPT ![p] = half[p]]
    BY <1>0, <1>a, <2>1, <2>2, HalfStep DEF Covered, HalvesCovered
  <2>3. CASE half' = [half EXCEPT ![p] = At("off")]
    BY <1>a, <2>1, <2>3, Idle, HalfStep DEF At
  <2> QED
    BY <2>1, <2>2, <2>3
<1> QED
  BY <1>1, <1>2, <1>3, <1>4, <1>5, <1>6, <1>7, <1>8, <1>9, <1>10, <1>11, <1>12

\* A save makes the snapshot and the cursor on disk those of memory, together.
LEMMA SaveStep ==
  ASSUME IInv, SaveAll, phase # "down",
         UNCHANGED <<feed, head, cursor, queue, settled, faults>>,
         current' \in Polls \cup {None},
         \/ half' = half
         \/ \E p \in Polls : half' = [half EXCEPT ![p] = At("off")]
  PROVE  IInv'
<1> USE IngestionAssumption DEF IngestionAssumption
<1>1. TypeOK'
  BY Idle DEF IInv, TypeOK, SaveAll
<1>2. CursorCovered' /\ SavedCursorCovered' /\ SnapshotFresh' /\ Stopped'
  BY DEF IInv, Covered, CursorCovered, SavedCursorCovered, SnapshotFresh, Stopped, SaveAll, Below
<1>3. HalvesCovered'
  <2>1. CASE half' = half
    BY <2>1 DEF IInv, Covered, HalvesCovered
  <2>2. ASSUME NEW p \in Polls, half' = [half EXCEPT ![p] = At("off")]
        PROVE  HalvesCovered'
    <3>1. \A q \in Polls : half'[q] = half[q] \/ half'[q] = At("off")
      BY <2>2 DEF IInv, TypeOK
    <3> QED
      BY <3>1 DEF IInv, Covered, HalvesCovered, At
  <2> QED
    BY <2>1, <2>2
<1> QED
  BY <1>1, <1>2, <1>3 DEF IInv, Covered

\* Steps that leave the polls alone and only move changes between queue, snapshot and the
\* settled ones.
LEMMA DiskStep ==
  ASSUME IInv, UNCHANGED <<feed, head, cursor, half, current, cursorFile>>,
         phase # "down", phase' \in {"boot", "up", "draining", "saved"},
         stateFile' \in {stateFile, None}, faults' \in 0..MaxFaults,
         queue' \subseteq Seqs, settled' \subseteq Seqs, queueFile' \subseteq Seqs,
         restored' \subseteq Seqs,
         queue \cup settled \subseteq queue' \cup settled', settled \subseteq settled',
         queueFile' \cup restored' \subseteq queue' \cup settled',
         \/ UNCHANGED <<queueFile, restored>>
         \/ queue' \subseteq queueFile'
  PROVE  IInv'
<1> USE IngestionAssumption DEF IngestionAssumption
<1>1. TypeOK' /\ Stopped'
  BY DEF IInv, TypeOK, Stopped
<1>2. CursorCovered' /\ SnapshotFresh' /\ HalvesCovered'
  BY DEF IInv, Covered, CursorCovered, SnapshotFresh, HalvesCovered, Below
<1>3. SavedCursorCovered'
  <2>1. Below(stateFile') \subseteq Below(stateFile)
    BY DEF Below
  <2>2. Below(stateFile) \subseteq queueFile' \cup restored' \cup settled'
    BY DEF IInv, Covered, SavedCursorCovered, SnapshotFresh
  <2> QED
    BY <2>1, <2>2 DEF SavedCursorCovered, Below
<1> QED
  BY <1>1, <1>2, <1>3 DEF IInv, Covered

\* The process stops: what is left is on disk.
LEMMA StopStep ==
  ASSUME IInv, MemoryLost, UNCHANGED <<feed, head, cursorFile>>,
         faults' \in 0..MaxFaults, stateFile' \in Seqs \cup {None},
         queueFile' \subseteq Seqs, settled' \subseteq Seqs,
         Below(stateFile') \subseteq queueFile' \cup settled'
  PROVE  IInv'
<1> USE IngestionAssumption DEF IngestionAssumption
<1>1. half' = [p \in Polls |-> At("off")] /\ phase' = "down"
  BY DEF MemoryLost
<1>2. TypeOK' /\ Stopped'
  BY Idle, <1>1 DEF IInv, TypeOK, Stopped, MemoryLost
<1>3. HalvesCovered'
  BY <1>1 DEF HalvesCovered, At
<1>4. CursorCovered' /\ SavedCursorCovered' /\ SnapshotFresh'
  BY <1>1 DEF CursorCovered, SavedCursorCovered, SnapshotFresh, MemoryLost, Below
<1> QED
  BY <1>2, <1>3, <1>4 DEF IInv, Covered

LEMMA StepInv == IInv /\ [Next]_vars => IInv'
<1> SUFFICES ASSUME IInv, [Next]_vars PROVE IInv'
  OBVIOUS
<1> USE IngestionAssumption DEF IngestionAssumption
<1>0. TypeOK /\ Covered /\ Stopped
  BY DEF IInv
<1>1. CASE Publish
  <2>1. head' \in Seqs
    BY <1>0, <1>1 DEF Publish, TypeOK, Seqs
  <2> QED
    BY <1>0, <1>1, <2>1
    DEF Publish, IInv, TypeOK, Covered, CursorCovered, SavedCursorCovered, HalvesCovered,
        SnapshotFresh, Stopped, Below, disk, history
<1>2. ASSUME NEW p \in Polls,
             \/ InitAnswer(p) \/ FetchAnswer(p) \/ FetchError(p) \/ ReinitAnswer(p)
             \/ \E seen \in Seqs : Fallback(p, seen)
             \/ \E known \in BOOLEAN : ProbeAnswer(p, known)
             \/ PushChunk(p) \/ Advance(p) \/ RssEnd(p)
             \/ StartPoll(p) \/ Hang(p) \/ Watchdog(p)
      PROVE  IInv'
  BY <1>2, PollStep
<1>3. CASE SkipPoll
  BY <1>0, <1>3, SaveStep DEF SkipPoll, history, TypeOK
<1>4. ASSUME NEW p \in Polls, FinishPoll(p) PROVE IInv'
  BY <1>4, SaveStep DEF FinishPoll, Is, Running, Becomes, history
<1>5. CASE PersistTimer
  BY <1>0, <1>5, DiskStep
  DEF PersistTimer, history, TypeOK, Covered, SnapshotFresh
<1>6. ASSUME NEW n \in Seqs, Take(n) PROVE IInv'
  <2>1. /\ phase \in {"up", "draining", "saved"} /\ phase' = phase
        /\ queue' = queue \ {n} /\ settled' = settled \cup {n}
        /\ UNCHANGED <<feed, head, half, cursor, current, queueFile, stateFile, cursorFile,
                       restored, faults>>
    BY <1>6 DEF Take, disk
  <2> QED
    BY <1>0, <1>6, <2>1, DiskStep DEF TypeOK, Covered, SnapshotFresh
<1>7. CASE ReportNow
  <2>1. CASE phase = "down"
    BY <1>0, <1>7, <2>1
    DEF ReportNow, IInv, TypeOK, Covered, CursorCovered, SavedCursorCovered, HalvesCovered,
        SnapshotFresh, Stopped, Below, history
  <2>2. CASE phase # "down"
    BY <1>0, <1>7, <2>2, DiskStep
    DEF ReportNow, history, TypeOK, Covered, SnapshotFresh
  <2> QED
    BY <2>1, <2>2
<1>8. CASE Crash
  <2>1. faults' \in 0..MaxFaults /\ settled' = settled \cup restored /\ MemoryLost
        /\ UNCHANGED <<feed, head, queueFile, stateFile, cursorFile>>
    BY <1>0, <1>8 DEF Crash, TypeOK, disk
  <2> QED
    BY <1>0, <2>1, StopStep DEF TypeOK, Covered, SavedCursorCovered
<1>9. CASE Shutdown
  <2>1. faults' \in 0..MaxFaults /\ phase' = "draining" /\ phase # "down"
        /\ UNCHANGED <<feed, head, cursor, half, current, queue, queueFile, stateFile,
                       cursorFile, restored, settled>>
    BY <1>0, <1>9 DEF Shutdown, TypeOK, disk
  <2> QED
    BY <1>0, <2>1, DiskStep DEF TypeOK, Covered, SnapshotFresh
<1>10. CASE ExitSaveQueue
  BY <1>0, <1>10, DiskStep DEF ExitSaveQueue, history, TypeOK
<1>11. CASE Exit
  <2>1. Below(cursor) \subseteq Seqs
    BY <1>0 DEF Covered, CursorCovered, TypeOK
  <2> QED
    BY <1>0, <1>11, <2>1, StopStep DEF Exit, TypeOK, Below
<1>12. CASE ExitAtOnce
  BY <1>0, <1>12, StopStep DEF ExitAtOnce, TypeOK, Covered, CursorCovered, history, Below
<1>13. CASE Boot
  <2>1. /\ phase' = "boot" /\ cursor' = Resume /\ queue' = queueFile /\ restored' = queueFile
        /\ queueFile' = {} /\ half = [p \in Polls |-> At("off")]
        /\ settled' = settled \cup (IF stateFile # None THEN {} ELSE Below(cursorFile) \ queueFile)
        /\ UNCHANGED <<feed, head, half, current, stateFile, cursorFile, faults>>
    BY <1>0, <1>13 DEF Boot, Stopped
  <2>2. Below(cursorFile) \subseteq Seqs
    BY <1>0, Ranges DEF TypeOK, Below
  <2>3. TypeOK'
    BY <1>0, <2>1, <2>2 DEF TypeOK, Resume
  <2>4. restored = {}
    BY <1>0, <1>13 DEF Boot, Stopped
  <2>5. SavedCursorCovered' /\ SnapshotFresh' /\ Stopped'
    BY <1>0, <2>1, <2>4 DEF Covered, SavedCursorCovered, SnapshotFresh, Stopped, Below
  <2>6. CursorCovered'
    BY <1>0, <2>1, <2>4 DEF Covered, SavedCursorCovered, CursorCovered, Resume, Below
  <2>7. HalvesCovered'
    BY <2>1 DEF HalvesCovered, At
  <2> QED
    BY <2>3, <2>5, <2>6, <2>7 DEF IInv, Covered
<1>14. CASE UNCHANGED vars
  BY <1>0, <1>14
  DEF vars, IInv, TypeOK, Covered, CursorCovered, SavedCursorCovered, HalvesCovered,
      SnapshotFresh, Stopped, Below, disk, history
<1> QED
  BY <1>1, <1>2, <1>3, <1>4, <1>5, <1>6, <1>7, <1>8, <1>9, <1>10, <1>11, <1>12, <1>13, <1>14
  DEF Next

LEMMA Invariance == Spec => []IInv
  BY InitInv, StepInv, PTL DEF Spec

-----------------------------------------------------------------------------

\* The pollers, the scheduler and the snapshots keep their types.
THEOREM TypeCorrect == Spec => []TypeOK
  BY Invariance, PTL DEF IInv

\* Whatever polls overlap, fail or are given up on, no change at or below the cursor in
\* memory is forgotten.
THEOREM NothingBelowCursorForgotten == Spec => []CursorCovered
  BY Invariance, PTL DEF IInv, Covered

\* Whenever the process dies, the snapshot and the cursor on disk agree: outside the three
\* windows, the next process starts with every change at or below its cursor.
THEOREM SnapshotMatchesCursor == Spec => []SavedCursorCovered
  BY Invariance, PTL DEF IInv, Covered

=============================================================================
