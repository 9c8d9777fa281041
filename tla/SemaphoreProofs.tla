---------------------------- MODULE SemaphoreProofs ----------------------------
(***************************************************************************)
(* Proofs about the two hand-written FIFO semaphores, for every value of   *)
(* their constants.                                                        *)
(*                                                                         *)
(* HeavyLane: IInv is the inductive invariant.  SlotsAccounted alone is    *)
(* not inductive: a release hands its slot to the head of the queue        *)
(* without counting, which is right only if the head really waits          *)
(* (QueueIsWaiters).                                                       *)
(*                                                                         *)
(* HttpLimiter: LimiterInv adds to the accounting that the line for a slot *)
(* is exactly the requests that wait for one (LineIsWaiting, which a       *)
(* handover needs) and that every waiter of the bucket is promised to a    *)
(* client that waits for just that grant, or is gone (Promised): without   *)
(* it a grant could give a client that owns no slot one, or take one away. *)
(***************************************************************************)
EXTENDS HeavyLane, HttpLimiter, SelectionProofs, FiniteSetTheorems, SequenceTheorems, TLAPS

\* A pass that may time out still has a requeue left, so none is refused.
RequeuesLeft ==
  \A s \in Scans : /\ phase[s] = "expired" => retries[s] < HeavyRequeueMax
                   /\ phase[s] # "failed"

IInv ==
  /\ TypeOK
  /\ SlotsAccounted
  /\ LaneBounded
  /\ QueueIsWaiters
  /\ NoLostWakeup
  /\ NoAbortedWaiter
  /\ RequeuesLeft

-----------------------------------------------------------------------------
(* Heavy lane: the queue *)

\* What leaving the queue does to a queue that lists its members once.
LEMMA LeaveQueueFacts ==
  ASSUME TypeOK, QueueIsWaiters, NEW s \in Scans, LeaveQueue(s)
  PROVE  /\ queue' \in Seq(Scans)
         /\ queue # <<>>
         /\ \A t \in Scans : (\E i \in DOMAIN queue' : queue'[i] = t)
                               <=> t # s /\ \E i \in DOMAIN queue : queue[i] = t
         /\ \A i, j \in DOMAIN queue' : queue'[i] = queue'[j] => i = j
<1>1. PICK k \in DOMAIN queue : queue[k] = s /\ queue' = RemoveAt(queue, k)
  BY DEF LeaveQueue
<1>2. queue \in Seq(Scans)
  BY DEF TypeOK
<1>3. /\ queue' \in Seq(Scans)
      /\ Len(queue') = Len(queue) - 1
      /\ \A j \in DOMAIN queue' :
           queue'[j] = IF j < k THEN queue[j] ELSE queue[j + 1]
  BY <1>1, <1>2, RemoveAtFacts
<1>4. /\ k \in 1..Len(queue) /\ Len(queue) \in Nat
      /\ DOMAIN queue' = 1..(Len(queue) - 1)
      /\ DOMAIN queue = 1..Len(queue)
  BY <1>1, <1>2, <1>3
<1>5. \A i, j \in 1..Len(queue) : queue[i] = queue[j] => i = j
  BY <1>4 DEF QueueIsWaiters
<1>6. \A i, j \in DOMAIN queue' : queue'[i] = queue'[j] => i = j
  BY <1>3, <1>4, <1>5
<1>7. ASSUME NEW t \in Scans
      PROVE  (\E i \in DOMAIN queue' : queue'[i] = t)
               <=> t # s /\ \E i \in DOMAIN queue : queue[i] = t
  <2>1. ASSUME NEW i \in DOMAIN queue', queue'[i] = t
        PROVE  t # s /\ \E j \in DOMAIN queue : queue[j] = t
    <3>1. CASE i < k
      BY <1>1, <1>3, <1>4, <1>5, <2>1, <3>1
    <3>2. CASE ~(i < k)
      <4>1. i + 1 \in 1..Len(queue) /\ i + 1 # k /\ queue[i + 1] = t
        BY <1>3, <1>4, <2>1, <3>2
      <4> QED
        BY <1>1, <1>4, <1>5, <4>1
    <3> QED
      BY <3>1, <3>2
  <2>2. ASSUME NEW i \in DOMAIN queue, queue[i] = t, t # s
        PROVE  \E j \in DOMAIN queue' : queue'[j] = t
    <3>1. i # k
      BY <1>1, <2>2
    <3>2. CASE i < k
      <4>1. i \in DOMAIN queue' /\ queue'[i] = t
        BY <1>3, <1>4, <2>2, <3>2
      <4> QED
        BY <4>1
    <3>3. CASE i > k
      <4>1. i - 1 \in DOMAIN queue' /\ queue'[i - 1] = t
        BY <1>3, <1>4, <2>2, <3>3
      <4> QED
        BY <4>1
    <3> QED
      BY <1>4, <3>1, <3>2, <3>3
  <2> QED
    BY <2>1, <2>2
<1>8. queue # <<>>
  BY <1>1
<1> QED
  BY <1>3, <1>6, <1>7, <1>8

-----------------------------------------------------------------------------
(* The counter *)

\* The holders are some of the scans.
LEMMA HoldersFinite == IsFiniteSet(Holders)
BY FS_Subset, HeavyLaneAssumption DEF Holders, HeavyLaneAssumption

\* A scan that gets a slot nobody had is one holder more, ...
LEMMA AddHolder ==
  ASSUME TypeOK, NEW s \in Scans, s \notin Holders, Holders' = Holders \cup {s}
  PROVE  Cardinality(Holders') = Cardinality(Holders) + 1
BY HoldersFinite, FS_AddElement

\* ... and one that gives its slot back is one holder less.
LEMMA DropHolder ==
  ASSUME TypeOK, NEW s \in Scans, s \in Holders, Holders' = Holders \ {s}
  PROVE  /\ Cardinality(Holders') = Cardinality(Holders) - 1
         /\ Cardinality(Holders) \in Nat \ {0}
BY HoldersFinite, FS_RemoveElement, FS_CardinalityType, FS_EmptySet

\* Passing a slot on leaves the number of holders alone.
LEMMA PassHolder ==
  ASSUME TypeOK, NEW s \in Scans, NEW t \in Scans, s \in Holders, t \notin Holders,
         Holders' = (Holders \ {s}) \cup {t}
  PROVE  Cardinality(Holders') = Cardinality(Holders)
<1>1. /\ IsFiniteSet(Holders \ {s})
      /\ Cardinality(Holders \ {s}) = Cardinality(Holders) - 1
  BY HoldersFinite, FS_RemoveElement
<1>2. Cardinality((Holders \ {s}) \cup {t}) = Cardinality(Holders \ {s}) + 1
  BY <1>1, FS_AddElement
<1>3. Cardinality(Holders) \in Nat
  BY HoldersFinite, FS_CardinalityType
<1> QED
  BY <1>1, <1>2, <1>3

-----------------------------------------------------------------------------
(* The inductive invariant *)

\* Before the first acquire nobody waits and nobody holds.
LEMMA InitInv == Init => IInv
<1> SUFFICES ASSUME Init PROVE IInv
  OBVIOUS
<1>1. Holders = {}
  BY DEF Init, Holders
<1>2. SlotsAccounted
  BY <1>1, FS_EmptySet DEF Init, SlotsAccounted
<1>3. TypeOK /\ LaneBounded /\ NoLostWakeup
  BY HeavyLaneAssumption DEF Init, TypeOK, LaneBounded, NoLostWakeup, Phases,
     HeavyLaneAssumption
<1>4. QueueIsWaiters /\ NoAbortedWaiter /\ RequeuesLeft
  BY DEF Init, QueueIsWaiters, NoAbortedWaiter, RequeuesLeft
<1> QED
  BY <1>2, <1>3, <1>4 DEF IInv

\* A step that moves one scan between phases that own no slot, leaves the queue
\* and the counter alone and forgets its abort.
LEMMA QuietStep ==
  ASSUME IInv, NEW s \in Scans, NEW p \in Phases \ {"waiting", "failed"},
         phase[s] # "waiting",
         phase' = [phase EXCEPT ![s] = p],
         phase[s] \in {"granted", "holding"} <=> p \in {"granted", "holding"},
         UNCHANGED <<active, queue>>,
         aborted' \in SUBSET Scans, aborted' \subseteq aborted \cup {s},
         retries' \in [Scans -> Nat],
         \A t \in Scans : t = s \/ retries'[t] = retries[t],
         p # "expired"
  PROVE  IInv'
<1> USE DEF IInv
<1>1. TypeOK'
  BY DEF TypeOK
<1>2. Holders' = Holders
  BY DEF Holders, TypeOK
<1>3. SlotsAccounted' /\ LaneBounded' /\ NoLostWakeup'
  BY <1>2 DEF SlotsAccounted, LaneBounded, NoLostWakeup
<1>4. QueueIsWaiters'
  BY DEF QueueIsWaiters, TypeOK
<1>5. NoAbortedWaiter'
  BY DEF NoAbortedWaiter, TypeOK
<1>6. RequeuesLeft'
  BY DEF RequeuesLeft, TypeOK
<1> QED
  BY <1>1, <1>3, <1>4, <1>5, <1>6

\* A pending waiter that leaves the queue by itself touches no slot.
LEMMA BailStep ==
  ASSUME IInv, NEW s \in Scans, NEW p \in {"out", "expired"},
         phase[s] = "waiting", LeaveQueue(s), UNCHANGED active,
         phase' = [phase EXCEPT ![s] = p],
         aborted' \in SUBSET Scans, aborted' \subseteq aborted,
         retries' \in [Scans -> Nat],
         \A t \in Scans : t = s \/ retries'[t] = retries[t],
         p = "expired" => retries'[s] < HeavyRequeueMax
  PROVE  IInv'
<1> USE DEF IInv
<1>1. /\ queue' \in Seq(Scans)
      /\ queue # <<>>
      /\ \A t \in Scans : (\E i \in DOMAIN queue' : queue'[i] = t)
                            <=> t # s /\ \E i \in DOMAIN queue : queue[i] = t
      /\ \A i, j \in DOMAIN queue' : queue'[i] = queue'[j] => i = j
  BY LeaveQueueFacts
<1>2. TypeOK'
  BY <1>1 DEF TypeOK, Phases
<1>3. Holders' = Holders
  BY DEF Holders, TypeOK
<1>4. SlotsAccounted' /\ LaneBounded' /\ NoLostWakeup'
  BY <1>1, <1>3 DEF SlotsAccounted, LaneBounded, NoLostWakeup
<1>5. QueueIsWaiters'
  <2>1. \A t \in Scans : phase'[t] = "waiting" <=> t # s /\ phase[t] = "waiting"
    BY DEF TypeOK
  <2> QED
    BY <1>1, <2>1 DEF QueueIsWaiters
<1>6. NoAbortedWaiter' /\ RequeuesLeft'
  BY DEF NoAbortedWaiter, RequeuesLeft, TypeOK
<1> QED
  BY <1>2, <1>4, <1>5, <1>6

\* The slot goes to a scan nobody waits in front of.
LEMMA FastStep ==
  ASSUME IInv, NEW s \in Scans, AcquireFast(s)
  PROVE  IInv' /\ queue = <<>> /\ s \notin Holders /\ Holders' = Holders \cup {s}
<1> USE DEF IInv, AcquireFast
<1>1. queue = <<>>
  BY HeavyLaneAssumption DEF NoLostWakeup, TypeOK, HeavyLaneAssumption
<1>2. s \notin Holders /\ Holders' = Holders \cup {s}
  BY DEF Holders, TypeOK
<1>3. TypeOK'
  BY DEF TypeOK, Phases
<1>4. SlotsAccounted'
  BY <1>2, AddHolder DEF SlotsAccounted
<1>5. LaneBounded' /\ NoLostWakeup'
  BY <1>1, HeavyLaneAssumption
  DEF LaneBounded, NoLostWakeup, TypeOK, HeavyLaneAssumption
<1>6. QueueIsWaiters' /\ NoAbortedWaiter' /\ RequeuesLeft'
  BY DEF QueueIsWaiters, NoAbortedWaiter, RequeuesLeft, TypeOK
<1> QED
  BY <1>1, <1>2, <1>3, <1>4, <1>5, <1>6

\* A scan that finds all slots taken joins the queue, and is its only new member.
LEMMA WaitStep ==
  ASSUME IInv, NEW s \in Scans, AcquireWait(s)
  PROVE  IInv' /\ active = HeavyScanMax /\ Holders' = Holders /\ s \notin Holders
<1> USE DEF IInv, AcquireWait
<1>1. active = HeavyScanMax
  BY HeavyLaneAssumption DEF LaneBounded, TypeOK, HeavyLaneAssumption
<1>2. Holders' = Holders /\ s \notin Holders
  BY DEF Holders, TypeOK
<1>3. TypeOK'
  BY DEF TypeOK, Phases
<1>4. SlotsAccounted' /\ LaneBounded' /\ NoLostWakeup'
  BY <1>1, <1>2 DEF SlotsAccounted, LaneBounded, NoLostWakeup
<1>5. QueueIsWaiters'
  <2>1. /\ DOMAIN queue' = 1..(Len(queue) + 1) /\ Len(queue) \in Nat
        /\ DOMAIN queue = 1..Len(queue)
        /\ \A i \in 1..Len(queue) : queue'[i] = queue[i]
        /\ queue'[Len(queue) + 1] = s
    BY DEF TypeOK
  <2>2. \A i \in DOMAIN queue : queue[i] # s
    BY DEF QueueIsWaiters
  <2>3. \A i, j \in DOMAIN queue' : queue'[i] = queue'[j] => i = j
    BY <2>1, <2>2 DEF QueueIsWaiters
  <2>4. ASSUME NEW t \in Scans
        PROVE  phase'[t] = "waiting" <=> \E i \in DOMAIN queue' : queue'[i] = t
    <3>1. CASE t = s
      <4>1. phase'[t] = "waiting"
        BY <3>1 DEF TypeOK
      <4>2. Len(queue) + 1 \in DOMAIN queue' /\ queue'[Len(queue) + 1] = t
        BY <2>1, <3>1
      <4> QED
        BY <4>1, <4>2
    <3>2. CASE t # s
      <4>1. phase'[t] = phase[t]
        BY <3>2 DEF TypeOK
      <4>2. (\E i \in DOMAIN queue' : queue'[i] = t)
              <=> \E i \in DOMAIN queue : queue[i] = t
        BY <2>1, <3>2
      <4> QED
        BY <4>1, <4>2 DEF QueueIsWaiters
    <3> QED
      BY <3>1, <3>2
  <2> QED
    BY <2>3, <2>4 DEF QueueIsWaiters
<1>6. NoAbortedWaiter' /\ RequeuesLeft'
  BY DEF NoAbortedWaiter, RequeuesLeft, TypeOK
<1> QED
  BY <1>1, <1>2, <1>3, <1>4, <1>5, <1>6

\* A release with an empty queue counts down; with a waiter it passes the slot on.
LEMMA ReleaseStep ==
  ASSUME IInv, NEW s \in Scans, Release(s)
  PROVE  /\ IInv'
         /\ s \in Holders
         /\ \/ /\ queue = <<>> /\ queue' = queue
               /\ Holders' = Holders \ {s}
            \/ /\ queue # <<>> /\ queue' = Tail(queue)
               /\ Holders' = (Holders \ {s}) \cup {Head(queue)}
<1> USE DEF IInv
<1>1. s \in Holders
  BY DEF Release, Holders
<1>2. aborted' \in SUBSET Scans /\ aborted' \subseteq aborted
      /\ retries' \in [Scans -> Nat]
      /\ \A t \in Scans : t = s \/ retries'[t] = retries[t]
  BY DEF Release, TypeOK
<1>3. CASE queue = <<>>
  <2>1. /\ active' = IF active > 0 THEN active - 1 ELSE active
        /\ phase' = [phase EXCEPT ![s] = "out"]
        /\ queue' = queue
    BY <1>3 DEF Release
  <2>2. Holders' = Holders \ {s}
    BY <2>1 DEF Holders, TypeOK
  <2>3. TypeOK'
    BY <1>2, <2>1 DEF TypeOK, Phases
  <2>4. SlotsAccounted' /\ LaneBounded'
    <3>1. /\ Cardinality(Holders') = Cardinality(Holders) - 1
          /\ Cardinality(Holders) \in Nat \ {0}
      BY <1>1, <2>2, DropHolder
    <3> QED
      BY <2>1, <3>1, HeavyLaneAssumption
      DEF SlotsAccounted, LaneBounded, TypeOK, HeavyLaneAssumption
  <2>5. NoLostWakeup' /\ QueueIsWaiters'
    BY <1>3, <2>1, phase[s] # "waiting"
    DEF NoLostWakeup, QueueIsWaiters, TypeOK, Release
  <2>6. NoAbortedWaiter' /\ RequeuesLeft'
    BY <1>2, <2>1 DEF NoAbortedWaiter, RequeuesLeft, TypeOK, Release
  <2> QED
    BY <1>1, <1>3, <2>1, <2>2, <2>3, <2>4, <2>5, <2>6
<1>4. CASE queue # <<>>
  <2> DEFINE h == Head(queue)
  <2>1. /\ h \in Scans /\ 1 \in DOMAIN queue /\ h = queue[1]
        /\ Tail(queue) \in Seq(Scans)
        /\ DOMAIN Tail(queue) = 1..(Len(queue) - 1)
        /\ \A i \in 1..(Len(queue) - 1) : Tail(queue)[i] = queue[i + 1]
        /\ Len(queue) \in Nat \ {0} /\ DOMAIN queue = 1..Len(queue)
    BY <1>4 DEF TypeOK
  <2>2. phase[h] = "waiting" /\ h # s /\ h \notin Holders
    BY <2>1 DEF QueueIsWaiters, Release, Holders
  <2>3. /\ phase' = [phase EXCEPT ![s] = "out", ![h] = "granted"]
        /\ queue' = Tail(queue)
        /\ active' = active
    BY <1>4, <2>2 DEF Release, Woken
  <2> HIDE DEF h
  <2>4. Holders' = (Holders \ {s}) \cup {h}
    BY <2>1, <2>2, <2>3 DEF Holders, TypeOK
  <2>5. TypeOK'
    BY <1>2, <2>1, <2>3 DEF TypeOK, Phases
  <2>6. SlotsAccounted' /\ LaneBounded'
    BY <1>1, <2>1, <2>2, <2>3, <2>4, PassHolder DEF SlotsAccounted, LaneBounded
  <2>7. NoLostWakeup'
    BY <1>4, <2>3 DEF NoLostWakeup
  <2>8. QueueIsWaiters'
    <3>1. \A i, j \in DOMAIN queue' : queue'[i] = queue'[j] => i = j
      BY <2>1, <2>3 DEF QueueIsWaiters
    <3>2. ASSUME NEW t \in Scans
          PROVE  phase'[t] = "waiting" <=> t # h /\ phase[t] = "waiting"
      BY <2>1, <2>2, <2>3 DEF TypeOK, Release
    <3>3. ASSUME NEW t \in Scans
          PROVE  (\E i \in DOMAIN queue' : queue'[i] = t)
                   <=> t # h /\ \E i \in DOMAIN queue : queue[i] = t
      <4>1. ASSUME NEW i \in DOMAIN queue', queue'[i] = t
            PROVE  t # h /\ \E j \in DOMAIN queue : queue[j] = t
        <5>1. i + 1 \in DOMAIN queue /\ queue[i + 1] = t /\ i + 1 # 1
          BY <2>1, <2>3, <4>1
        <5> QED
          BY <2>1, <5>1 DEF QueueIsWaiters
      <4>2. ASSUME NEW i \in DOMAIN queue, queue[i] = t, t # h
            PROVE  \E j \in DOMAIN queue' : queue'[j] = t
        <5>1. i # 1
          BY <2>1, <4>2
        <5>2. i - 1 \in DOMAIN queue' /\ queue'[i - 1] = t
          BY <2>1, <2>3, <4>2, <5>1
        <5> QED
          BY <5>2
      <4> QED
        BY <4>1, <4>2
    <3> QED
      BY <3>1, <3>2, <3>3 DEF QueueIsWaiters
  <2>9. NoAbortedWaiter' /\ RequeuesLeft'
    BY <1>2, <2>1, <2>3 DEF NoAbortedWaiter, RequeuesLeft, TypeOK, Release
  <2> QED
    BY <1>1, <1>4, <2>3, <2>4, <2>5, <2>6, <2>7, <2>8, <2>9 DEF h
<1> QED
  BY <1>3, <1>4

\* One step per operation.
LEMMA StepInv == IInv /\ [Next]_vars => IInv'
<1> SUFFICES ASSUME IInv, [Next]_vars PROVE IInv'
  OBVIOUS
<1>0. TypeOK
  BY DEF IInv
<1>1. ASSUME NEW s \in Scans, AcquireOff(s) PROVE IInv'
  BY <1>0, <1>1, QuietStep DEF AcquireOff, TypeOK, Phases
<1>2. ASSUME NEW s \in Scans, AcquireFast(s) PROVE IInv'
  BY <1>2, FastStep
<1>3. ASSUME NEW s \in Scans, AcquireWait(s) PROVE IInv'
  BY <1>3, WaitStep
<1>4. ASSUME NEW s \in Scans, AcquireAborted(s) PROVE IInv'
  BY <1>0, <1>4, QuietStep DEF AcquireAborted, EndScan, TypeOK, Phases
<1>5. ASSUME NEW s \in Scans, Abort(s) PROVE IInv'
  <2>1. CASE phase[s] = "waiting"
    <3>1. /\ LeaveQueue(s)
          /\ phase' = [phase EXCEPT ![s] = "out"]
          /\ aborted' = aborted \ {s}
          /\ retries' = [retries EXCEPT ![s] = 0]
          /\ active' = active
      BY <1>5, <2>1 DEF Abort, EndScan
    <3>2. /\ aborted' \in SUBSET Scans /\ aborted' \subseteq aborted
          /\ retries' \in [Scans -> Nat]
          /\ \A t \in Scans : t = s \/ retries'[t] = retries[t]
      BY <1>0, <3>1 DEF TypeOK
    <3> QED
      BY <2>1, <3>1, <3>2, BailStep
  <2>2. CASE phase[s] # "waiting"
    <3>1. /\ aborted' = aborted \cup {s}
          /\ UNCHANGED <<active, queue, phase, retries>>
      BY <1>5, <2>2 DEF Abort
    <3>2. TypeOK' /\ QueueIsWaiters' /\ RequeuesLeft'
      BY <3>1 DEF IInv, TypeOK, QueueIsWaiters, RequeuesLeft
    <3>3. SlotsAccounted' /\ LaneBounded' /\ NoLostWakeup'
      BY <3>1 DEF IInv, SlotsAccounted, LaneBounded, NoLostWakeup, Holders
    <3>4. NoAbortedWaiter'
      BY <2>2, <3>1 DEF IInv, NoAbortedWaiter
    <3> QED
      BY <3>2, <3>3, <3>4 DEF IInv
  <2> QED
    BY <2>1, <2>2
<1>6. ASSUME NEW s \in Scans, WaitTimeout(s) PROVE IInv'
  <2>1. retries[s] < HeavyRequeueMax
    BY <1>0, <1>6, HeavyLaneAssumption
    DEF WaitTimeout, LastPass, TypeOK, HeavyLaneAssumption
  <2>2. /\ phase[s] = "waiting" /\ LeaveQueue(s)
        /\ phase' = [phase EXCEPT ![s] = "expired"]
        /\ active' = active /\ aborted' = aborted /\ retries' = retries
    BY <1>6 DEF WaitTimeout
  <2> QED
    BY <1>0, <2>1, <2>2, BailStep DEF TypeOK
<1>7. ASSUME NEW s \in Scans, Requeue(s) PROVE IInv'
  <2>1. retries[s] + 1 <= HeavyRequeueMax /\ retries[s] + 1 \in Nat
    BY <1>7, HeavyLaneAssumption
    DEF Requeue, IInv, RequeuesLeft, TypeOK, HeavyLaneAssumption
  <2>2. /\ retries' = [retries EXCEPT ![s] = retries[s] + 1]
        /\ phase' = [phase EXCEPT ![s] = "out"]
        /\ aborted' = aborted \ {s}
        /\ UNCHANGED <<active, queue>>
    BY <1>0, <1>7, <2>1 DEF Requeue, TypeOK
  <2>3. /\ aborted' \in SUBSET Scans
        /\ retries' \in [Scans -> Nat]
        /\ \A t \in Scans : t = s \/ retries'[t] = retries[t]
    BY <1>0, <2>1, <2>2 DEF TypeOK
  <2>4. phase[s] = "expired" /\ "out" \in Phases
    BY <1>7 DEF Requeue, Phases
  <2> QED
    BY <2>2, <2>3, <2>4, QuietStep
<1>8. ASSUME NEW s \in Scans, Resume(s) PROVE IInv'
  BY <1>0, <1>8, QuietStep DEF Resume, TypeOK, Phases
<1>9. ASSUME NEW s \in Scans, Release(s) PROVE IInv'
  BY <1>9, ReleaseStep
<1>10. ASSUME NEW s \in Scans, FinishFree(s) PROVE IInv'
  BY <1>0, <1>10, QuietStep DEF FinishFree, EndScan, TypeOK, Phases
<1>11. CASE UNCHANGED vars
  BY <1>11 DEF vars, IInv, TypeOK, SlotsAccounted, LaneBounded, QueueIsWaiters,
     NoLostWakeup, NoAbortedWaiter, RequeuesLeft, Holders
<1> QED
  BY <1>1, <1>2, <1>3, <1>4, <1>5, <1>6, <1>7, <1>8, <1>9, <1>10, <1>11
  DEF Next, Acquire

\* IInv holds in every reachable state.
THEOREM Invariance == Spec => []IInv
BY InitInv, StepInv, PTL DEF Spec

-----------------------------------------------------------------------------
(* Theorems *)

\* The variables of the lane always have their types.
THEOREM TypeCorrect == Spec => []TypeOK
<1>1. IInv => TypeOK
  BY DEF IInv
<1> QED
  BY <1>1, Invariance, PTL

\* _lane.active always equals the number of scans that own a slot, and nobody waits while
\* one is free: whatever aborts, wait timeouts and releases race, no slot is leaked or freed
\* twice, and no wakeup is lost.
THEOREM LaneKept == Spec => []LaneAccounted
<1>1. IInv => LaneAccounted
  BY DEF IInv, LaneAccounted
<1> QED
  BY <1>1, Invariance, PTL

\* The lane's width is never exceeded.
THEOREM WidthRespected == Spec => []LaneBounded
<1>1. IInv => LaneBounded
  BY DEF IInv
<1> QED
  BY <1>1, Invariance, PTL

\* _lane.queue lists the pending waiters, each once.
THEOREM QueueExact == Spec => []QueueIsWaiters
<1>1. IInv => QueueIsWaiters
  BY DEF IInv
<1> QED
  BY <1>1, Invariance, PTL

\* The requeue that queue.js expects after every wait timeout is always granted.
THEOREM AlwaysRequeued == Spec => []RequeueNeverExhausted
<1>1. IInv => RequeueNeverExhausted
  BY DEF IInv, RequeuesLeft, RequeueNeverExhausted
<1> QED
  BY <1>1, Invariance, PTL

-----------------------------------------------------------------------------
(* Refinement *)

\* The lane starts as the semaphore does.
LEMMA SemInit == Init => Sem!Init
BY DEF Init, Sem!Init, Holders

\* The semaphore's operators under the mapping are the lane's.
LEMMA SemOperators ==
  /\ \A S : Sem!Cardinality(S) = Cardinality(S)
  /\ \A q, i : Sem!RemoveAt(q, i) = RemoveAt(q, i)
BY DEF Sem!Cardinality, Cardinality, Sem!RemoveAt, RemoveAt

\* Every step of the lane is a step of the semaphore, or changes nothing it can see.
LEMMA SemStep == IInv /\ [Next]_vars => [Sem!Next]_(Sem!semVars)
<1> SUFFICES ASSUME IInv, [Next]_vars
             PROVE  Sem!Next \/ (Holders' = Holders /\ queue' = queue)
  BY DEF Sem!semVars
<1>0. TypeOK /\ active = Cardinality(Holders) /\ QueueIsWaiters
  BY DEF IInv, SlotsAccounted
<1>1. ASSUME NEW s \in Scans, AcquireFast(s) PROVE Sem!Enter(s)
  BY <1>0, <1>1, FastStep, SemOperators DEF Sem!Enter, AcquireFast
<1>2. ASSUME NEW s \in Scans, AcquireWait(s) PROVE Sem!Wait(s)
  BY <1>0, <1>2, WaitStep, SemOperators DEF Sem!Wait, AcquireWait, QueueIsWaiters
<1>3. ASSUME NEW s \in Scans, LeaveQueue(s), Holders' = Holders
      PROVE  Sem!Withdraw(s)
  BY <1>3, SemOperators DEF LeaveQueue, Sem!Withdraw
<1>4. ASSUME NEW s \in Scans, Release(s) PROVE Sem!Leave(s)
  BY <1>4, ReleaseStep DEF Sem!Leave
<1>5. ASSUME NEW s \in Scans, Abort(s)
      PROVE  Sem!Next \/ (Holders' = Holders /\ queue' = queue)
  <2>1. Holders' = Holders
    BY <1>0, <1>5 DEF Abort, EndScan, Holders, TypeOK
  <2> QED
    BY <1>3, <1>5, <2>1 DEF Abort, Sem!Next
<1>6. ASSUME NEW s \in Scans, WaitTimeout(s) PROVE Sem!Withdraw(s)
  <2>1. Holders' = Holders
    BY <1>0, <1>6 DEF WaitTimeout, Holders, TypeOK
  <2> QED
    BY <1>3, <1>6, <2>1 DEF WaitTimeout
<1>7. ASSUME NEW s \in Scans,
             \/ AcquireOff(s) \/ AcquireAborted(s) \/ Resume(s) \/ FinishFree(s)
      PROVE  Holders' = Holders /\ queue' = queue
  BY <1>0, <1>7 DEF AcquireOff, AcquireAborted, Resume, FinishFree, EndScan,
     Holders, TypeOK
<1>8. ASSUME NEW s \in Scans, Requeue(s) PROVE Holders' = Holders /\ queue' = queue
  BY <1>0, <1>8 DEF Requeue, Holders, TypeOK
<1>9. CASE UNCHANGED vars
  BY <1>9 DEF vars, Holders
<1> QED
  BY <1>1, <1>2, <1>4, <1>5, <1>6, <1>7, <1>8, <1>9 DEF Next, Acquire, Sem!Next

\* The counter-and-queue code is a counting semaphore with a FIFO line: a slot is
\* taken only when nobody waits, and is handed over in arrival order.
THEOREM LaneIsSemaphore == Spec => IsSemaphore
BY SemInit, SemStep, Invariance, PTL DEF Spec, Sem!Spec, IsSemaphore

-----------------------------------------------------------------------------
(* Registry limiter: the bucket *)

\* What a client that waits for a token waits for.
Kinds == {"token", "retry", "asks"}

\* Every waiter of the bucket has a client that waits for just that grant, unless it is gone,
\* and no client has two.
Promised(b, n) ==
  /\ \A i \in DOMAIN b.waiters : LET w == b.waiters[i] IN w.from # "gone" => n[w.who] = w.from
  /\ \A i, j \in DOMAIN b.waiters :
       /\ b.waiters[i].from # "gone" /\ b.waiters[j].from # "gone"
       /\ b.waiters[i].who = b.waiters[j].who
       => i = j

\* A refill changes tokens and pause; after a pause there is one token.
LEMMA RefillFacts ==
  ASSUME NEW b \in Buckets, NEW rate \in 1..Rate
  PROVE  /\ Refill(b, rate) \in Buckets
         /\ Refill(b, rate).waiters = b.waiters
         /\ b.pause = "over" => Refill(b, rate).tokens = 1
<1>1. Rate \in Nat /\ 1 \in 0..Rate /\ rate \in 0..Rate
  BY LimiterAssumption
<1>2. CASE b.pause = "on"
  BY <1>2 DEF Refill, Buckets
<1>3. CASE b.pause = "over"
  BY <1>1, <1>3 DEF Refill, Buckets
<1>4. CASE b.pause = "no" /\ b.second
  BY <1>1, <1>4 DEF Refill, Buckets
<1>5. CASE b.pause = "no" /\ ~b.second
  BY <1>5 DEF Refill, Buckets
<1> QED
  BY <1>2, <1>3, <1>4, <1>5 DEF Buckets

\* A 429 takes the tokens, and no waiter.
LEMMA LimitedFacts ==
  ASSUME NEW b \in Buckets
  PROVE  Limited(b) \in Buckets /\ Limited(b).waiters = b.waiters
<1>1. 0 \in 0..Rate
  BY LimiterAssumption
<1> QED
  BY <1>1 DEF Limited, Buckets

\* What happens to a client that waits for no token leaves the promises to the others.
LEMMA PromisedElsewhere ==
  ASSUME NEW b \in Buckets, NEW n \in [Clients -> Doing], Promised(b, n),
         NEW c \in Clients, n[c] \notin Kinds, NEW x
  PROVE  /\ Promised(b, [n EXCEPT ![c] = x])
         /\ \A i \in DOMAIN b.waiters : b.waiters[i].from # "gone" => b.waiters[i].who # c
<1>1. ASSUME NEW i \in DOMAIN b.waiters, b.waiters[i].from # "gone"
      PROVE  b.waiters[i].who # c /\ b.waiters[i].who \in Clients
  <2>1. b.waiters[i] \in Waiters
    BY DEF Buckets
  <2> QED
    BY <1>1, <2>1 DEF Promised, Waiters, Kinds
<1> QED
  BY <1>1 DEF Promised

\* A client that takes a token gets one, or becomes the last waiter.
LEMMA TakeFacts ==
  ASSUME NEW b \in Buckets, NEW n \in [Clients -> Doing], Promised(b, n),
         NEW c \in Clients, n[c] \notin Kinds, NEW from \in Kinds, NEW x
  PROVE  /\ Take(b, c, from) \in Buckets
         /\ Promised(Take(b, c, from), [n EXCEPT ![c] = IF Grants(b) THEN x ELSE from])
<1>1. CASE Grants(b)
  <2>1. b.tokens \in 0..Rate /\ b.tokens > 0 /\ Rate \in Nat
    BY <1>1, LimiterAssumption DEF Grants, Buckets
  <2>2. b.tokens - 1 \in 0..Rate
    BY <2>1
  <2>3. Take(b, c, from) \in Buckets /\ Take(b, c, from).waiters = b.waiters
    BY <1>1, <2>2 DEF Take, Buckets
  <2> QED
    BY <1>1, <2>3, PromisedElsewhere DEF Promised
<1>2. CASE ~Grants(b)
  <2> DEFINE new == [who |-> c, from |-> from]
             t == Take(b, c, from)
             m == [n EXCEPT ![c] = from]
  <2>1. new \in Waiters /\ b.waiters \in Seq(Waiters)
    BY DEF Waiters, Kinds, Buckets
  <2>2. t \in Buckets /\ t.waiters = Append(b.waiters, new)
    <3>1. t = [b EXCEPT !.waiters = Append(@, new), !.timer = TRUE]
      BY <1>2 DEF Take
    <3>2. \A s \in Seq(Waiters) : Append(s, new) \in Seq(Waiters)
      BY <2>1
    <3> HIDE DEF t, new
    <3> QED
      BY <2>1, <3>1, <3>2 DEF Buckets
  <2>3. /\ DOMAIN t.waiters = 1..(Len(b.waiters) + 1) /\ DOMAIN b.waiters = 1..Len(b.waiters)
        /\ Len(b.waiters) \in Nat
        /\ \A i \in DOMAIN b.waiters : t.waiters[i] = b.waiters[i]
        /\ t.waiters[Len(b.waiters) + 1] = new
    <3>1. \A s \in Seq(Waiters) : /\ DOMAIN s = 1..Len(s) /\ Len(s) \in Nat
                                 /\ Len(Append(s, new)) = Len(s) + 1
                                 /\ DOMAIN Append(s, new) = 1..(Len(s) + 1)
                                 /\ \A i \in DOMAIN s : Append(s, new)[i] = s[i]
                                 /\ Append(s, new)[Len(s) + 1] = new
      BY <2>1
    <3> HIDE DEF t, new
    <3> QED
      BY <2>1, <2>2, <3>1
  <2>4. /\ Promised(b, m)
        /\ \A i \in DOMAIN b.waiters : b.waiters[i].from # "gone" => b.waiters[i].who # c
    BY PromisedElsewhere
  <2>5. m[c] = from /\ new.who = c /\ new.from = from
    OBVIOUS
  <2> HIDE DEF t, m, new
  <2>6. Promised(t, m)
    <3>1. ASSUME NEW i \in DOMAIN t.waiters, t.waiters[i].from # "gone"
          PROVE  m[t.waiters[i].who] = t.waiters[i].from
      BY <2>3, <2>4, <2>5, <3>1 DEF Promised
    <3>2. ASSUME NEW i \in DOMAIN t.waiters, NEW j \in DOMAIN t.waiters,
                 t.waiters[i].from # "gone", t.waiters[j].from # "gone",
                 t.waiters[i].who = t.waiters[j].who
          PROVE  i = j
      <4>1. \A k \in DOMAIN t.waiters : k \in DOMAIN b.waiters \/ k = Len(b.waiters) + 1
        BY <2>3
      <4>2. CASE i \in DOMAIN b.waiters /\ j \in DOMAIN b.waiters
        BY <2>3, <2>4, <3>2, <4>2 DEF Promised
      <4>3. CASE i \notin DOMAIN b.waiters \/ j \notin DOMAIN b.waiters
        BY <2>3, <2>4, <2>5, <3>2, <4>1, <4>3
      <4> QED
        BY <4>2, <4>3
    <3> QED
      BY <3>1, <3>2 DEF Promised
  <2>7. [n EXCEPT ![c] = IF Grants(b) THEN x ELSE from] = m
    BY <1>2 DEF m
  <2> QED
    BY <2>2, <2>6, <2>7 DEF t
<1> QED
  BY <1>1, <1>2

-----------------------------------------------------------------------------
(* Registry limiter: the inductive invariant *)

\* The line for the slots has each client that waits in it once.
LineIsWaiting ==
  /\ \A c \in Clients : net[c] = "slot" <=> \E i \in DOMAIN slotLine : slotLine[i] = c
  /\ \A i, j \in DOMAIN slotLine : slotLine[i] = slotLine[j] => i = j

LimiterInv == RegistryCounted /\ LineIsWaiting /\ Promised(bucket, net)

\* A fresh bucket owes nothing to anybody.
LEMMA LimiterStarts == LimiterInit => LimiterInv
<1> SUFFICES ASSUME LimiterInit PROVE LimiterInv
  OBVIOUS
<1>1. SlotMax \in Nat /\ Rate \in Nat /\ 0 \in 0..(MaxRetries - 1) /\ 0 \in 0..SlotMax
  BY LimiterAssumption
<1>2. bucket \in Buckets /\ bucket.waiters = <<>>
  <2>1. <<>> \in Seq(Waiters) /\ \A k \in 1..Rate : k \in 0..Rate
    BY <1>1
  <2> QED
    BY <2>1 DEF LimiterInit, Buckets
<1>3. LimiterTypeOK
  BY <1>1, <1>2 DEF LimiterInit, LimiterTypeOK, Doing
<1>4. SlotOwners = {}
  BY DEF LimiterInit, SlotOwners
<1>5. slots = Cardinality(SlotOwners)
  BY <1>4, FS_EmptySet DEF LimiterInit
<1> QED
  BY <1>2, <1>3, <1>5
     DEF LimiterInv, RegistryCounted, LineIsWaiting, Promised, LimiterInit

\* The owners of slots before and after a step of client c, d the one it woke.
LEMMA OwnersFinite == IsFiniteSet(SlotOwners)
BY LimiterAssumption, FS_Subset DEF SlotOwners

OwnerStates == {"token", "use", "sleep", "retry", "denied"}

\* A step that changes neither the slots nor their owners, nor who waits for one.
LEMMA OwnersKept ==
  ASSUME LimiterInv, UNCHANGED <<slots, slotLine>>, net' \in [Clients -> Doing],
         \A c \in Clients : /\ net[c] \in OwnerStates <=> net'[c] \in OwnerStates
                            /\ net[c] = "slot" <=> net'[c] = "slot",
         bucket' \in Buckets, attempt' \in [Clients -> 0..(MaxRetries - 1)],
         Promised(bucket, net)'
  PROVE  LimiterInv'
<1>1. SlotOwners' = SlotOwners
  BY DEF SlotOwners, OwnerStates
<1>2. LimiterTypeOK'
  BY DEF LimiterInv, RegistryCounted, LimiterTypeOK
<1>3. RegistryCounted'
  BY <1>1, <1>2 DEF LimiterInv, RegistryCounted
<1>4. LineIsWaiting'
  BY DEF LimiterInv, LineIsWaiting
<1> QED
  BY <1>3, <1>4 DEF LimiterInv

\* The timer changes the state of just the clients it grants or denies, and none of them
\* gains or loses a slot.
LEMMA TimerOwners ==
  ASSUME LimiterInv, TimerFires
  PROVE  /\ bucket' \in Buckets /\ net' \in [Clients -> Doing]
         /\ UNCHANGED <<slots, slotLine, attempt>>
         /\ \A c \in Clients : /\ net[c] \in OwnerStates <=> net'[c] \in OwnerStates
                               /\ net[c] = "slot" <=> net'[c] = "slot"
         /\ Promised(bucket', net')
<1>1. PICK expired \in SUBSET Bounded, rate \in 1..Rate : Drain(expired, rate)
  BY DEF TimerFires
<1> DEFINE b == Refill(bucket, rate)
           S == {i \in DOMAIN b.waiters : b.waiters[i] \notin expired}
           kept == KeepAt(b.waiters, S)
           n == IF b.pause = "on" THEN 0 ELSE Smaller(b.tokens, Len(kept))
           granted == {kept[i] : i \in 1..n}
           rest == SubSeq(kept, n + 1, Len(kept))
           Of(c) == {w \in granted \cup expired : w.who = c /\ w.from # "gone"}
           Then(w) == IF w \in expired THEN OnDeny(w) ELSE OnGrant(w)
<1>2. /\ bucket' = [b EXCEPT !.tokens = @ - n, !.waiters = rest, !.timer = rest # <<>>]
      /\ net' = [c \in Clients |->
                   IF Of(c) = {} THEN net[c] ELSE Then(CHOOSE w \in Of(c) : TRUE)]
      /\ UNCHANGED <<slots, slotLine, attempt>>
  BY <1>1 DEF Drain, Settled, Kept
<1>3. bucket \in Buckets /\ net \in [Clients -> Doing] /\ Promised(bucket, net)
      /\ attempt \in [Clients -> 0..(MaxRetries - 1)]
  BY DEF LimiterInv, RegistryCounted, LimiterTypeOK
<1>4. b \in Buckets /\ b.waiters = bucket.waiters /\ Rate \in Nat
  BY <1>3, RefillFacts, LimiterAssumption
<1>5. b.waiters \in Seq(Waiters) /\ S \in SUBSET DOMAIN b.waiters /\ b.tokens \in 0..Rate
  BY <1>4 DEF Buckets
<1> DEFINE line == b.waiters
<1>51. line = b.waiters /\ line \in Seq(Waiters)
  BY <1>5
<1>52. \A i \in DOMAIN line : i \in S <=> line[i] \notin expired
  OBVIOUS
<1>6. /\ kept \in Seq(Waiters) /\ Len(kept) \in Nat
      /\ \A k \in DOMAIN kept : \E j \in S : Place(S, j) = k /\ kept[k] = line[j]
  <2> HIDE DEF b, S
  <2>1. kept \in Seq(Waiters)
    BY <1>5, KeepAtFacts
  <2>2. \A s \in Seq(Waiters) : Len(s) \in Nat
    OBVIOUS
  <2> QED
    BY <1>5, <2>1, <2>2, KeepAtFacts
<1> HIDE DEF b, S, kept
<1>7. n \in Nat /\ n <= b.tokens /\ n <= Len(kept)
  BY <1>5, <1>6 DEF Smaller
<1>8. /\ rest \in Seq(Waiters) /\ Len(rest) = Len(kept) - n
      /\ \A k \in 1..Len(rest) : rest[k] = kept[n + k] /\ n + k \in DOMAIN kept
  BY <1>6, <1>7
<1>9. b.tokens - n \in 0..Rate
  BY <1>5, <1>7, <1>4
<1>91. \A w : w \in granted <=> \E k \in 1..n : kept[k] = w
  OBVIOUS
<1> HIDE DEF n, rest, granted
<1>10. /\ bucket' \in Buckets /\ bucket'.waiters = rest
  BY <1>2, <1>4, <1>8, <1>9 DEF Buckets
\* Whoever is told something waits for it.
<1>11. ASSUME NEW c \in Clients, NEW w \in Of(c)
       PROVE  /\ net[c] = w.from /\ w.from \in Kinds
              /\ \E i \in DOMAIN line : line[i] = w
              /\ w \in expired => w.from # "token"
  <2>1. w \in granted \cup expired /\ w.who = c /\ w.from # "gone"
    OBVIOUS
  <2>2. ASSUME w \in expired PROVE w.from # "token" /\ \E i \in DOMAIN line : line[i] = w
    BY <2>2, <1>1, <1>4, <1>51 DEF Bounded, Range
  <2>3. ASSUME w \in granted PROVE \E i \in DOMAIN line : line[i] = w
    <3>1. PICK k \in 1..n : kept[k] = w
      BY <1>91, <2>3
    <3>2. k \in DOMAIN kept
      BY <1>6, <1>7
    <3>3. PICK j \in S : kept[k] = line[j]
      BY <1>6, <3>2
    <3> QED
      BY <1>5, <3>1, <3>3
  <2>4. PICK i \in DOMAIN line : line[i] = w
    BY <2>1, <2>2, <2>3
  <2>5. w \in Waiters
    BY <1>51, <2>4
  <2>6. net[c] = w.from
    BY <1>3, <1>4, <1>51, <2>1, <2>4 DEF Promised
  <2> QED
    BY <2>1, <2>2, <2>4, <2>5, <2>6 DEF Waiters, Kinds
<1>12. ASSUME NEW c \in Clients
       PROVE  /\ net'[c] \in Doing
              /\ Of(c) = {} => net'[c] = net[c]
              /\ net[c] \in OwnerStates <=> net'[c] \in OwnerStates
              /\ net[c] = "slot" <=> net'[c] = "slot"
  <2>1. CASE Of(c) = {}
    <3>1. net'[c] = net[c]
      BY <1>2, <2>1
    <3> QED
      BY <1>3, <2>1, <3>1
  <2>2. CASE Of(c) # {}
    <3>1. PICK w \in Of(c) : w = CHOOSE v \in Of(c) : TRUE
      BY <2>2
    <3>2. net'[c] = Then(w)
      BY <1>2, <2>2, <3>1
    <3>3. net[c] = w.from /\ w.from \in Kinds /\ (w \in expired => w.from # "token")
      BY <1>11
    <3> HIDE DEF Of
    <3> QED
      BY <2>2, <3>2, <3>3 DEF OnDeny, OnGrant, Kinds, OwnerStates, Doing
  <2> QED
    BY <2>1, <2>2
<1>13. net' \in [Clients -> Doing]
  <2>1. net' = [c \in Clients |-> net'[c]]
    BY <1>2
  <2> QED
    BY <1>12, <2>1
\* Whoever stays in the line was told nothing.
<1>14. ASSUME NEW k \in DOMAIN rest
       PROVE  \E j \in S : /\ rest[k] = line[j] /\ Place(S, j) = n + k
                           /\ rest[k].from # "gone" => Of(rest[k].who) = {}
  <2>1. n + k \in DOMAIN kept /\ rest[k] = kept[n + k] /\ k \in Nat /\ k >= 1
    BY <1>8
  <2>2. PICK j \in S : Place(S, j) = n + k /\ kept[n + k] = line[j]
    BY <1>6, <2>1
  <2>3. ASSUME rest[k].from # "gone", NEW w \in Of(rest[k].who) PROVE FALSE
    <3>1. w \in granted \cup expired /\ w.who = rest[k].who /\ w.from # "gone"
      OBVIOUS
    <3>2. CASE w \in expired
      <4>1. PICK i \in DOMAIN line : line[i] = w
        BY <3>2, <1>1, <1>4, <1>51 DEF Bounded, Range
      <4>2. i = j
        BY <1>3, <1>4, <1>5, <1>51, <2>1, <2>2, <2>3, <3>1, <4>1 DEF Promised
      <4> QED
        BY <1>5, <1>52, <3>2, <4>1, <4>2
    <3>3. CASE w \in granted
      <4>1. PICK l \in 1..n : kept[l] = w
        BY <1>91, <3>3
      <4>2. l \in DOMAIN kept
        BY <1>6, <1>7
      <4>3. PICK i \in S : Place(S, i) = l /\ kept[l] = line[i]
        BY <1>6, <4>2
      <4>4. i = j
        BY <1>3, <1>4, <1>5, <1>51, <2>1, <2>2, <2>3, <3>1, <4>1, <4>3 DEF Promised
      <4> QED
        BY <1>7, <2>1, <2>2, <4>1, <4>3, <4>4
    <3> QED
      BY <3>1, <3>2, <3>3
  <2>4. rest[k].from # "gone" => Of(rest[k].who) = {}
    <3> HIDE DEF Of
    <3> QED
      BY <2>3
  <2> QED
    BY <2>1, <2>2, <2>4
<1>15. Promised(bucket', net')
  <2>1. ASSUME NEW k \in DOMAIN rest, rest[k].from # "gone"
        PROVE  net'[rest[k].who] = rest[k].from
    <3>1. PICK j \in S : rest[k] = line[j] /\ Of(rest[k].who) = {}
      BY <1>14, <2>1
    <3>2. line[j] \in Waiters /\ net[line[j].who] = line[j].from
      BY <1>3, <1>4, <1>5, <1>51, <2>1, <3>1 DEF Promised
    <3>3. line[j].who \in Clients
      BY <3>2 DEF Waiters
    <3> HIDE DEF Of
    <3> QED
      BY <1>12, <3>1, <3>2, <3>3
  <2>2. ASSUME NEW k \in DOMAIN rest, NEW l \in DOMAIN rest,
               rest[k].from # "gone", rest[l].from # "gone", rest[k].who = rest[l].who
        PROVE  k = l
    <3>1. PICK j \in S : rest[k] = line[j] /\ Place(S, j) = n + k
      BY <1>14
    <3>2. PICK i \in S : rest[l] = line[i] /\ Place(S, i) = n + l
      BY <1>14
    <3>3. i = j
      BY <1>3, <1>4, <1>5, <1>51, <2>2, <3>1, <3>2 DEF Promised
    <3>4. k \in Nat /\ l \in Nat
      BY <1>8
    <3> QED
      BY <1>7, <3>1, <3>2, <3>3, <3>4
  <2> QED
    BY <1>10, <2>1, <2>2 DEF Promised
<1> HIDE DEF Of
<1> QED
  BY <1>2, <1>10, <1>12, <1>13, <1>15

\* _drainRateWaiters
LEMMA LimiterTimer ==
  ASSUME LimiterInv, TimerFires
  PROVE  LimiterInv'
<1>1. Promised(bucket, net)'
  BY TimerOwners
<1>2. attempt' \in [Clients -> 0..(MaxRetries - 1)]
  BY TimerOwners DEF LimiterInv, RegistryCounted, LimiterTypeOK
<1> QED
  BY <1>1, <1>2, TimerOwners, OwnersKept

\* The counter, when a client gets a slot, gives it back, or hands it to another.
LEMMA OwnersCount ==
  ASSUME NEW S, IsFiniteSet(S)
  PROVE  /\ Cardinality(S) \in Nat
         /\ \A c : c \notin S => Cardinality(S \cup {c}) = Cardinality(S) + 1
         /\ \A c \in S : Cardinality(S \ {c}) = Cardinality(S) - 1 /\ Cardinality(S) # 0
         /\ \A c \in S : \A d : d \notin S => Cardinality((S \ {c}) \cup {d}) = Cardinality(S)
<1>1. Cardinality(S) \in Nat
  BY FS_CardinalityType
<1>2. \A c : c \notin S => Cardinality(S \cup {c}) = Cardinality(S) + 1
  BY FS_AddElement
<1>3. ASSUME NEW c \in S PROVE Cardinality(S \ {c}) = Cardinality(S) - 1 /\ IsFiniteSet(S \ {c})
  BY FS_RemoveElement
<1>4. ASSUME NEW c \in S PROVE Cardinality(S) # 0
  BY FS_EmptySet
<1>5. ASSUME NEW c \in S, NEW d, d \notin S
      PROVE  Cardinality((S \ {c}) \cup {d}) = Cardinality(S)
  <2>1. Cardinality((S \ {c}) \cup {d}) = Cardinality(S \ {c}) + 1
    BY <1>3, <1>5, FS_AddElement
  <2> QED
    BY <1>1, <1>3, <2>1
<1> QED
  BY <1>1, <1>2, <1>3, <1>4, <1>5

\* acquireRegistrySlot
LEMMA LimiterAcquires ==
  ASSUME LimiterInv, NEW c \in Clients, AcquireSlot(c)
  PROVE  LimiterInv'
<1> USE DEF LimiterInv, RegistryCounted
<1>1. /\ net[c] = "idle" /\ net \in [Clients -> Doing] /\ bucket \in Buckets
      /\ attempt' = attempt /\ Promised(bucket, net) /\ slotLine \in Seq(Clients)
      /\ slots \in 0..SlotMax /\ SlotMax \in Nat
  BY LimiterAssumption DEF AcquireSlot, LimiterTypeOK
<1>2. IsFiniteSet(SlotOwners) /\ c \notin SlotOwners
  BY <1>1, OwnersFinite DEF SlotOwners
<1>3. CASE slots < SlotMax
  <2>1. PICK rate \in 1..Rate : /\ bucket' = TakeToken(bucket, c, rate)
                                /\ net' = [net EXCEPT ![c] = AfterTake(bucket, rate)]
    BY <1>1, <1>3 DEF AcquireSlot
  <2> DEFINE b == Refill(bucket, rate)
  <2>2. b \in Buckets /\ Promised(b, net)
    BY <1>1, RefillFacts DEF Promised
  <2>3. /\ bucket' = Take(b, c, "token")
        /\ net' = [net EXCEPT ![c] = IF Grants(b) THEN "use" ELSE "token"]
    BY <2>1 DEF TakeToken, AfterTake
  <2> HIDE DEF b
  <2>4. bucket' \in Buckets /\ Promised(bucket', net')
    BY <1>1, <2>2, <2>3, TakeFacts DEF Kinds
  <2>5. net' \in [Clients -> Doing] /\ net'[c] \in {"use", "token"}
        /\ \A d \in Clients \ {c} : net'[d] = net[d]
    BY <1>1, <2>3 DEF Doing
  <2>6. SlotOwners' = SlotOwners \cup {c}
    BY <2>5 DEF SlotOwners
  <2>7. Cardinality(SlotOwners)' = Cardinality(SlotOwners) + 1
    BY <1>2, <2>6, OwnersCount
  <2>8. slots' = slots + 1 /\ slotLine' = slotLine /\ slotLine = <<>>
    BY <1>1, <1>3 DEF AcquireSlot
  <2>9. slots' \in 0..SlotMax /\ slots' = Cardinality(SlotOwners')
    BY <1>1, <1>3, <2>7, <2>8
  <2>10. LineIsWaiting'
    BY <1>1, <2>5, <2>8 DEF LineIsWaiting
  <2> QED
    BY <1>1, <2>4, <2>5, <2>8, <2>9, <2>10 DEF LimiterTypeOK, Promised
<1>4. CASE slots = SlotMax
  <2>1. /\ net' = [net EXCEPT ![c] = "slot"] /\ slotLine' = Append(slotLine, c)
        /\ UNCHANGED <<slots, bucket, attempt>>
    BY <1>1, <1>4 DEF AcquireSlot
  <2>2. Promised(bucket, net')
    BY <1>1, <2>1, PromisedElsewhere DEF Kinds
  <2>3. net' \in [Clients -> Doing] /\ net'[c] = "slot"
        /\ \A d \in Clients \ {c} : net'[d] = net[d]
    BY <1>1, <2>1 DEF Doing
  <2>4. SlotOwners' = SlotOwners
    BY <1>1, <2>3 DEF SlotOwners
  <2>5. /\ slotLine' \in Seq(Clients) /\ DOMAIN slotLine' = 1..(Len(slotLine) + 1)
        /\ DOMAIN slotLine = 1..Len(slotLine) /\ Len(slotLine) \in Nat
        /\ \A i \in DOMAIN slotLine : slotLine'[i] = slotLine[i] /\ slotLine[i] \in Clients
        /\ slotLine'[Len(slotLine) + 1] = c
    BY <1>1, <2>1
  <2>6. \A i \in DOMAIN slotLine : slotLine[i] # c
    BY <1>1, <2>5 DEF LineIsWaiting
  <2>7. LineIsWaiting'
    <3>1. ASSUME NEW d \in Clients
          PROVE  net'[d] = "slot" <=> \E i \in DOMAIN slotLine' : slotLine'[i] = d
      <4>1. CASE d = c
        BY <2>3, <2>5, <4>1
      <4>2. CASE d # c
        <5>1. net'[d] = "slot" <=> \E i \in DOMAIN slotLine : slotLine[i] = d
          BY <2>3, <4>2 DEF LineIsWaiting
        <5>2. \A i \in DOMAIN slotLine' : i \in DOMAIN slotLine \/ slotLine'[i] = c
          BY <2>5
        <5>3. \A i \in DOMAIN slotLine : i \in DOMAIN slotLine'
          BY <2>5
        <5> QED
          BY <2>5, <4>2, <5>1, <5>2, <5>3
      <4> QED
        BY <4>1, <4>2
    <3>2. ASSUME NEW i \in DOMAIN slotLine', NEW j \in DOMAIN slotLine',
                 slotLine'[i] = slotLine'[j]
          PROVE  i = j
      <4>1. \A k \in DOMAIN slotLine' : k \in DOMAIN slotLine \/ k = Len(slotLine) + 1
        BY <2>5
      <4>2. \A k, l \in DOMAIN slotLine : slotLine[k] = slotLine[l] => k = l
        BY DEF LineIsWaiting
      <4> QED
        BY <2>5, <2>6, <3>2, <4>1, <4>2
    <3> QED
      BY <3>1, <3>2 DEF LineIsWaiting
  <2>8. LimiterTypeOK'
    BY <1>1, <2>1, <2>3, <2>5 DEF LimiterTypeOK
  <2>9. Promised(bucket, net)'
    BY <2>1, <2>2
  <2>10. slots' = Cardinality(SlotOwners)' /\ slots' = SlotMax
    BY <1>4, <2>1, <2>4
  <2> QED
    BY <2>7, <2>8, <2>9, <2>10
<1>5. slots < SlotMax \/ slots = SlotMax
  BY <1>1
<1> QED
  BY <1>3, <1>4, <1>5

\* releaseRegistrySlot
LEMMA LimiterReleases ==
  ASSUME LimiterInv, NEW c \in Clients, net[c] \in {"use", "denied"},
         NEW b \in Buckets, b.waiters = bucket.waiters, ReleaseSlot(c, b)
  PROVE  LimiterInv'
<1> USE DEF LimiterInv, RegistryCounted
<1>1. /\ net \in [Clients -> Doing]
      /\ Promised(b, net) /\ slotLine \in Seq(Clients)
      /\ slots \in 0..SlotMax /\ SlotMax \in Nat
  BY LimiterAssumption DEF LimiterTypeOK, Promised
<1>2. IsFiniteSet(SlotOwners) /\ c \in SlotOwners
  BY OwnersFinite DEF SlotOwners
<1>3. attempt' \in [Clients -> 0..(MaxRetries - 1)]
  <2>1. 0 \in 0..(MaxRetries - 1)
    BY LimiterAssumption
  <2> QED
    BY <2>1 DEF ReleaseSlot, LimiterTypeOK
<1> DEFINE n == [net EXCEPT ![c] = "idle"]
<1>4. /\ n \in [Clients -> Doing] /\ n[c] = "idle" /\ \A d \in Clients \ {c} : n[d] = net[d]
      /\ Promised(b, n)
  BY <1>1, PromisedElsewhere DEF Doing, Kinds
<1>5. CASE slotLine = <<>>
  <2>1. slots' = slots - 1 /\ net' = n /\ bucket' = b /\ slotLine' = slotLine
    BY <1>5 DEF ReleaseSlot
  <2> HIDE DEF n
  <2>2. SlotOwners' = SlotOwners \ {c}
    BY <1>4, <2>1 DEF SlotOwners
  <2>3. slots' \in 0..SlotMax /\ slots' = Cardinality(SlotOwners')
    BY <1>1, <1>2, <2>1, <2>2, OwnersCount
  <2>4. LineIsWaiting'
    BY <1>4, <2>1 DEF LineIsWaiting
  <2> QED
    BY <1>1, <1>3, <1>4, <1>5, <2>1, <2>3, <2>4 DEF LimiterTypeOK, Promised
<1>6. CASE slotLine # <<>>
  <2> DEFINE h == Head(slotLine)
  <2>1. PICK rate \in 1..Rate :
          /\ bucket' = TakeToken(b, h, rate)
          /\ net' = [net EXCEPT ![c] = "idle", ![h] = AfterTake(b, rate)]
    BY <1>6 DEF ReleaseSlot
  <2>2. slotLine' = Tail(slotLine) /\ slots' = slots
    BY <1>6 DEF ReleaseSlot
  <2>3. /\ h = slotLine[1] /\ 1 \in DOMAIN slotLine /\ h \in Clients
        /\ DOMAIN slotLine = 1..Len(slotLine) /\ Len(slotLine) \in Nat
        /\ slotLine' \in Seq(Clients) /\ DOMAIN slotLine' = 1..(Len(slotLine) - 1)
        /\ \A i \in DOMAIN slotLine' : i + 1 \in DOMAIN slotLine /\ slotLine'[i] = slotLine[i + 1]
    BY <1>1, <1>6, <2>2
  <2> HIDE DEF h
  <2>4. net[h] = "slot" /\ h # c /\ h \notin SlotOwners
    BY <2>3 DEF LineIsWaiting, SlotOwners
  <2> DEFINE r == Refill(b, rate)
  <2>5. r \in Buckets /\ Promised(r, n)
    BY <1>4, RefillFacts DEF Promised
  <2>6. /\ bucket' = Take(r, h, "token")
        /\ net' = [n EXCEPT ![h] = IF Grants(r) THEN "use" ELSE "token"]
    <3>1. /\ bucket' = Take(r, h, "token")
          /\ net' = [net EXCEPT ![c] = "idle", ![h] = IF Grants(r) THEN "use" ELSE "token"]
      BY <2>1 DEF TakeToken, AfterTake
    <3> HIDE DEF r
    <3> QED
      BY <3>1
  <2> HIDE DEF r, n
  <2>7. bucket' \in Buckets /\ Promised(bucket', net')
    <3>1. n[h] \notin Kinds
      BY <1>4, <2>3, <2>4 DEF Kinds
    <3> QED
      BY <1>4, <2>3, <2>5, <2>6, <3>1, TakeFacts DEF Kinds
  <2>8. /\ net' \in [Clients -> Doing] /\ net'[h] \in {"use", "token"} /\ net'[c] = "idle"
        /\ \A d \in Clients \ {c, h} : net'[d] = net[d]
    BY <1>4, <2>3, <2>4, <2>6 DEF Doing
  <2>9. SlotOwners' = (SlotOwners \ {c}) \cup {h}
    BY <2>3, <2>4, <2>8 DEF SlotOwners
  <2>10. Cardinality(SlotOwners') = Cardinality(SlotOwners)
    BY <1>2, <2>4, <2>9, OwnersCount
  <2>11. LineIsWaiting'
    <3>1. \A k, l \in DOMAIN slotLine : slotLine[k] = slotLine[l] => k = l
      BY DEF LineIsWaiting
    <3>2. ASSUME NEW d \in Clients
          PROVE  net'[d] = "slot" <=> \E i \in DOMAIN slotLine' : slotLine'[i] = d
      <4>1. CASE d \in {c, h}
        <5>1. net'[d] # "slot"
          BY <2>8, <4>1
        <5>2. ASSUME NEW i \in DOMAIN slotLine', slotLine'[i] = d PROVE FALSE
          <6>1. i + 1 \in DOMAIN slotLine /\ slotLine[i + 1] = d /\ i + 1 # 1
            BY <2>3, <5>2
          <6>2. d = c
            BY <2>3, <3>1, <4>1, <6>1
          <6> QED
            BY <6>1, <6>2 DEF LineIsWaiting
        <5> QED
          BY <5>1, <5>2
      <4>2. CASE d \notin {c, h}
        <5>1. net'[d] = "slot" <=> \E i \in DOMAIN slotLine : slotLine[i] = d
          BY <2>8, <4>2 DEF LineIsWaiting
        <5>2. ASSUME NEW i \in DOMAIN slotLine, slotLine[i] = d
              PROVE  \E k \in DOMAIN slotLine' : slotLine'[k] = d
          <6>1. i # 1
            BY <2>3, <4>2, <5>2
          <6>2. i - 1 \in DOMAIN slotLine' /\ (i - 1) + 1 = i
            BY <2>3, <6>1
          <6>3. slotLine'[i - 1] = d
            BY <2>3, <5>2, <6>2
          <6> QED
            BY <6>2, <6>3
        <5> QED
          BY <2>3, <5>1, <5>2
      <4> QED
        BY <4>1, <4>2
    <3>3. ASSUME NEW i \in DOMAIN slotLine', NEW j \in DOMAIN slotLine',
                 slotLine'[i] = slotLine'[j]
          PROVE  i = j
      BY <2>3, <3>1, <3>3
    <3> QED
      BY <3>2, <3>3 DEF LineIsWaiting
  <2>12. slotLine' # <<>> => slots' = SlotMax
    BY <1>6, <2>2
  <2> QED
    BY <1>1, <1>3, <2>2, <2>3, <2>7, <2>8, <2>10, <2>11, <2>12 DEF LimiterTypeOK, Promised
<1> QED
  BY <1>5, <1>6

\* The steps of one client that leave the slots alone.
LEMMA LimiterAsks ==
  ASSUME LimiterInv, NEW c \in Clients, NEW from \in {"retry", "asks"}, NEW sends,
         IF from = "retry" THEN net[c] = "sleep" /\ sends = "use"
                           ELSE net[c] = "idle" /\ sends = "wire",
         NEW rate \in 1..Rate, bucket' = Take(Refill(bucket, rate), c, from),
         net' = [net EXCEPT ![c] = IF Grants(Refill(bucket, rate)) THEN sends ELSE from],
         UNCHANGED <<slots, slotLine, attempt>>
  PROVE  LimiterInv'
<1> DEFINE b == Refill(bucket, rate)
<1>1. /\ bucket \in Buckets /\ net \in [Clients -> Doing] /\ Promised(bucket, net)
      /\ attempt \in [Clients -> 0..(MaxRetries - 1)]
  BY DEF LimiterInv, RegistryCounted, LimiterTypeOK
<1>2. b \in Buckets /\ Promised(b, net)
  BY <1>1, RefillFacts DEF Promised
<1>3. bucket' = Take(b, c, from) /\ net' = [net EXCEPT ![c] = IF Grants(b) THEN sends ELSE from]
  OBVIOUS
<1> HIDE DEF b
<1>4. bucket' \in Buckets /\ Promised(bucket', net')
  <2>1. from \in Kinds /\ net[c] \notin Kinds
    BY DEF Kinds
  <2>2. /\ Take(b, c, from) \in Buckets
        /\ Promised(Take(b, c, from), [net EXCEPT ![c] = IF Grants(b) THEN sends ELSE from])
    BY ONLY <1>1, <1>2, <2>1, c \in Clients, TakeFacts
  <2> QED
    BY ONLY <1>3, <2>2
<1>5. /\ net' \in [Clients -> Doing] /\ net'[c] \in {sends, from}
      /\ \A d \in Clients \ {c} : net'[d] = net[d]
  BY <1>1, <1>3 DEF Doing
<1>6. \A d \in Clients : /\ net[d] \in OwnerStates <=> net'[d] \in OwnerStates
                         /\ net[d] = "slot" <=> net'[d] = "slot"
  BY <1>5 DEF OwnerStates
<1>7. Promised(bucket, net)'
  BY <1>4
<1> QED
  BY <1>1, <1>4, <1>5, <1>6, <1>7, OwnersKept

\* A failed attempt keeps its slot, a worker's answer never had one.
LEMMA LimiterFails ==
  ASSUME LimiterInv, NEW c \in Clients, NEW limited \in BOOLEAN,
         AttemptFails(c, limited) \/ WorkerAnswered(c, limited)
  PROVE  LimiterInv'
<1>1. /\ bucket \in Buckets /\ net \in [Clients -> Doing] /\ Promised(bucket, net)
      /\ attempt \in [Clients -> 0..(MaxRetries - 1)]
  BY DEF LimiterInv, RegistryCounted, LimiterTypeOK
<1>2. bucket' \in Buckets /\ bucket'.waiters = bucket.waiters /\ UNCHANGED <<slots, slotLine>>
  BY <1>1, LimitedFacts DEF AttemptFails, WorkerAnswered
<1>3. attempt' \in [Clients -> 0..(MaxRetries - 1)]
  <2>1. CASE AttemptFails(c, limited)
    <3>1. attempt[c] + 1 \in 0..(MaxRetries - 1)
      BY <1>1, <2>1, LimiterAssumption DEF AttemptFails
    <3> QED
      BY <1>1, <2>1, <3>1 DEF AttemptFails
  <2>2. CASE WorkerAnswered(c, limited)
    BY <1>1, <2>2 DEF WorkerAnswered
  <2> QED
    BY <2>1, <2>2
<1>4. PICK x \in {"sleep", "idle"} : /\ net' = [net EXCEPT ![c] = x]
                                     /\ net[c] = IF x = "sleep" THEN "use" ELSE "wire"
  BY DEF AttemptFails, WorkerAnswered
<1>5. Promised(bucket', net')
  <2>1. Promised(bucket, net')
    BY <1>1, <1>4, PromisedElsewhere DEF Kinds
  <2> QED
    BY <1>2, <2>1 DEF Promised
<1>6. /\ net' \in [Clients -> Doing]
      /\ \A d \in Clients : /\ net[d] \in OwnerStates <=> net'[d] \in OwnerStates
                            /\ net[d] = "slot" <=> net'[d] = "slot"
  BY <1>1, <1>4 DEF OwnerStates, Doing
<1>7. Promised(bucket, net)'
  BY <1>5
<1> QED
  BY <1>2, <1>3, <1>6, <1>7, OwnersKept

\* A worker that leaves has no promise left in the line.
LEMMA LimiterLeaves ==
  ASSUME LimiterInv, NEW c \in Clients, WorkerLeaves(c)
  PROVE  LimiterInv'
<1> DEFINE Gone == [who |-> c, from |-> "gone"]
           line == bucket.waiters
           left == [i \in DOMAIN line |->
                      IF line[i] = [who |-> c, from |-> "asks"] THEN Gone ELSE line[i]]
<1>1. /\ bucket \in Buckets /\ net \in [Clients -> Doing] /\ Promised(bucket, net)
      /\ attempt \in [Clients -> 0..(MaxRetries - 1)]
  BY DEF LimiterInv, RegistryCounted, LimiterTypeOK
<1>2. /\ bucket' = [bucket EXCEPT !.waiters = left] /\ net' = [net EXCEPT ![c] = "idle"]
      /\ net[c] \in {"asks", "wire"} /\ UNCHANGED <<slots, slotLine, attempt>>
  BY DEF WorkerLeaves, Abandoned
<1>3. line \in Seq(Waiters) /\ Gone \in Waiters
  BY <1>1 DEF Buckets, Waiters
<1>4. left \in Seq(Waiters) /\ DOMAIN left = DOMAIN line
  BY <1>3
<1>5. \A i \in DOMAIN line : left[i].from # "gone" => left[i] = line[i] /\ line[i].who # c
  <2>1. SUFFICES ASSUME NEW i \in DOMAIN line, left[i].from # "gone"
                 PROVE  left[i] = line[i] /\ line[i].who # c
    OBVIOUS
  <2>2. left[i] = line[i] /\ line[i] # [who |-> c, from |-> "asks"]
    BY <2>1
  <2>3. line[i] \in Waiters /\ net[line[i].who] = line[i].from
    BY <1>1, <1>3, <2>1, <2>2 DEF Promised
  <2>4. ASSUME line[i].who = c PROVE FALSE
    <3>1. line[i].from = "asks"
      BY <1>2, <2>1, <2>2, <2>3, <2>4 DEF Waiters
    <3>2. line[i] = [who |-> c, from |-> "asks"]
      BY <2>3, <2>4, <3>1 DEF Waiters
    <3> QED
      BY <2>2, <3>2
  <2> QED
    BY <2>2, <2>4
<1>6. bucket' \in Buckets /\ bucket'.waiters = left
  <2> HIDE DEF left
  <2> QED
    BY <1>1, <1>2, <1>4 DEF Buckets
<1>7. /\ net' \in [Clients -> Doing] /\ \A d \in Clients \ {c} : net'[d] = net[d]
      /\ \A d \in Clients : /\ net[d] \in OwnerStates <=> net'[d] \in OwnerStates
                            /\ net[d] = "slot" <=> net'[d] = "slot"
  BY <1>1, <1>2 DEF OwnerStates, Doing
<1>8. \A i \in DOMAIN line : line[i].who \in Clients
  <2> HIDE DEF left, line
  <2>1. \A i \in DOMAIN line : line[i] \in Waiters
    BY <1>3
  <2> QED
    BY <2>1 DEF Waiters
<1> HIDE DEF left
<1>9. Promised(bucket', net')
  <2>1. ASSUME NEW i \in DOMAIN left, left[i].from # "gone" PROVE net'[left[i].who] = left[i].from
    BY <1>1, <1>4, <1>5, <1>7, <1>8, <2>1 DEF Promised
  <2>2. ASSUME NEW i \in DOMAIN left, NEW j \in DOMAIN left, left[i].from # "gone",
               left[j].from # "gone", left[i].who = left[j].who
        PROVE  i = j
    BY <1>1, <1>4, <1>5, <2>2 DEF Promised
  <2> QED
    BY <1>6, <2>1, <2>2 DEF Promised
<1>10. Promised(bucket, net)'
  BY <1>9
<1> QED
  BY <1>1, <1>2, <1>6, <1>7, <1>10, OwnersKept

\* One step per operation.
LEMMA LimiterStep ==
  ASSUME LimiterInv, [LimiterNext]_limiterVars
  PROVE  LimiterInv'
<1>1. bucket \in Buckets /\ net \in [Clients -> Doing] /\ Promised(bucket, net)
  BY DEF LimiterInv, RegistryCounted, LimiterTypeOK
<1>2. CASE TimerFires
  BY <1>2, LimiterTimer
<1>3. CASE PauseEnds \/ SecondPasses
  <2>1. /\ bucket' \in Buckets /\ bucket'.waiters = bucket.waiters
        /\ UNCHANGED <<slots, slotLine, net, attempt>>
    BY <1>1, <1>3 DEF PauseEnds, SecondPasses, Buckets
  <2>2. Promised(bucket, net)'
    BY <1>1, <2>1 DEF Promised
  <2>3. net' = net /\ attempt' \in [Clients -> 0..(MaxRetries - 1)]
    BY <2>1 DEF LimiterInv, RegistryCounted, LimiterTypeOK
  <2> QED
    BY <1>1, <2>1, <2>2, <2>3, OwnersKept
<1>4. ASSUME NEW c \in Clients, AcquireSlot(c) PROVE LimiterInv'
  BY <1>4, LimiterAcquires
<1>5. ASSUME NEW c \in Clients, Answer(c) \/ Answer429(c) \/ GiveUp(c) PROVE LimiterInv'
  <2>1. Limited(bucket) \in Buckets /\ Limited(bucket).waiters = bucket.waiters
    BY <1>1, LimitedFacts
  <2> QED
    BY <1>1, <1>5, <2>1, LimiterReleases DEF Answer, Answer429, GiveUp
<1>6. ASSUME NEW c \in Clients, Retry(c) PROVE LimiterInv'
  <2>1. PICK rate \in 1..Rate :
          /\ bucket' = Take(Refill(bucket, rate), c, "retry")
          /\ net' = [net EXCEPT ![c] = IF Grants(Refill(bucket, rate)) THEN "use" ELSE "retry"]
    BY <1>6 DEF Retry
  <2> QED
    BY <1>6, <2>1, LimiterAsks DEF Retry
<1>7. ASSUME NEW c \in Clients, WorkerAsks(c) PROVE LimiterInv'
  <2>1. PICK rate \in 1..Rate :
          /\ bucket' = Take(Refill(bucket, rate), c, "asks")
          /\ net' = [net EXCEPT ![c] = IF Grants(Refill(bucket, rate)) THEN "wire" ELSE "asks"]
    BY <1>7 DEF WorkerAsks
  <2> QED
    BY <1>7, <2>1, LimiterAsks DEF WorkerAsks
<1>8. ASSUME NEW c \in Clients, NEW limited \in BOOLEAN,
             AttemptFails(c, limited) \/ WorkerAnswered(c, limited)
      PROVE  LimiterInv'
  BY <1>8, LimiterFails
<1>9. ASSUME NEW c \in Clients, WorkerLeaves(c) PROVE LimiterInv'
  BY <1>9, LimiterLeaves
<1>10. CASE UNCHANGED limiterVars
  BY <1>10 DEF limiterVars, LimiterInv, RegistryCounted, LimiterTypeOK, SlotOwners,
               LineIsWaiting, Promised
<1> QED
  BY <1>2, <1>3, <1>4, <1>5, <1>6, <1>7, <1>8, <1>9, <1>10 DEF LimiterNext

-----------------------------------------------------------------------------
(* Registry limiter: the grant timer *)

\* Whatever touches the bucket leaves a timer for whom it leaves in the line.
LEMMA BucketArmed ==
  ASSUME NEW b \in Buckets, b.waiters # <<>> => b.timer
  PROVE  /\ Limited(b).waiters # <<>> => Limited(b).timer
         /\ \A c, from : LET t == Take(b, c, from) IN t.waiters # <<>> => t.timer
         /\ \A rate : LET r == Refill(b, rate) IN r.waiters # <<>> => r.timer
<1>1. Limited(b).waiters # <<>> => Limited(b).timer
  BY DEF Limited, Buckets
<1>2. ASSUME NEW c, NEW from
      PROVE  Take(b, c, from).waiters # <<>> => Take(b, c, from).timer
  <2>1. CASE Grants(b)
    BY <2>1 DEF Take, Buckets
  <2>2. CASE ~Grants(b)
    BY <2>2 DEF Take, Buckets
  <2> QED
    BY <2>1, <2>2
<1>3. ASSUME NEW rate PROVE Refill(b, rate).waiters # <<>> => Refill(b, rate).timer
  BY DEF Refill, Buckets
<1> QED
  BY <1>1, <1>2, <1>3

\* The timer is armed again while anybody stays in the line.
LEMMA ArmedStep ==
  ASSUME LimiterInv, TimerArmed, [LimiterNext]_limiterVars
  PROVE  TimerArmed'
<1>1. bucket \in Buckets /\ (bucket.waiters # <<>> => bucket.timer)
  BY DEF LimiterInv, RegistryCounted, LimiterTypeOK, TimerArmed
<1>2. Limited(bucket) \in Buckets /\ (Limited(bucket).waiters # <<>> => Limited(bucket).timer)
  BY <1>1, LimitedFacts, BucketArmed
<1>3. ASSUME NEW b \in Buckets, b.waiters # <<>> => b.timer,
             NEW c, NEW from, NEW rate \in 1..Rate, bucket' = Take(Refill(b, rate), c, from)
      PROVE  TimerArmed'
  <2>1. Refill(b, rate) \in Buckets
    BY RefillFacts
  <2>2. Refill(b, rate).waiters # <<>> => Refill(b, rate).timer
    BY <1>3, BucketArmed
  <2> QED
    BY <1>3, <2>1, <2>2, BucketArmed DEF TimerArmed
<1>4. ASSUME NEW b \in Buckets, b.waiters # <<>> => b.timer, NEW c, ReleaseSlot(c, b)
      PROVE  TimerArmed'
  BY <1>3, <1>4 DEF ReleaseSlot, TakeToken, TimerArmed
<1>5. CASE TimerFires
  <2>1. PICK expired \in SUBSET Bounded, rate \in 1..Rate : Drain(expired, rate)
    BY <1>5 DEF TimerFires
  <2> DEFINE b == Refill(bucket, rate)
             kept == Kept(b, expired)
             n == IF b.pause = "on" THEN 0 ELSE Smaller(b.tokens, Len(kept))
             rest == SubSeq(kept, n + 1, Len(kept))
  <2>2. b \in Buckets
    BY <1>1, RefillFacts
  <2>3. bucket' = [b EXCEPT !.tokens = @ - n, !.waiters = rest, !.timer = rest # <<>>]
    BY <2>1 DEF Drain, Settled
  <2> HIDE DEF b, n, rest
  <2> QED
    BY <2>2, <2>3 DEF TimerArmed, Buckets
<1>6. CASE PauseEnds \/ SecondPasses
  BY <1>1, <1>6 DEF PauseEnds, SecondPasses, TimerArmed, Buckets
<1>7. ASSUME NEW c \in Clients, Answer(c) \/ Answer429(c) \/ GiveUp(c) PROVE TimerArmed'
  BY <1>1, <1>2, <1>4, <1>7 DEF Answer, Answer429, GiveUp
<1>8. ASSUME NEW c \in Clients, AcquireSlot(c) PROVE TimerArmed'
  BY <1>1, <1>3, <1>8 DEF AcquireSlot, TakeToken, TimerArmed
<1>9. ASSUME NEW c \in Clients, Retry(c) \/ WorkerAsks(c) PROVE TimerArmed'
  BY <1>1, <1>3, <1>9 DEF Retry, WorkerAsks
<1>10. ASSUME NEW c \in Clients, NEW limited \in BOOLEAN,
              AttemptFails(c, limited) \/ WorkerAnswered(c, limited)
       PROVE  TimerArmed'
  BY <1>1, <1>2, <1>10 DEF AttemptFails, WorkerAnswered, TimerArmed
<1>11. ASSUME NEW c \in Clients, WorkerLeaves(c) PROVE TimerArmed'
  <2> DEFINE line == [i \in DOMAIN bucket.waiters |->
                        IF bucket.waiters[i] = [who |-> c, from |-> "asks"]
                        THEN [who |-> c, from |-> "gone"] ELSE bucket.waiters[i]]
  <2>1. bucket' = [bucket EXCEPT !.waiters = line]
    BY <1>11 DEF WorkerLeaves, Abandoned
  <2>2. bucket.waiters = <<>> => line = <<>>
    OBVIOUS
  <2> HIDE DEF line
  <2>3. bucket'.timer = bucket.timer /\ bucket'.waiters = line
    BY <1>1, <2>1 DEF Buckets
  <2> QED
    BY <1>1, <2>2, <2>3 DEF TimerArmed
<1>12. CASE UNCHANGED limiterVars
  BY <1>1, <1>12 DEF limiterVars, TimerArmed
<1> QED
  BY <1>5, <1>6, <1>7, <1>8, <1>9, <1>10, <1>11, <1>12 DEF LimiterNext

\* Through every handover, retry, pause, denial and worker that leaves, the semaphore's
\* counter is the number of requests that own a slot, and who waits for one waits while
\* all are taken; a timer will look at whoever waits for a token; tokens and attempts keep
\* to their limits.
THEOREM RegistryKept == LimiterSpec => []RegistryAccounted
<1>1. LimiterInit => TimerArmed
  BY DEF LimiterInit, TimerArmed
<1>2. LimiterInv /\ TimerArmed => RegistryAccounted
  BY DEF LimiterInv, RegistryAccounted
<1> QED
  BY <1>1, <1>2, LimiterStarts, LimiterStep, ArmedStep, PTL DEF LimiterSpec

-----------------------------------------------------------------------------
(* Registry limiter: one probe after a pause *)

\* A set whose members are all the same has at most one.
LEMMA OneSender ==
  ASSUME NEW S, (\E x : \A y \in S : y = x)
  PROVE  Cardinality(S) <= 1
<1>1. PICK x : \A y \in S : y = x
  OBVIOUS
<1>2. S = {} \/ S = {x}
  BY <1>1
<1>3. CASE S = {}
  BY <1>3, FS_EmptySet
<1>4. CASE S = {x}
  <2>1. Cardinality({x}) = 1
    BY FS_Singleton
  <2> QED
    BY <1>4, <2>1
<1> QED
  BY <1>2, <1>3, <1>4

\* A step of one client lets it, or the one it hands its slot to, send.
LEMMA ClientsProbe ==
  ASSUME LimiterInv, NEW c \in Clients,
         \/ AcquireSlot(c) \/ Answer(c) \/ Answer429(c) \/ Retry(c) \/ GiveUp(c)
         \/ \E limited \in BOOLEAN : AttemptFails(c, limited) \/ WorkerAnswered(c, limited)
         \/ WorkerAsks(c) \/ WorkerLeaves(c)
  PROVE  \E x : \A y \in Sending' \ Sending : y = x
<1>1. net \in [Clients -> Doing]
  BY DEF LimiterInv, RegistryCounted, LimiterTypeOK
<1>2. CASE Answer(c) \/ Answer429(c) \/ GiveUp(c)
  <2>1. \E h, v : net' = [net EXCEPT ![c] = "idle", ![h] = v] \/ net' = [net EXCEPT ![c] = "idle"]
    BY <1>2 DEF Answer, Answer429, GiveUp, ReleaseSlot
  <2>2. PICK h : \E v : \/ net' = [net EXCEPT ![c] = "idle", ![h] = v]
                        \/ net' = [net EXCEPT ![c] = "idle"]
    BY <2>1
  <2>3. \A d \in Clients : d # h => net'[d] = net[d] \/ net'[d] = "idle"
    BY <1>1, <2>2
  <2>4. \A y \in Sending' \ Sending : y = h
    BY <2>3 DEF Sending
  <2> QED
    BY <2>4
<1>3. CASE ~(Answer(c) \/ Answer429(c) \/ GiveUp(c))
  <2>1. \E v : net' = [net EXCEPT ![c] = v]
    BY <1>3 DEF AcquireSlot, Retry, AttemptFails, WorkerAnswered, WorkerAsks, WorkerLeaves
  <2>2. \A d \in Clients : d # c => net'[d] = net[d]
    BY <1>1, <2>1
  <2>3. \A y \in Sending' \ Sending : y = c
    BY <2>2 DEF Sending
  <2> QED
    BY <2>3
<1> QED
  BY <1>2, <1>3

\* After a pause the timer has one token to give.
LEMMA TimerProbes ==
  ASSUME LimiterInv, TimerFires, bucket.pause = "over"
  PROVE  \E x : \A y \in Sending' \ Sending : y = x
<1>1. PICK expired \in SUBSET Bounded, rate \in 1..Rate : Drain(expired, rate)
  BY DEF TimerFires
<1> DEFINE b == Refill(bucket, rate)
           kept == Kept(b, expired)
           n == IF b.pause = "on" THEN 0 ELSE Smaller(b.tokens, Len(kept))
           granted == {kept[i] : i \in 1..n}
           Of(c) == {w \in granted \cup expired : w.who = c /\ w.from # "gone"}
           Then(w) == IF w \in expired THEN OnDeny(w) ELSE OnGrant(w)
<1>2. net' = [c \in Clients |->
                IF Of(c) = {} THEN net[c] ELSE Then(CHOOSE w \in Of(c) : TRUE)]
  BY <1>1 DEF Drain, Settled
<1>3. b.tokens = 1 /\ n <= 1 /\ n \in Int
  <2>1. bucket \in Buckets
    BY DEF LimiterInv, RegistryCounted, LimiterTypeOK
  <2>2. b.tokens = 1
    BY <2>1, RefillFacts
  <2>3. b.waiters \in Seq(Waiters)
    BY <2>1, RefillFacts DEF Buckets
  <2>4. kept \in Seq(Waiters)
    <3> DEFINE S == {i \in DOMAIN b.waiters : b.waiters[i] \notin expired}
    <3>1. S \in SUBSET DOMAIN b.waiters /\ kept = KeepAt(b.waiters, S)
      BY DEF Kept
    <3> HIDE DEF S, b, kept
    <3> QED
      BY <2>3, <3>1, KeepAtFacts
  <2>5. Len(kept) \in Nat
    BY <2>4
  <2> HIDE DEF b, kept
  <2> QED
    BY <2>2, <2>5 DEF Smaller
<1> HIDE DEF b, kept
<1>4. \A i \in 1..n : i = 1
  BY <1>3
<1> HIDE DEF n
<1>5. \A w \in granted : w = kept[1]
  BY <1>4
<1>6. ASSUME NEW c \in Sending' \ Sending PROVE c = kept[1].who
  <2>1. c \in Clients /\ net'[c] \in {"use", "wire"} /\ net[c] \notin {"use", "wire"}
    BY DEF Sending
  <2>2. Of(c) # {} /\ net'[c] = Then(CHOOSE w \in Of(c) : TRUE)
    BY <1>2, <2>1
  <2>3. PICK w \in Of(c) : w = CHOOSE v \in Of(c) : TRUE
    BY <2>2
  <2>4. net'[c] = Then(w) /\ w.who = c /\ w.from # "gone" /\ w \in granted \cup expired
    BY <2>2, <2>3
  <2>5. w \notin expired
    BY <2>1, <2>4 DEF OnDeny
  <2> QED
    BY <1>5, <2>4, <2>5
<1> QED
  BY <1>6

\* After a pause the registry sees one request: whatever client or worker comes first, and
\* however many waited, no step lets two of them send.
THEOREM OneProbe == LimiterSpec => ProbeOfOne
<1>1. LimiterInv /\ [LimiterNext]_limiterVars
        => [bucket.pause = "over" => Cardinality(Sending' \ Sending) <= 1]_limiterVars
  <2> SUFFICES ASSUME LimiterInv, LimiterNext, bucket.pause = "over"
               PROVE  Cardinality(Sending' \ Sending) <= 1
    OBVIOUS
  <2>1. CASE TimerFires
    BY <2>1, TimerProbes, OneSender
  <2>2. CASE PauseEnds \/ SecondPasses
    <3>1. Sending' \ Sending = {}
      BY <2>2 DEF PauseEnds, SecondPasses, Sending
    <3> QED
      BY <3>1, OneSender
  <2>3. CASE ~TimerFires /\ ~PauseEnds /\ ~SecondPasses
    <3>1. \E x : \A y \in Sending' \ Sending : y = x
      BY <2>3, ClientsProbe DEF LimiterNext
    <3> QED
      BY <3>1, OneSender
  <2> QED
    BY <2>1, <2>2, <2>3
<1> QED
  BY <1>1, LimiterStarts, LimiterStep, PTL DEF LimiterSpec, ProbeOfOne

-----------------------------------------------------------------------------
(* Registry limiter: refinement *)

\* The semaphore's cardinality under the mapping is the limiter's.
LEMMA SlotOperators == \A S : SlotSem!Cardinality(S) = Cardinality(S)
BY DEF SlotSem!Cardinality, Cardinality

\* A slot is given back, or handed to the head of the line.
LEMMA SlotLeaves ==
  ASSUME LimiterInv, NEW c \in Clients, net[c] \in {"use", "denied"}, NEW b, ReleaseSlot(c, b)
  PROVE  SlotSem!Leave(c)
<1>1. /\ net \in [Clients -> Doing] /\ slotLine \in Seq(Clients) /\ c \in SlotOwners
  BY DEF LimiterInv, RegistryCounted, LimiterTypeOK, SlotOwners
<1>2. CASE slotLine = <<>>
  <2>1. net' = [net EXCEPT ![c] = "idle"] /\ slotLine' = slotLine
    BY <1>2 DEF ReleaseSlot
  <2>2. SlotOwners' = SlotOwners \ {c}
    BY <1>1, <2>1 DEF SlotOwners
  <2> QED
    BY <1>1, <1>2, <2>1, <2>2 DEF SlotSem!Leave
<1>3. CASE slotLine # <<>>
  <2> DEFINE h == Head(slotLine)
  <2>1. PICK x \in {"use", "token"} : net' = [net EXCEPT ![c] = "idle", ![h] = x]
    BY <1>3 DEF ReleaseSlot, AfterTake
  <2>2. slotLine' = Tail(slotLine)
    BY <1>3 DEF ReleaseSlot
  <2>3. h = slotLine[1] /\ 1 \in DOMAIN slotLine /\ h \in Clients
    BY <1>1, <1>3
  <2>4. net[h] = "slot" /\ h # c
    BY <2>3 DEF LimiterInv, LineIsWaiting
  <2> HIDE DEF h
  <2>5. SlotOwners' = (SlotOwners \ {c}) \cup {h}
    <3>1. net'[h] = x /\ net'[c] = "idle" /\ \A d \in Clients \ {c, h} : net'[d] = net[d]
      BY <1>1, <2>1, <2>3, <2>4
    <3> QED
      BY <2>3, <2>4, <3>1 DEF SlotOwners
  <2> QED
    BY <1>1, <1>3, <2>2, <2>5 DEF SlotSem!Leave, h
<1> QED
  BY <1>2, <1>3

\* A client that asks for a slot takes one that is free, or joins the line.
LEMMA SlotEnters ==
  ASSUME LimiterInv, NEW c \in Clients, AcquireSlot(c)
  PROVE  SlotSem!Enter(c) \/ SlotSem!Wait(c)
<1>1. /\ net \in [Clients -> Doing] /\ net[c] = "idle" /\ c \notin SlotOwners
      /\ slots = Cardinality(SlotOwners) /\ (slotLine # <<>> => slots = SlotMax)
      /\ slots \in 0..SlotMax /\ SlotMax \in Nat
  BY LimiterAssumption
     DEF LimiterInv, RegistryCounted, LimiterTypeOK, SlotOwners, AcquireSlot
<1>2. CASE slots < SlotMax
  <2>1. PICK x \in {"use", "token"} : net' = [net EXCEPT ![c] = x]
    BY <1>1, <1>2 DEF AcquireSlot, AfterTake
  <2>2. SlotOwners' = SlotOwners \cup {c}
    BY <1>1, <2>1 DEF SlotOwners
  <2>3. slotLine = <<>> /\ slotLine' = slotLine
    BY <1>1, <1>2 DEF AcquireSlot
  <2> QED
    BY <1>1, <1>2, <2>2, <2>3, SlotOperators DEF SlotSem!Enter
<1>3. CASE slots = SlotMax
  <2>1. net' = [net EXCEPT ![c] = "slot"] /\ slotLine' = Append(slotLine, c)
    BY <1>1, <1>3 DEF AcquireSlot
  <2>2. SlotOwners' = SlotOwners
    BY <1>1, <2>1 DEF SlotOwners
  <2>3. \A i \in DOMAIN slotLine : slotLine[i] # c
    BY <1>1 DEF LimiterInv, LineIsWaiting
  <2> QED
    BY <1>1, <1>3, <2>1, <2>2, <2>3, SlotOperators DEF SlotSem!Wait
<1> QED
  BY <1>1, <1>2, <1>3

\* No other step of a client or of the timer changes what the semaphore sees.
LEMMA SlotsUnseen ==
  ASSUME LimiterInv, LimiterNext,
         \A c \in Clients : ~AcquireSlot(c) /\ ~Answer(c) /\ ~Answer429(c) /\ ~GiveUp(c)
  PROVE  SlotOwners' = SlotOwners /\ slotLine' = slotLine
<1>1. net \in [Clients -> Doing]
  BY DEF LimiterInv, RegistryCounted, LimiterTypeOK
<1>2. CASE TimerFires
  BY <1>2, TimerOwners DEF SlotOwners, OwnerStates
<1>3. CASE PauseEnds \/ SecondPasses
  BY <1>3 DEF PauseEnds, SecondPasses, SlotOwners
<1>4. ASSUME NEW c \in Clients, Retry(c) PROVE SlotOwners' = SlotOwners /\ slotLine' = slotLine
  <2>1. PICK x \in {"use", "retry"} : net' = [net EXCEPT ![c] = x]
    BY <1>4 DEF Retry
  <2> QED
    BY <1>1, <1>4, <2>1 DEF Retry, SlotOwners
<1>5. ASSUME NEW c \in Clients, WorkerAsks(c)
      PROVE  SlotOwners' = SlotOwners /\ slotLine' = slotLine
  <2>1. PICK x \in {"wire", "asks"} : net' = [net EXCEPT ![c] = x]
    BY <1>5 DEF WorkerAsks
  <2> QED
    BY <1>1, <1>5, <2>1 DEF WorkerAsks, SlotOwners
<1>6. ASSUME NEW c \in Clients, NEW limited \in BOOLEAN,
             AttemptFails(c, limited) \/ WorkerAnswered(c, limited) \/ WorkerLeaves(c)
      PROVE  SlotOwners' = SlotOwners /\ slotLine' = slotLine
  BY <1>1, <1>6 DEF AttemptFails, WorkerAnswered, WorkerLeaves, SlotOwners
<1> QED
  BY <1>2, <1>3, <1>4, <1>5, <1>6 DEF LimiterNext

\* Every step of the limiter is a step of the semaphore, or changes nothing it can see.
LEMMA SlotStep ==
  ASSUME LimiterInv, [LimiterNext]_limiterVars
  PROVE  [SlotSem!Next]_(SlotSem!semVars)
<1>1. ASSUME NEW c \in Clients, AcquireSlot(c) PROVE SlotSem!Next
  BY <1>1, SlotEnters DEF SlotSem!Next
<1>2. ASSUME NEW c \in Clients, Answer(c) \/ Answer429(c) \/ GiveUp(c) PROVE SlotSem!Next
  BY <1>2, SlotLeaves DEF SlotSem!Next, Answer, Answer429, GiveUp
<1>3. CASE UNCHANGED limiterVars
  BY <1>3 DEF limiterVars, SlotSem!semVars, SlotOwners
<1> QED
  BY <1>1, <1>2, <1>3, SlotsUnseen DEF SlotSem!semVars

\* Whatever happens to its tokens, a request gets its slot in the order of arrival and
\* only when one is free, and whoever leaves hands its slot to the longest waiter.
THEOREM SlotsAreFifo == LimiterSpec => SlotsAreSemaphore
<1>1. LimiterInit => SlotSem!Init
  BY DEF LimiterInit, SlotSem!Init, SlotOwners
<1> QED
  BY <1>1, LimiterStarts, LimiterStep, SlotStep, PTL
     DEF LimiterSpec, SlotSem!Spec, SlotsAreSemaphore

=============================================================================
