------------------------------ MODULE HeavyLane ------------------------------
(***************************************************************************)
(* The heavy lane of the monitor (src/src/monitor/heavy-lane.js) together  *)
(* with its only caller, scanPackage, and the requeue decision of          *)
(* processQueueItem (src/src/monitor/queue.js).  A memory-heavy scan takes *)
(* a slot before its worker thread starts and gives it back in a finally.  *)
(* An acquire that finds the lane full waits; the wait ends with a slot,   *)
(* with the outer scan abort, or with the wait bound, after which the item *)
(* goes back to the scan queue.  Node is single threaded: each action is   *)
(* one synchronous stretch between two awaits.                             *)
(***************************************************************************)
EXTENDS Naturals, Sequences, FiniteSets, SequencesExt

CONSTANTS Scans,            \* the scans
          LightScans,       \* those classified light (isHeavyScan is false)
          HeavyScanMax,     \* MUADDIB_HEAVY_SCAN_MAX; 0 switches the lane off
          HeavyRequeueMax   \* HEAVY_REQUEUE_MAX

ASSUME HeavyLaneAssumption ==
  /\ IsFiniteSet(Scans)
  /\ LightScans \subseteq Scans
  /\ HeavyScanMax \in Nat
  /\ HeavyRequeueMax \in Nat

VARIABLES active,    \* _lane.active
          queue,     \* _lane.queue: the scans whose waiter is in it
          phase,     \* where each scan is, relative to the lane
          aborted,   \* scans whose outer AbortSignal has fired
          retries    \* item._heavyRetries

vars == <<active, queue, phase, aborted, retries>>

(* "out"     not at the lane (queued, downloading, or not published at all) *)
(* "waiting" the acquire promise is pending                                 *)
(* "granted" the promise is resolved, scanPackage has not resumed yet       *)
(* "holding" heavySlotHeld: the static scan runs inside the slot            *)
(* "free"    light scan, or lane off: the static scan runs without a slot   *)
(* "expired" rejected with HEAVY_LANE_WAIT_TIMEOUT, not yet requeued        *)
(* "failed"  the wait timeout of a scan that may not be requeued any more   *)
Phases == {"out", "waiting", "granted", "holding", "free", "expired", "failed"}

TypeOK ==
  /\ active \in Nat
  /\ queue \in Seq(Scans)
  /\ phase \in [Scans -> Phases]
  /\ aborted \in SUBSET Scans
  /\ retries \in [Scans -> Nat]

Init ==
  /\ active = 0
  /\ queue = <<>>
  /\ phase = [s \in Scans |-> "out"]
  /\ aborted = {}
  /\ retries = [s \in Scans |-> 0]

\* The scans that own one of the lane's slots.
Holders == {s \in Scans : phase[s] \in {"granted", "holding"}}

\* The item is finished with: a later scan of it starts from scratch, with a
\* fresh AbortController and no retries.
EndScan(s) ==
  /\ phase' = [phase EXCEPT ![s] = "out"]
  /\ aborted' = aborted \ {s}
  /\ retries' = [retries EXCEPT ![s] = 0]

\* Mutant: a bail that rejects without the splice, the leak of "trap #1".
LeaveQueueUnspliced(s) == UNCHANGED queue

\* Mutant: a bail that drops the head of the queue instead of its own waiter.
LeaveQueueHead(s) == queue' = Tail(queue)

\* The waiter takes itself out of the lane's queue (queue.splice(i, 1)).
LeaveQueue(s) ==
  \E i \in DOMAIN queue : queue[i] = s /\ queue' = RemoveAt(queue, i)

\* A light scan does not come to the lane at all, and a lane of width zero
\* resolves false: nothing to wait for, nothing to release.
NoSlotNeeded(s) == s \in LightScans \/ HeavyScanMax = 0

AcquireOff(s) ==
  /\ phase[s] = "out"
  /\ NoSlotNeeded(s)
  /\ phase' = [phase EXCEPT ![s] = "free"]
  /\ UNCHANGED <<active, queue, aborted, retries>>

\* acquireHeavySlot, a slot is free.
AcquireFast(s) ==
  /\ phase[s] = "out"
  /\ s \notin LightScans
  /\ active < HeavyScanMax
  /\ active' = active + 1
  /\ phase' = [phase EXCEPT ![s] = "granted"]
  /\ UNCHANGED <<queue, aborted, retries>>

\* acquireHeavySlot, lane saturated: push the waiter.
AcquireWait(s) ==
  /\ phase[s] = "out"
  /\ ~NoSlotNeeded(s)
  /\ active >= HeavyScanMax
  /\ s \notin aborted
  /\ queue' = Append(queue, s)
  /\ phase' = [phase EXCEPT ![s] = "waiting"]
  /\ UNCHANGED <<active, aborted, retries>>

\* acquireHeavySlot, lane saturated and the signal already fired: the waiter is
\* pushed, bails at once and the scan ends with ABORT_ERR.
AcquireAborted(s) ==
  /\ phase[s] = "out"
  /\ ~NoSlotNeeded(s)
  /\ active >= HeavyScanMax
  /\ s \in aborted
  /\ EndScan(s)
  /\ UNCHANGED <<active, queue>>

\* The outer SCAN_TIMEOUT_MS abort.  It takes a pending waiter out of the queue
\* and ends its scan; a scan that was already woken keeps its slot until the
\* worker it starts is torn down.
Abort(s) ==
  /\ s \notin aborted
  /\ \/ /\ phase[s] = "waiting"
        /\ LeaveQueue(s)
        /\ EndScan(s)
     \/ /\ phase[s] # "waiting"
        /\ aborted' = aborted \cup {s}
        /\ UNCHANGED <<queue, phase, retries>>
  /\ UNCHANGED active

\* Mutant: off by one, the pass after the last requeue is still bounded.
LastPassLate(s) == retries[s] > HeavyRequeueMax

\* The last pass waits without a bound (maxWaitMs 0).
LastPass(s) == retries[s] >= HeavyRequeueMax

\* The wait timer of the acquire fires.
WaitTimeout(s) ==
  /\ phase[s] = "waiting"
  /\ ~LastPass(s)
  /\ LeaveQueue(s)
  /\ phase' = [phase EXCEPT ![s] = "expired"]
  /\ UNCHANGED <<active, aborted, retries>>

\* processQueueItem's catch: computeHeavyRequeue counts the pass and puts the
\* item back in the scan queue, or falls through to the error path.
Requeue(s) ==
  /\ phase[s] = "expired"
  /\ retries' = [retries EXCEPT ![s] = @ + 1]
  /\ phase' = [phase EXCEPT ![s] = IF retries'[s] <= HeavyRequeueMax
                                   THEN "out" ELSE "failed"]
  /\ aborted' = aborted \ {s}
  /\ UNCHANGED <<active, queue>>

\* The microtask in which scanPackage sees the slot and starts its worker.
Resume(s) ==
  /\ phase[s] = "granted"
  /\ phase' = [phase EXCEPT ![s] = "holding"]
  /\ UNCHANGED <<active, queue, aborted, retries>>

\* Calling a waiter resolves its promise: nothing happens if it was settled.
Woken(s) == IF phase[s] = "waiting" THEN "granted" ELSE phase[s]

\* Mutant: wakes the youngest waiter (pop instead of shift).
ReleaseNewest(s) ==
  /\ phase[s] = "holding"
  /\ IF queue = <<>>
     THEN active' = active - 1 /\ queue' = queue
          /\ phase' = [phase EXCEPT ![s] = "out"]
     ELSE active' = active /\ queue' = Front(queue)
          /\ phase' = [phase EXCEPT ![s] = "out", ![Last(queue)] = Woken(Last(queue))]
  /\ aborted' = aborted \ {s}
  /\ retries' = [retries EXCEPT ![s] = 0]

\* releaseHeavySlot in scanPackage's finally: hand the slot over or count it down.
Release(s) ==
  /\ phase[s] = "holding"
  /\ \/ /\ queue # <<>>
        /\ phase' = [phase EXCEPT ![s] = "out", ![Head(queue)] = Woken(Head(queue))]
        /\ queue' = Tail(queue)
        /\ UNCHANGED active
     \/ /\ queue = <<>>
        /\ active' = IF active > 0 THEN active - 1 ELSE active
        /\ phase' = [phase EXCEPT ![s] = "out"]
        /\ UNCHANGED queue
  /\ aborted' = aborted \ {s}
  /\ retries' = [retries EXCEPT ![s] = 0]

\* A scan that never took a slot ends without a release.
FinishFree(s) ==
  /\ phase[s] = "free"
  /\ EndScan(s)
  /\ UNCHANGED <<active, queue>>

Acquire(s) == AcquireOff(s) \/ AcquireFast(s) \/ AcquireWait(s) \/ AcquireAborted(s)

Next ==
  \E s \in Scans :
    \/ Acquire(s)
    \/ Abort(s)
    \/ WaitTimeout(s)
    \/ Requeue(s)
    \/ Resume(s)
    \/ Release(s)
    \/ FinishFree(s)

\* A slot covers only the worker's lifetime, which the 45 s static timeout
\* bounds, so every holder releases; microtasks always run.  Nothing is assumed
\* of aborts, wait timeouts or new scans.
Fairness == \A s \in Scans : WF_vars(Resume(s) \/ Release(s))

Spec == Init /\ [][Next]_vars

FairSpec == Spec /\ Fairness

-----------------------------------------------------------------------------
(* Properties *)

\* The counter is exactly the number of scans that own a slot: none is leaked to
\* a waiter that already left, none is released twice (heavy-lane.js, "trap #1").
SlotsAccounted == active = Cardinality(Holders)

\* At most HeavyScanMax heavy scans run at once.
LaneBounded == active <= HeavyScanMax

\* The lane's queue holds each pending waiter once, and nobody else.
QueueIsWaiters ==
  /\ \A s \in Scans : phase[s] = "waiting" <=> \E i \in DOMAIN queue : queue[i] = s
  /\ \A i, j \in DOMAIN queue : queue[i] = queue[j] => i = j

\* A scan waits only while every slot is taken: no wakeup is lost.
NoLostWakeup == queue # <<>> => active = HeavyScanMax

\* The lane's counter, its queue and its owners agree.
LaneAccounted == SlotsAccounted /\ NoLostWakeup

\* The outer abort never leaves a dead waiter behind.
NoAbortedWaiter == \A s \in aborted : phase[s] # "waiting"

\* The branch queue.js calls unreachable is: a wait timeout always requeues.
RequeueNeverExhausted == \A s \in Scans : phase[s] # "failed"

\* A scan that waits for a slot stops waiting, even if no timeout ever fires.
WaitEnds == \A s \in Scans \ LightScans : []<>(phase[s] # "waiting")

-----------------------------------------------------------------------------
(* The lane is a counting semaphore with a FIFO line. *)

Sem == INSTANCE Semaphore
         WITH Procs <- Scans, Capacity <- HeavyScanMax,
              holders <- Holders, line <- queue

IsSemaphore == Sem!Spec

=============================================================================
