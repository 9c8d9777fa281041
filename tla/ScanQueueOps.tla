----------------------------- MODULE ScanQueueOps -----------------------------
(***************************************************************************)
(* The selection rules of the scan queue and of its spill file: which item *)
(* is evicted at the cap, which ones a bulk eviction, a compaction or a    *)
(* drain picks, and which one a worker dequeues                            *)
(* (src/src/monitor/scan-queue.js, src/src/monitor/spill.js).  An item is  *)
(* only told apart by its classes.                                         *)
(***************************************************************************)
EXTENDS Selection

CONSTANTS Items,
          Protected,        \* _isProtected: IOC match, burst, first publish, ATO, interrupted
          IocKnown,         \* _isIOCKnownByName: the name is in the IOC database
          Priority,         \* _isPriority
          EvictionWindow,   \* PROTECTED_EVICTION_SCAN_MAX
          PriorityDequeue,  \* MUADDIB_PRIORITY_DEQUEUE
          DequeueWindow,    \* PRIORITY_DEQUEUE_WINDOW
          FreshFirst,       \* MUADDIB_FRESH_FIRST
          SplitThreshold,   \* BACKLOG_SPLIT_THRESHOLD
          DrainLanes,       \* BACKLOG_DRAIN_LANES
          Target            \* target concurrency of the worker pool

ASSUME ScanQueueOpsAssumption ==
  /\ IsFiniteSet(Items)
  /\ Protected \subseteq Items /\ IocKnown \subseteq Items /\ Priority \subseteq Items
  /\ EvictionWindow \in Nat \ {0} /\ DequeueWindow \in Nat \ {0}
  /\ PriorityDequeue \in BOOLEAN /\ FreshFirst \in BOOLEAN
  /\ SplitThreshold \in Nat /\ DrainLanes \in Nat \ {0} /\ Target \in Nat

\* enqueueScan's victim: the oldest unprotected item of the head window, or the
\* oldest item if the window is all protected.
Victim(q) ==
  LET loose == {k \in 1..Smaller(Len(q), EvictionWindow) : q[k] \notin Protected}
  IN  IF loose = {} THEN 1 ELSE CHOOSE k \in loose : \A j \in loose : k <= j

\* Mutant: no lane is reserved for the oldest items.
PullNewestUnreserved(seq, n) == FreshFirst /\ n > SplitThreshold

\* At least two lanes, at least one of them fresh.
LaneCount == IF Target < 2 THEN 2 ELSE Target

\* shouldPullNewest: above the threshold the lanes after the drain lanes go fresh.
PullNewest(seq, n) ==
  /\ FreshFirst
  /\ n > SplitThreshold
  /\ seq % LaneCount >= Smaller(DrainLanes, LaneCount - 1)

\* The index dequeueScan takes: the tail for a fresh lane; else the oldest
\* priority item of the window if that policy is on; else the head.
NextIndex(q, newest) ==
  LET urgent == {k \in 1..Smaller(Len(q), DequeueWindow) : q[k] \in Priority}
  IN  IF newest THEN Len(q)
      ELSE IF PriorityDequeue /\ urgent # {}
           THEN CHOOSE k \in urgent : \A j \in urgent : k <= j
           ELSE 1

\* Mutant: a drain in plain file order.
DrainPickFifo(lines, n) == FirstOf(DOMAIN lines, n)

\* drainBacklog's selection: protected entries first, oldest first in each class.
DrainPick(lines, n) == Marked(lines, n, Items \ Protected)

\* The order in which the picked entries enter the queue.
DrainOrder(lines, n) ==
  LET pick == DrainPick(lines, n)
      first == {k \in pick : lines[k] \in Protected}
  IN  KeepAt(lines, first) \o KeepAt(lines, pick \ first)

=============================================================================
