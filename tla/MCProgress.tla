------------------------------ MODULE MCProgress ------------------------------
(***************************************************************************)
(* The liveness of the scan queue, of the worker pool and of the scan      *)
(* lifecycle, on instances small enough for it.  The three machines do not *)
(* run together: a behaviour is one of one machine, while the others stay  *)
(* in their initial states, where their fairness asks for nothing.         *)
(***************************************************************************)
EXTENDS ScanLifecycle

CONSTANTS a, b, p, q, w1, w2, key,
          Nobody

VARIABLES liveQueue, file, taken, recentItems, seq, pressure, itemFate

VARIABLES depth, active, outstanding, frozen, strain, ctl

poolVars == <<depth, active, outstanding, frozen, strain, ctl>>

queueVars == <<liveQueue, file, taken, recentItems, seq, pressure, itemFate>>

MCKeyOf == [x \in Pubs |-> key]

\* Two items, one of them protected, a queue of two.
Q == INSTANCE ScanQueue WITH
  Items <- {a, b}, Protected <- {a}, IocKnown <- {b}, Priority <- {a},
  EvictionWindow <- 1, PriorityDequeue <- FALSE, DequeueWindow <- 2,
  FreshFirst <- TRUE, SplitThreshold <- 1, DrainLanes <- 1, Target <- 2, MaxLen <- 0,
  Workers <- {w1}, Levels <- {"none", "high", "emergency"},
  MaxScanQueue <- 2, EmergencyKeep <- 1,
  SpillEnabled <- TRUE, SpillMax <- 2, SpillCeiling <- 2,
  DrainThreshold <- 2, DrainBatch <- 2, TornAppends <- FALSE,
  queue <- liveQueue, recent <- recentItems, fate <- itemFate

\* The minimum, base and maximum, the steps and the thresholds of the depth keep
\* the order they have in the code.
P == INSTANCE WorkerPool WITH
  MIN_CONCURRENCY <- 1, BASE_CONCURRENCY <- 2, MAX_CONCURRENCY <- 3,
  ScaleUp <- 2, ScaleDown <- 1, Idle <- 1, Backlog <- 1,
  FALLBACK_WORKER_CAP <- 1, Deltas <- {0, 1}, DepthMax <- 2

ASSUME PoolAssumption == P!PoolAssumption

ProgressInit == LifecycleInit /\ Q!Init /\ P!PoolInit

ProgressNext ==
  \/ Q!Init /\ P!PoolInit /\ LifecycleNext /\ UNCHANGED <<queueVars, poolVars>>
  \/ LifecycleInit /\ P!PoolInit /\ Q!Next /\ UNCHANGED <<lifeVars, poolVars>>
  \/ LifecycleInit /\ Q!Init /\ P!PoolNext /\ UNCHANGED <<lifeVars, queueVars>>

ProgressSpec ==
  /\ ProgressInit /\ [][ProgressNext]_<<lifeVars, queueVars, poolVars>>
  /\ LifecycleFairness /\ Q!Fairness /\ P!PoolFairness

\* Queued items are served and the backlog is drained.
QueueMoves == Q!QueueServed /\ Q!BacklogDrains

\* The pool goes on serving, and its target recovers.
PoolMoves == P!PoolServes /\ P!CalmRestoresBase

=============================================================================
