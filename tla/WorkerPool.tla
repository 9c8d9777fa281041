----------------------------- MODULE WorkerPool -----------------------------
(***************************************************************************)
(* How many scans run at once: the adaptive target of                      *)
(* src/monitor/adaptive-concurrency.js, and the pool of worker loops that  *)
(* ensureWorkers of src/monitor/queue.js fills up to it, under the caps of *)
(* memory, of a degraded IOC database and of a frozen memory governor.     *)
(*                                                                         *)
(* A worker is an async loop: it takes an item, awaits its scan, and looks *)
(* at the queue, the target and the governor again before the next.  All   *)
(* workers are alike, so the pool is a number.  The counters of scans and  *)
(* timeouts since the last sample are an input of each sample: every       *)
(* branch of computeTarget remembers where they stood.                     *)
(***************************************************************************)
EXTENDS Integers

CONSTANTS
  MIN_CONCURRENCY, BASE_CONCURRENCY, MAX_CONCURRENCY,
  ScaleUp, ScaleDown,       \* 4 and 2 in the code
  Idle, Backlog,            \* thresholds of the queue's depth, 100 and 1000
  FALLBACK_WORKER_CAP,
  Deltas,                   \* scans since the last sample; < 0 after a reset
  DepthMax                  \* bound of the model

PoolAssumption ==
  /\ MIN_CONCURRENCY \in Nat \ {0}
  /\ BASE_CONCURRENCY \in Nat /\ MIN_CONCURRENCY <= BASE_CONCURRENCY
  /\ MAX_CONCURRENCY \in Nat /\ BASE_CONCURRENCY <= MAX_CONCURRENCY
  /\ ScaleUp \in Nat \ {0} /\ ScaleDown \in Nat \ {0}
  /\ Idle \in Nat /\ Backlog \in Nat /\ DepthMax \in Nat
  /\ FALLBACK_WORKER_CAP \in Nat \ {0}
  /\ Deltas \subseteq Int

VARIABLES
  depth,        \* scanQueue.length
  active,       \* _activeWorkers
  outstanding,  \* tickets of the memory governor in use
  frozen,       \* its freeze
  strain,       \* what a sample finds first, see Strains
  ctl           \* target, and _prevThroughput, _lastScaleDirection, _plateauStreak

poolVars == <<depth, active, outstanding, frozen, strain, ctl>>

\* In the order computeTarget asks: heap HIGH, heap ELEVATED, little free
\* RAM, many timeouts, none of these.
Strains == {"high", "elevated", "ram", "timeouts", "none"}

Least(x, y) == IF x <= y THEN x ELSE y
Most(x, y) == IF x >= y THEN x ELSE y
clamp(n) == Most(MIN_CONCURRENCY, Least(MAX_CONCURRENCY, n))

PoolInit ==
  /\ depth = 0 /\ active = 0 /\ outstanding = 0
  /\ frozen = FALSE
  /\ strain = "none"
  /\ ctl = [target |-> BASE_CONCURRENCY, throughput |-> 0, direction |-> 0, streak |-> 0]

-----------------------------------------------------------------------------
(* The target.                                                             *)

\* No more throughput in the window after an increase of the target.
Flat(delta) == ctl.direction > 0 /\ ctl.throughput > 0 /\ delta \in 1..ctl.throughput

Reduced(delta) ==
  LET target == clamp(ctl.target - ScaleDown)
  IN  [ctl EXCEPT !.target = target, !.throughput = delta,
                  !.direction = IF target < ctl.target THEN -1 ELSE 0]

\* Mutant: a second flat window leaves the direction upwards.
FlatWindowSticky(delta) ==
  IF ctl.streak = 0 THEN [ctl EXCEPT !.throughput = delta, !.streak = 1]
  ELSE [ctl EXCEPT !.target = clamp(@ - ScaleDown), !.throughput = delta, !.streak = 0]

\* The first flat window is noise, the second one saturation.
FlatWindow(delta) ==
  IF ctl.streak = 0 THEN [ctl EXCEPT !.throughput = delta, !.streak = 1]
  ELSE [target |-> clamp(ctl.target - ScaleDown), throughput |-> delta,
        direction |-> -1, streak |-> 0]

ByDepth(delta) ==
  LET up == clamp(ctl.target + ScaleUp)
      down == Most(BASE_CONCURRENCY, clamp(ctl.target - ScaleDown))
  IN  IF depth > Backlog
      THEN [target |-> up, throughput |-> delta, streak |-> 0,
            direction |-> IF up > ctl.target THEN 1 ELSE 0]
      ELSE IF depth < Idle
      THEN [ctl EXCEPT !.target = down, !.streak = 0,
                       !.direction = IF down < ctl.target THEN -1 ELSE 0]
      ELSE [ctl EXCEPT !.direction = 0, !.streak = 0]

computeTarget(delta) ==
  CASE strain = "high"     -> [ctl EXCEPT !.target = MIN_CONCURRENCY]
    [] strain = "elevated" -> [ctl EXCEPT !.target = clamp(Least(@, BASE_CONCURRENCY))]
    [] strain = "ram"      -> [ctl EXCEPT !.target = clamp(@ - ScaleUp)]
    [] strain = "timeouts" /\ delta > 0 -> Reduced(delta)
    [] OTHER -> IF Flat(delta) THEN FlatWindow(delta) ELSE ByDepth(delta)

-----------------------------------------------------------------------------
(* The pool.                                                               *)

\* How many of n workers the memory admits; one is, when nothing runs.
Admitted(n, rssCap) ==
  IF n > 0 /\ rssCap = 0 /\ active = 0 THEN 1 ELSE Least(n, rssCap)

Spawns(target, rssCap, fullFallback) ==
  LET wanted == Most(0, Least(target - active, depth))
      admitted == Admitted(wanted, rssCap)
  IN  IF fullFallback
      THEN Most(0, Least(admitted, FALLBACK_WORKER_CAP - active))
      ELSE admitted

\* Mutant: a freeze keeps every worker from the queue.
MayPumpNever(workers) == ~frozen

\* During a freeze only the last worker, and only with no ticket in use,
\* takes an item.
MayPump(workers) == ~frozen \/ (outstanding = 0 /\ workers <= 1)

\* The new workers run up to their first await: those that may not take an
\* item end at once.
EnsureWorkers(target) ==
  \E n \in {Spawns(target, rssCap, fullFallback) :
              rssCap \in 0..MAX_CONCURRENCY, fullFallback \in BOOLEAN} :
    LET staying == IF n > 0 /\ MayPump(active + 1)
                   THEN IF frozen THEN 1 ELSE n
                   ELSE 0
    IN  /\ active' = active + staying
        /\ depth' = depth - staying

\* A scan is over, and its worker looks around.
Finish ==
  /\ active > 0
  /\ IF depth > 0 /\ active <= ctl.target /\ MayPump(active)
     THEN depth' = depth - 1 /\ UNCHANGED active
     ELSE active' = active - 1 /\ UNCHANGED depth
  /\ UNCHANGED <<outstanding, frozen, strain, ctl>>

\* The main loop tops the pool up, unless the heap is at HIGH.
MainLoop ==
  /\ strain # "high"
  /\ EnsureWorkers(ctl.target)
  /\ UNCHANGED <<outstanding, frozen, strain, ctl>>

\* The timer of 30 seconds; an increase fills the pool at once.
AdjustTarget ==
  /\ \E delta \in Deltas : ctl' = computeTarget(delta)
  /\ IF ctl'.target > ctl.target
     THEN EnsureWorkers(ctl'.target)
     ELSE UNCHANGED <<depth, active>>
  /\ UNCHANGED <<outstanding, frozen, strain>>

Enqueued ==
  /\ depth < DepthMax
  /\ depth' = depth + 1
  /\ UNCHANGED <<active, outstanding, frozen, strain, ctl>>

\* A scan gets its ticket; during a freeze only as the only one.  (No more
\* tickets than workers, a bound of the model: what counts is whether there
\* are any.)
TicketIn ==
  /\ outstanding < active
  /\ ~frozen \/ outstanding = 0
  /\ outstanding' = outstanding + 1
  /\ UNCHANGED <<depth, active, frozen, strain, ctl>>

\* A scan gives its ticket back, maybe after its worker has given it up.
TicketOut ==
  /\ outstanding > 0
  /\ outstanding' = outstanding - 1
  /\ UNCHANGED <<depth, active, frozen, strain, ctl>>

Environment ==
  /\ frozen' \in BOOLEAN
  /\ strain' \in Strains
  /\ UNCHANGED <<depth, active, outstanding, ctl>>

PoolNext ==
  \/ Finish \/ MainLoop \/ AdjustTarget \/ Enqueued
  \/ TicketIn \/ TicketOut \/ Environment

PoolSpec == PoolInit /\ [][PoolNext]_poolVars

\* A scan ends at its timeout and returns its ticket; the two timers tick.  The
\* main loop is only relied on when no worker is left: with one at work, memory
\* may refuse every other one for good.
PoolFairness ==
  /\ WF_poolVars(Finish) /\ WF_poolVars(TicketOut)
  /\ WF_poolVars(MainLoop /\ active = 0)
  /\ WF_poolVars(AdjustTarget)

-----------------------------------------------------------------------------
(* Properties.                                                             *)

\* The target stays between the minimum and the maximum whatever sequence of samples
\* moves it, and the workers within the maximum, although a target lowered under
\* running workers, the caps and two callers of ensureWorkers decide their number.
PoolTypeOK ==
  /\ depth \in 0..DepthMax
  /\ active \in 0..MAX_CONCURRENCY
  /\ outstanding \in 0..MAX_CONCURRENCY
  /\ frozen \in BOOLEAN /\ strain \in Strains
  /\ ctl \in [target : MIN_CONCURRENCY..MAX_CONCURRENCY, throughput : Deltas \cup {0},
              direction : {-1, 0, 1}, streak : {0, 1}]

\* Nothing stops the pool for good but the heap: with no memory to spare, a
\* degraded database and a freeze of the governor that never ends, workers
\* go on taking items until the queue is empty.
PoolServes ==
  <>[](strain # "high") => []<>(depth = 0) \/ []<><<depth' < depth>>_poolVars

\* After any strain, and whatever the plateaus remember, the target of a calm
\* and idle pool returns to the base and stays there.
CalmRestoresBase ==
  <>[](strain = "none" /\ depth < Idle) => <>[](ctl.target = BASE_CONCURRENCY)

=============================================================================
