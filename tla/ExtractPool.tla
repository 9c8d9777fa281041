----------------------------- MODULE ExtractPool -----------------------------
(***************************************************************************)
(* The pool of extraction threads (src/src/shared/extract-pool.js): one    *)
(* job per thread, threads spawned on demand, a bounded FIFO of jobs that  *)
(* wait.  A job is the extraction of one scan's archive.  A thread that    *)
(* fails, exits or exceeds the job timeout leaves the pool at once; its    *)
(* late events find no job and change nothing.                             *)
(***************************************************************************)
EXTENDS Naturals, Sequences, FiniteSets, SequencesExt

CONSTANTS PoolSize,   \* POOL_SIZE
          MaxPending  \* MAX_PENDING

ASSUME PoolAssumption == PoolSize \in Nat \ {0} /\ MaxPending \in Nat

VARIABLES pending,  \* the jobs that wait
          running,  \* the jobs the busy threads have
          idle,     \* the number of idle threads
          pool      \* "closing" while `destroyed' is set, else "open"

poolVars == <<pending, running, idle, pool>>

PoolTypeOK(Jobs) ==
  /\ pending \in Seq(Jobs) /\ Len(pending) <= MaxPending
  /\ running \in SUBSET Jobs
  /\ idle \in 0..PoolSize /\ idle + Cardinality(running) <= PoolSize
  /\ pool \in {"open", "closing"}

PoolInit == pending = <<>> /\ running = {} /\ idle = 0 /\ pool = "open"

\* _dispatch: the oldest jobs get the idle threads, then new ones up to the pool's size.
Dispatch(line, busy, free) ==
  LET room == PoolSize - Cardinality(busy)
      n == IF pool = "closing" THEN 0 ELSE IF Len(line) < room THEN Len(line) ELSE room
  IN  /\ pending' = SubSeq(line, n + 1, Len(line))
      /\ running' = busy \cup {line[k] : k \in 1..n}
      /\ idle' = IF n < free THEN free - n ELSE 0

\* Mutant: the test of the cap is off by one.
RefusesLate == pool = "closing" \/ Len(pending) > MaxPending

\* extractInPool, refused: the pool is being destroyed or its queue is full.
Refuses == pool = "closing" \/ Len(pending) >= MaxPending

\* extractInPool
Submit(j) ==
  /\ ~Refuses
  /\ Dispatch(Append(pending, j), running, idle)
  /\ UNCHANGED pool

\* _onMessage: the thread is idle again.
Answered(j) ==
  /\ j \in running
  /\ Dispatch(pending, running \ {j}, idle + 1)
  /\ UNCHANGED pool

\* _onWorkerError, _onWorkerExit and the job timeout: the thread is removed.
ThreadLost(j) ==
  /\ j \in running
  /\ Dispatch(pending, running \ {j}, idle)
  /\ UNCHANGED pool

\* The same without a job.
IdleThreadLost ==
  /\ idle > 0
  /\ Dispatch(pending, running, idle - 1)
  /\ UNCHANGED pool

\* destroyExtractPool up to its await: every job is rejected.
Destroy ==
  /\ pool = "open" /\ pool' = "closing"
  /\ pending' = <<>> /\ running' = {} /\ idle' = 0

\* Its threads have terminated; the next job starts the pool again.
Destroyed ==
  /\ pool = "closing" /\ pool' = "open"
  /\ UNCHANGED <<pending, running, idle>>

=============================================================================
