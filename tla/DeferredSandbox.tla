---------------------------- MODULE DeferredSandbox ----------------------------
(***************************************************************************)
(* The deferred sandbox queue (src/src/monitor/deferred-sandbox.js): a     *)
(* bounded queue sorted by tier and score, its own pool of sandbox slots,  *)
(* retries, expiry and a snapshot on disk, with the daemon's restarts      *)
(* (src/src/monitor/daemon.js).  A key is a name@version; two scans of the *)
(* same key may both ask for it.  What a completed run reports is in       *)
(* Alerts.                                                             *)
(***************************************************************************)
EXTENDS Selection, TLC

CONSTANTS Keys,
          TopTier,       \* keys of tier T1a
          Score,         \* risk score of each key
          Tier1Signal,   \* keys with a finding of TIER1_TYPES
          MinScore,      \* DEFERRED_MIN_SCORE
          QueueMax,      \* DEFERRED_QUEUE_MAX
          Slots,         \* DEFERRED_SANDBOX_SLOTS
          MaxRetries,    \* DEFERRED_MAX_RETRIES
          Crashes        \* whether the process may die without its shutdown handler

ASSUME DeferredAssumption ==
  /\ TopTier \subseteq Keys /\ Tier1Signal \subseteq Keys
  /\ Score \in [Keys -> Nat] /\ MinScore \in Nat
  /\ QueueMax \in Nat \ {0} /\ Slots \in Nat \ {0} /\ MaxRetries \in Nat \ {0}
  /\ Crashes \in BOOLEAN

VARIABLES queue,     \* _deferredQueue
          seen,      \* _deferredSeen
          running,   \* the items whose sandbox run is awaited
          active,    \* _deferredSlotsActive
          disk,      \* items of DEFERRED_STATE_FILE, empty if it does not exist
          up,        \* the process runs
          durable    \* history: keys saved while queued, neither taken out nor crashed since

vars == <<queue, seen, running, active, disk, up, durable>>

Entry == [key : Keys, retries : Nat]

KeysOf(q) == {q[i].key : i \in DOMAIN q}

TypeOK ==
  /\ queue \in Seq(Entry) /\ running \in Seq(Entry) /\ disk \in Seq(Entry)
  /\ seen \subseteq Keys /\ durable \subseteq Keys
  /\ active \in 0..Slots
  /\ up \in BOOLEAN

Init ==
  /\ queue = <<>> /\ running = <<>> /\ disk = <<>>
  /\ seen = {} /\ durable = {}
  /\ active = 0
  /\ up = TRUE

-----------------------------------------------------------------------------
(* Priorities *)

\* _deferredCompare(a, b) < 0: tier first, then the higher score.
Outranks(a, b) ==
  \/ a.key \in TopTier /\ b.key \notin TopTier
  \/ /\ a.key \in TopTier <=> b.key \in TopTier
     /\ Score[a.key] > Score[b.key]

\* Array.prototype.sort is stable: which of two indices goes first, and where an index goes.
Before(q, i, j) == Outranks(q[i], q[j]) \/ (i < j /\ ~Outranks(q[j], q[i]))
Rank(q, i) == Cardinality({j \in DOMAIN q : Before(q, j, i)}) + 1

Sorted(q) == [p \in DOMAIN q |-> q[CHOOSE i \in DOMAIN q : Rank(q, i) = p]]

Eligible(k) == k \in TopTier \/ Score[k] >= MinScore \/ k \in Tier1Signal

-----------------------------------------------------------------------------
(* Operations *)

\* Mutant: the evicted item stays in the dedup set.
EnqueueStale(k) ==
  LET new == [key |-> k, retries |-> 0]
      full == Len(queue) >= QueueMax
      kept == IF full THEN Front(queue) ELSE queue
  IN  /\ up /\ Eligible(k) /\ k \notin seen
      /\ full => Outranks(new, Last(queue))
      /\ queue' = Sorted(Append(kept, new))
      /\ seen' = seen \cup {k}
      /\ durable' = durable \cap KeysOf(kept)
      /\ UNCHANGED <<running, active, disk, up>>

\* Mutant: the tier does not count at the cap.
EnqueueByScore(k) ==
  LET full == Len(queue) >= QueueMax
      kept == IF full THEN Front(queue) ELSE queue
  IN  /\ up /\ Eligible(k) /\ k \notin seen
      /\ full => Score[k] > Score[Last(queue).key]
      /\ queue' = Sorted(Append(kept, [key |-> k, retries |-> 0]))
      /\ seen' = (IF full THEN seen \ {Last(queue).key} ELSE seen) \cup {k}
      /\ durable' = durable \cap KeysOf(kept)
      /\ UNCHANGED <<running, active, disk, up>>

\* enqueueDeferred of an accepted item; at the cap the last one makes room.
Enqueue(k) ==
  LET new == [key |-> k, retries |-> 0]
      full == Len(queue) >= QueueMax
      kept == IF full THEN Front(queue) ELSE queue
  IN  /\ up /\ Eligible(k) /\ k \notin seen
      /\ full => Outranks(new, Last(queue))
      /\ queue' = Sorted(Append(kept, new))
      /\ seen' = (IF full THEN seen \ {Last(queue).key} ELSE seen) \cup {k}
      /\ durable' = durable \cap KeysOf(kept)
      /\ UNCHANGED <<running, active, disk, up>>

\* Mutant: one launch more than there are slots.
LaunchableOver(q) == Smaller(Slots + 1 - active, Len(q))

\* How many runs a tick starts.
Launchable(q) == Smaller(Slots - active, Len(q))

\* A worker tick: pruneExpired, then processDeferredBatch up to its awaits.
Tick ==
  /\ up
  /\ \E expired \in SUBSET DOMAIN queue :
       LET live == KeepAt(queue, DOMAIN queue \ expired)
           n == Launchable(live)
       IN  /\ queue' = SubSeq(live, n + 1, Len(live))
           /\ running' = running \o SubSeq(live, 1, n)
           /\ active' = active + n
           /\ seen' = seen \ (KeysOf(SubSeq(live, 1, n)) \cup
                                {queue[i].key : i \in expired})
           /\ durable' = durable \cap KeysOf(queue')
  /\ UNCHANGED <<disk, up>>

\* The sandbox run of running[i] returns.
Succeed(i) ==
  /\ up /\ i \in DOMAIN running
  /\ running' = RemoveAt(running, i)
  /\ active' = active - 1
  /\ UNCHANGED <<queue, seen, disk, up, durable>>

\* Mutant: a failed run keeps its slot.
FailLeaky(i) ==
  LET again == [running[i] EXCEPT !.retries = @ + 1]
      retry == again.retries < MaxRetries
  IN  /\ up /\ i \in DOMAIN running
      /\ running' = RemoveAt(running, i)
      /\ queue' = IF retry THEN Sorted(Append(queue, again)) ELSE queue
      /\ seen' = IF retry THEN seen \cup {again.key} ELSE seen
      /\ UNCHANGED <<active, disk, up, durable>>

\* It throws: queued again, whatever the queue holds by now, until its last retry.
Fail(i) ==
  LET again == [running[i] EXCEPT !.retries = @ + 1]
      retry == again.retries < MaxRetries
  IN  /\ up /\ i \in DOMAIN running
      /\ running' = RemoveAt(running, i)
      /\ active' = active - 1
      /\ queue' = IF retry THEN Sorted(Append(queue, again)) ELSE queue
      /\ seen' = IF retry THEN seen \cup {again.key} ELSE seen
      /\ UNCHANGED <<disk, up, durable>>

\* clearDeferredQueue, called by the memory breaker.
Clear ==
  /\ up
  /\ queue' = <<>>
  /\ seen' = {}
  /\ durable' = {}
  /\ UNCHANGED <<running, active, disk, up>>

-----------------------------------------------------------------------------
(* Persistence *)

\* persistDeferredQueue, every minute.
Persist ==
  /\ up
  /\ disk' = queue
  /\ durable' = KeysOf(queue)
  /\ UNCHANGED <<queue, seen, running, active, up>>

\* Mutant: the shutdown handler does not save the queue.
ShutdownUnsaved ==
  /\ up
  /\ up' = FALSE
  /\ queue' = <<>> /\ running' = <<>>
  /\ UNCHANGED <<seen, active, disk, durable>>

\* gracefulShutdown: the queue is saved; runs in flight end with the process.
Shutdown ==
  /\ up
  /\ up' = FALSE
  /\ disk' = queue
  /\ durable' = KeysOf(queue)
  /\ queue' = <<>> /\ running' = <<>>
  /\ UNCHANGED <<seen, active>>

\* A crash takes what is in memory only, the items of a snapshot deleted at its
\* restore included.
Crash ==
  /\ up /\ Crashes
  /\ up' = FALSE
  /\ queue' = <<>> /\ running' = <<>>
  /\ durable' = durable \cap KeysOf(disk)
  /\ UNCHANGED <<seen, active, disk>>

\* The entries of a snapshot that restoreDeferredQueue takes back.
Restorable(snapshot, expired) ==
  KeepAt(snapshot, {i \in DOMAIN snapshot \ expired :
                      \A j \in (1..(i - 1)) \ expired : snapshot[j].key # snapshot[i].key})

\* A new process: restoreDeferredQueue, which deletes the file.
Start ==
  /\ ~up
  /\ up' = TRUE
  /\ \E expired \in SUBSET DOMAIN disk :
       /\ queue' = Sorted(Restorable(disk, expired))
       /\ durable' = durable \ ({disk[i].key : i \in expired} \ KeysOf(queue'))
  /\ seen' = KeysOf(queue')
  /\ active' = 0
  /\ disk' = <<>>
  /\ UNCHANGED running

-----------------------------------------------------------------------------

Next ==
  \/ \E k \in Keys : Enqueue(k)
  \/ Tick
  \/ \E i \in DOMAIN running : Succeed(i) \/ Fail(i)
  \/ Clear \/ Persist
  \/ Shutdown \/ Crash \/ Start

Spec == Init /\ [][Next]_vars

\* The worker's interval timer fires for ever and a sandbox run ends at its deadline.
Fairness ==
  /\ WF_vars(Tick)
  /\ WF_vars(\E i \in DOMAIN running : Succeed(i) \/ Fail(i))

FairSpec == Spec /\ Fairness

-----------------------------------------------------------------------------
(* Properties *)

\* The eviction and the dispatcher both rely on the order of the queue.
QueueSorted == \A i, j \in DOMAIN queue : Outranks(queue[i], queue[j]) => i < j

\* No key is kept out of the queue by a dedup entry nobody will remove.
SeenIsQueued == up => seen \subseteq KeysOf(queue)

\* An item that failed MaxRetries times is not run again.
RetriesBounded ==
  \A q \in {queue, running, disk} : \A i \in DOMAIN q : q[i].retries < MaxRetries

\* What the handlers leave behind and rely on, through retries, restores and evictions.
QueueConsistent == QueueSorted /\ SeenIsQueued /\ RetriesBounded

\* A newcomer at the cap displaces one item, which it outranks and which outranks
\* no other.
EvictsLowest ==
  [][(running' = running /\ up' = up /\ queue' # queue /\ Len(queue') = Len(queue)) =>
       \E i \in DOMAIN queue, j \in DOMAIN queue' :
         /\ RemoveAt(queue, i) = RemoveAt(queue', j)
         /\ Outranks(queue'[j], queue[i])
         /\ \A k \in DOMAIN queue : ~Outranks(queue[i], queue[k])]_vars

\* A saved item that was never taken out of the queue since is still there after
\* any number of orderly restarts, and after a crash if the snapshot still is.
SavedIsKept == durable \subseteq (IF up THEN KeysOf(queue) ELSE KeysOf(disk))

\* The highest-ranked key gets its sandbox run, or expires: retries and newcomers
\* never hold it back for good.
Paramount(k) == \A j \in Keys \ {k} : Outranks([key |-> k], [key |-> j])
TopServed ==
  \A k \in {j \in Keys : Paramount(j)} :
    []<>(k \in KeysOf(running) \/ k \notin KeysOf(queue))

=============================================================================
