----------------------------- MODULE ScanLifecycle -----------------------------
(***************************************************************************)
(* What becomes of a publication between its ingestion and its ledger      *)
(* entry: the worker loops of src/src/monitor/queue.js, and the memory     *)
(* emergencies, snapshots, shutdowns and restarts of                       *)
(* src/src/monitor/daemon.js.  Which item leaves the queue first, the cap  *)
(* of the queue and the format of the backlog file are in ScanQueue; how   *)
(* the lane admits a heavy scan is in HeavyLane.  The queue, the backlog   *)
(* and the snapshot are sets of items; a restart comes within the 24 hours *)
(* a snapshot is valid.                                                    *)
(***************************************************************************)
EXTENDS Naturals, FiniteSets

CONSTANTS Pubs,          \* publications seen by the ingestion
          Keys, KeyOf,   \* ecosystem/name@version of each, the dedup key
          HeavyPubs,     \* publications whose scan is heavy
          Lanes,         \* worker loops, the target concurrency
          Free, Off,     \* a loop that may take an item; one that is over
          HeavyMax,      \* HEAVY_REQUEUE_MAX
          MaxInterrupts, \* the 2 of computeInterruptDisposition
          ExtractPool,   \* whether extraction threads are alive at a shutdown
          MaxCrashes     \* bound: deaths of the process without its shutdown handler

ASSUME LifecycleAssumption ==
  /\ KeyOf \in [Pubs -> Keys] /\ HeavyPubs \subseteq Pubs
  /\ IsFiniteSet(Lanes) /\ HeavyMax \in Nat /\ MaxInterrupts \in Nat
  /\ ExtractPool \in BOOLEAN /\ MaxCrashes \in Nat

VARIABLES scanQueue,
          lane,        \* what each worker loop does; with _inFlightItems
          zombies,     \* keys of the scans that ran out of time while resolving
          scanned,     \* recentlyScanned
          backlog,     \* items of scan-backlog.jsonl
          queueFile,   \* items of QUEUE_STATE_FILE
          recentFile,  \* keys of RECENTLY_SCANNED_FILE
          phase,       \* of the process
          seen,        \* history: publications ingested
          outcome,     \* history: what has become of each publication
          waited,      \* history: keys of the versions requeued by a wait timeout
          crashes,     \* history: how many crashes
          exposed      \* history: keys of the versions a crash has put at risk

lifeVars == <<scanQueue, lane, zombies, scanned, backlog, queueFile, recentFile, phase,
              seen, outcome, waited, crashes, exposed>>
disk == <<backlog, queueFile, recentFile>>
history == <<seen, outcome, waited, crashes, exposed>>

Item == [pub : Pubs, heavy : 0..HeavyMax, interrupts : 0..(MaxInterrupts + 1)]
Stages == {"resolving", "waiting", "static", "killed", "after"}
Scan == [item : Item, stage : Stages]

ASSUME LoopAssumption == Free \notin Scan /\ Off \notin Scan

\* "deduped": a worker or the drain took it for a duplicate.  "ended": a terminal entry
\* of the scan ledger (a result, an error, an interruption that could not be spilled, a
\* drop), an error counted by recordError, a version without a tarball, or a tarball
\* over MAX_TARBALL_SIZE, which is counted as scanned and has no ledger entry.
Outcomes == {"open", "deduped", "ended"}

LifecycleTypeOK ==
  /\ scanQueue \subseteq Item /\ backlog \subseteq Item /\ queueFile \subseteq Item
  /\ lane \in [Lanes -> Scan \cup {Off, Free}]
  /\ zombies \subseteq Keys
  /\ scanned \subseteq Keys /\ recentFile \subseteq Keys
  /\ crashes \in 0..MaxCrashes
  /\ phase \in {"up", "draining", "stopping", "saved", "down"}
  /\ seen \subseteq Pubs /\ waited \subseteq Keys /\ exposed \subseteq Keys
  /\ outcome \in [Pubs -> Outcomes]

LifecycleInit ==
  /\ scanQueue = {} /\ backlog = {} /\ queueFile = {} /\ zombies = {}
  /\ lane = [w \in Lanes |-> Free]
  /\ scanned = {} /\ recentFile = {}
  /\ phase = "up"
  /\ seen = {} /\ waited = {} /\ exposed = {} /\ crashes = 0
  /\ outcome = [p \in Pubs |-> "open"]

Busy == {w \in Lanes : lane[w] \notin {Off, Free}}
KeyIn(i) == KeyOf[i.pub]
PubsOf(S) == {i.pub : i \in S}
KeysOf(S) == {KeyIn(i) : i \in S}

Ended(S) == [p \in Pubs |-> IF p \in S THEN "ended" ELSE outcome[p]]
Deduped(S) == [p \in Pubs |-> IF p \in S /\ outcome[p] = "open" THEN "deduped" ELSE outcome[p]]

\* The event loop turns: always, except in the synchronous end of the shutdown, which
\* only the termination of extraction threads suspends.
Running == phase \in {"up", "draining", "saved"} \/ (phase = "stopping" /\ ExtractPool)

-----------------------------------------------------------------------------
(* A scan *)

Publish(p) ==
  /\ phase = "up" /\ p \notin seen
  /\ seen' = seen \cup {p}
  /\ scanQueue' = scanQueue \cup {[pub |-> p, heavy |-> 0, interrupts |-> 0]}
  /\ UNCHANGED <<lane, zombies, scanned, disk, phase, outcome, waited, crashes, exposed>>

\* A loop takes an item.  ensureWorkers starts new loops only while the monitor runs,
\* but a loop goes on during a shutdown.
Dequeue(w, i) ==
  /\ Running /\ i \in scanQueue /\ lane[w] = Free
  /\ scanQueue' = scanQueue \ {i}
  /\ lane' = [lane EXCEPT ![w] = [item |-> i, stage |-> "resolving"]]
  /\ UNCHANGED <<zombies, scanned, disk, phase, history>>

\* A loop ends: the queue is empty, the target has shrunk, or the memory governor is
\* frozen.  While the monitor runs, another takes its place.
Retire(w) ==
  /\ Running /\ phase # "up" /\ lane[w] = Free
  /\ lane' = [lane EXCEPT ![w] = Off]
  /\ UNCHANGED <<scanQueue, zombies, scanned, disk, phase, history>>

At(w, stages) == Running /\ w \in Busy /\ lane[w].stage \in stages

ToStage(w, stage) == lane' = [lane EXCEPT ![w].stage = stage]

\* processQueueItem returns.
Done(w) == lane' = [lane EXCEPT ![w] = Free]

\* The tarball is resolved: the dedup.
Resolve(w) ==
  /\ At(w, {"resolving"}) /\ KeyIn(lane[w].item) \notin scanned
  /\ scanned' = scanned \cup {KeyIn(lane[w].item)}
  /\ ToStage(w, "waiting")
  /\ UNCHANGED <<scanQueue, zombies, disk, phase, history>>

Skip(w) ==
  /\ At(w, {"resolving"}) /\ KeyIn(lane[w].item) \in scanned
  /\ Done(w)
  /\ outcome' = Deduped({lane[w].item.pub})
  /\ UNCHANGED <<scanQueue, zombies, scanned, disk, phase, seen, waited, crashes, exposed>>

\* The registry fails, or knows no tarball.
ResolveFails(w) ==
  /\ At(w, {"resolving"})
  /\ Done(w)
  /\ outcome' = Ended({lane[w].item.pub})
  /\ UNCHANGED <<scanQueue, zombies, scanned, disk, phase, seen, waited, crashes, exposed>>

Admit(w) ==
  /\ At(w, {"waiting"})
  /\ ToStage(w, "static")
  /\ UNCHANGED <<scanQueue, zombies, scanned, disk, phase, history>>

\* Mutant: the last pass is bounded like the others, and requeued again.
WaitTimeoutOnceMore(w) ==
  LET i == lane[w].item
  IN  /\ At(w, {"waiting"}) /\ i.pub \in HeavyPubs /\ i.heavy <= HeavyMax
      /\ scanQueue' = scanQueue \cup {[i EXCEPT !.heavy = @ + 1]}
      /\ Done(w)
      /\ waited' = waited \cup {KeyIn(i)}
      /\ UNCHANGED <<zombies, scanned, disk, phase, seen, outcome, crashes, exposed>>

\* The bounded wait for the heavy lane or a memory ticket ends: requeued.
WaitTimeout(w) ==
  LET i == lane[w].item
  IN  /\ At(w, {"waiting"}) /\ i.pub \in HeavyPubs /\ i.heavy < HeavyMax
      /\ scanQueue' = scanQueue \cup {[i EXCEPT !.heavy = @ + 1]}
      /\ Done(w)
      /\ waited' = waited \cup {KeyIn(i)}
      /\ UNCHANGED <<zombies, scanned, disk, phase, seen, outcome, crashes, exposed>>

\* The static result arrives, even from a worker that was told to terminate.
StaticDone(w) ==
  /\ At(w, {"static", "killed"})
  /\ ToStage(w, "after")
  /\ UNCHANGED <<scanQueue, zombies, scanned, disk, phase, history>>

\* scanPackage returns: a result, a size skip, a static timeout, an error, all ledgered,
\* or a tarball over the size limit.
ScanEnds(w) ==
  /\ At(w, Stages \ {"resolving"})
  /\ Done(w)
  /\ outcome' = Ended({lane[w].item.pub})
  /\ UNCHANGED <<scanQueue, zombies, scanned, disk, phase, seen, waited, crashes, exposed>>

\* computeInterruptDisposition, and what spillItems keeps of the item.
Again(i) == [i EXCEPT !.interrupts = @ + 1]

GivenUp(i) == Again(i).interrupts > MaxInterrupts

\* Mutant: the interruption count is not among the fields of a backlog line.
SpilledAnew(i) == [i EXCEPT !.heavy = 0, !.interrupts = 0]

Spilled(i) == [Again(i) EXCEPT !.heavy = 0]

\* The worker that was terminated exits.
Interrupted(w) ==
  LET i == lane[w].item
  IN  /\ At(w, {"killed"})
      /\ scanned' = scanned \ {KeyIn(i)}
      /\ Done(w)
      /\ \/ /\ GivenUp(i)
            /\ outcome' = Ended({i.pub})
            /\ UNCHANGED backlog
         \/ /\ ~GivenUp(i)
            /\ backlog' = backlog \cup {Spilled(i)}
            /\ UNCHANGED outcome
         \/ /\ ~GivenUp(i)     \* spill off, or its write failed
            /\ outcome' = Ended({i.pub})
            /\ UNCHANGED backlog
      /\ UNCHANGED <<scanQueue, zombies, queueFile, recentFile, phase, seen, waited,
                     crashes, exposed>>

\* SCAN_TIMEOUT_MS: the loop goes on, the scan ends in the background.
Timeout(w) ==
  /\ Running /\ w \in Busy
  /\ zombies' = zombies \cup (IF lane[w].stage = "resolving" THEN {KeyIn(lane[w].item)} ELSE {})
  /\ Done(w)
  /\ outcome' = Ended({lane[w].item.pub})
  /\ UNCHANGED <<scanQueue, scanned, disk, phase, seen, waited, crashes, exposed>>

\* It stops at its next abort check, after the dedup.  (A scan that ran out of time
\* later only adds an error to the ledger.)
ZombieEnds(k) ==
  /\ Running /\ k \in zombies
  /\ zombies' = zombies \ {k}
  /\ scanned' = scanned \cup {k}
  /\ UNCHANGED <<scanQueue, lane, disk, phase, history>>

-----------------------------------------------------------------------------
(* The daemon's loop *)

\* The dedup set is cleared: the daily report, the hourly prune, memory pressure HIGH.
Prune ==
  /\ Running
  /\ scanned' = {}
  /\ UNCHANGED <<scanQueue, lane, zombies, disk, phase, history>>

\* Memory EMERGENCY: the queue is cut, and every live scan worker is told to terminate.
MemoryEmergency ==
  /\ phase = "up"
  /\ scanned' = {}
  /\ lane' = [w \in Lanes |-> IF w \in Busy /\ lane[w].stage = "static"
                              THEN [lane[w] EXCEPT !.stage = "killed"] ELSE lane[w]]
  /\ \E S \in SUBSET scanQueue :
       /\ scanQueue' = scanQueue \ S
       /\ \/ /\ backlog' = backlog \cup {[i EXCEPT !.heavy = 0] : i \in S}
             /\ UNCHANGED outcome
          \/ /\ outcome' = Ended(PubsOf(S))
             /\ UNCHANGED backlog
  /\ UNCHANGED <<zombies, queueFile, recentFile, phase, seen, waited, crashes, exposed>>

\* drainBacklog, with the daemon's isDuplicate.
DrainBacklog(batch) ==
  LET known == scanned \cup KeysOf(scanQueue)
      stale == {i \in batch : KeyIn(i) \in known}
  IN  /\ phase = "up" /\ batch # {}
      /\ scanQueue' = scanQueue \cup (batch \ stale)
      /\ backlog' = backlog \ batch
      /\ outcome' = Deduped(PubsOf(stale))
      /\ UNCHANGED <<lane, zombies, scanned, queueFile, recentFile, phase, seen, waited,
                     crashes, exposed>>

\* The save after a poll, and the save of the minute timer.  Only a crash reads them:
\* a shutdown overwrites both files.
Persist ==
  /\ phase = "up" /\ crashes < MaxCrashes
  /\ queueFile' = scanQueue
  /\ recentFile' \in {recentFile, scanned}
  /\ UNCHANGED <<scanQueue, lane, zombies, scanned, backlog, phase, history>>

-----------------------------------------------------------------------------
(* Shutdown and restart *)

BeginShutdown ==
  /\ phase = "up"
  /\ phase' = "draining"
  /\ lane' = [w \in Lanes |-> IF w \in Busy THEN lane[w] ELSE Off]
  /\ UNCHANGED <<scanQueue, zombies, scanned, disk, history>>

\* Mutant: the keys stay in the dedup set, so the next process drops the spilled copies.
SpillLeftoversKnown ==
  LET left == {lane[w].item : w \in Busy}
      lost == {i \in left : GivenUp(i)}
  IN  /\ phase = "draining"
      /\ phase' = "stopping"
      /\ lane' = [w \in Lanes |-> IF w \in Busy THEN [lane[w] EXCEPT !.item = Again(@)]
                                  ELSE lane[w]]
      /\ backlog' = backlog \cup {Spilled(i) : i \in left \ lost}
      /\ outcome' = Ended(PubsOf(lost))
      /\ UNCHANGED <<scanQueue, zombies, scanned, queueFile, recentFile, seen, waited,
                     crashes, exposed>>

\* The drain's time is over, or the loops are: what is in flight is spilled, with its
\* retry counted on the item itself.
SpillLeftovers ==
  LET left == {lane[w].item : w \in Busy}
      lost == {i \in left : GivenUp(i)}
  IN  /\ phase = "draining"
      /\ phase' = "stopping"
      /\ lane' = [w \in Lanes |-> IF w \in Busy THEN [lane[w] EXCEPT !.item = Again(@)]
                                  ELSE lane[w]]
      /\ scanned' = scanned \ KeysOf(left)
      /\ \/ /\ backlog' = backlog \cup {Spilled(i) : i \in left \ lost}
            /\ outcome' = Ended(PubsOf(lost))
         \/ /\ outcome' = Ended(PubsOf(left))
            /\ UNCHANGED backlog
      /\ UNCHANGED <<scanQueue, zombies, queueFile, recentFile, seen, waited, crashes, exposed>>

SaveAll ==
  /\ phase = "stopping"
  /\ phase' = "saved"
  /\ queueFile' = scanQueue
  /\ recentFile' = scanned
  /\ UNCHANGED <<scanQueue, lane, zombies, scanned, backlog, history>>

MemoryLost ==
  /\ scanQueue' = {} /\ zombies' = {} /\ scanned' = {}
  /\ lane' = [w \in Lanes |-> Free]
  /\ phase' = "down"
  /\ UNCHANGED disk

Exit == phase = "saved" /\ MemoryLost /\ UNCHANGED history

\* A crash puts at risk what is in memory only, and what is on disk under a key that
\* the saved dedup set holds already.
Crash ==
  LET kept == {i \in queueFile \cup backlog : KeyIn(i) \notin recentFile}
      items == scanQueue \cup backlog \cup queueFile \cup {lane[w].item : w \in Busy}
  IN  /\ phase # "down" /\ crashes < MaxCrashes
      /\ crashes' = crashes + 1
      /\ exposed' = exposed \cup (KeysOf(items) \ KeysOf(kept))
      /\ MemoryLost
      /\ UNCHANGED <<seen, outcome, waited>>

\* The next process: restoreQueue, which deletes its file, and loadRecentlyScanned.
Restart ==
  /\ phase = "down"
  /\ phase' = "up"
  /\ scanQueue' = queueFile
  /\ queueFile' = {}
  /\ scanned' = recentFile
  /\ UNCHANGED <<lane, zombies, backlog, recentFile, history>>

-----------------------------------------------------------------------------

Pass(w) ==
  \/ Resolve(w) \/ Skip(w) \/ ResolveFails(w) \/ Admit(w) \/ WaitTimeout(w)
  \/ StaticDone(w) \/ ScanEnds(w) \/ Interrupted(w) \/ Timeout(w)

LifecycleNext ==
  \/ \E p \in Pubs : Publish(p)
  \/ \E w \in Lanes : Pass(w) \/ Retire(w) \/ \E i \in scanQueue : Dequeue(w, i)
  \/ \E k \in zombies : ZombieEnds(k)
  \/ Prune \/ MemoryEmergency \/ Persist
  \/ \E batch \in SUBSET backlog : DrainBacklog(batch)
  \/ BeginShutdown \/ SpillLeftovers \/ SaveAll \/ Exit \/ Crash \/ Restart

LifecycleSpec == LifecycleInit /\ [][LifecycleNext]_lifeVars

\* A scan goes on or runs out of time; a shutdown ends and the service manager starts
\* the next process.  Emergencies and shutdowns may come for ever, as long as a calm
\* between them lets every item out of the backlog and of the queue again and again.
LifecycleFairness ==
  /\ \A w \in Lanes : WF_lifeVars(Pass(w))
  /\ \A p \in Pubs :
       /\ SF_lifeVars(\E w \in Lanes, i \in scanQueue : i.pub = p /\ Dequeue(w, i))
       /\ SF_lifeVars(\E batch \in SUBSET backlog : p \in PubsOf(batch) /\ DrainBacklog(batch))
  /\ WF_lifeVars(SpillLeftovers) /\ WF_lifeVars(SaveAll)
  /\ WF_lifeVars(Exit) /\ WF_lifeVars(Restart)

LifecycleFairSpec == LifecycleSpec /\ LifecycleFairness

-----------------------------------------------------------------------------
(* Properties *)

Held ==
  scanQueue \cup backlog \cup {lane[w].item : w \in Busy}
        \cup (IF phase = "down" THEN queueFile ELSE {})

\* The version of p was scanned, given up in the ledger, counted as an error or as too
\* large, or will be.
Accounted(p) ==
  \/ \E q \in Pubs : KeyOf[q] = KeyOf[p] /\ outcome[q] = "ended"
  \/ \E i \in Held : KeyIn(i) = KeyOf[p]

\* No version vanishes, whatever kills, timeouts, restarts and duplicates it meets,
\* unless it was requeued by a wait timeout; a crash loses no more than it puts at risk.
NoVersionLost == \A p \in seen : KeyOf[p] \notin exposed \cup waited => Accounted(p)

\* Whatever crash, kill, wait or restart it meets, a version is scanned, ledgered or kept
\* for later, and an item that is kept keeps its retry counts within their bounds.
VersionsAccounted == LifecycleTypeOK /\ NoVersionLost

\* Nor does a version that the heavy lane or the memory governor made wait.
RequeuedIsKept == \A p \in seen : KeyOf[p] \notin exposed => Accounted(p)

\* Without heavy publications, every publication comes to an end, although kills,
\* evictions and restarts never do.
Settles == \A p \in Pubs : []<>(p \notin PubsOf(Held))

=============================================================================
