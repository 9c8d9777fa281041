------------------------- MODULE ScanLifecycleProofs -------------------------
(***************************************************************************)
(* Proofs about ScanLifecycle, for every set of publications and of worker *)
(* loops and every bound, when no extraction thread is alive at a shutdown *)
(* (~ExtractPool: with one, the run lifecycle_shutdown loses a version).   *)
(*                                                                         *)
(* TypeInv strengthens the type invariant: the count of interruptions can  *)
(* exceed its bound only in the item that a shutdown leaves in a loop.     *)
(* KeyInv is what NoVersionLost needs.  A publication is dropped when its  *)
(* key is in recentlyScanned, so every key there has to be the key of a    *)
(* version that is safe, or that a loop is scanning; the keys of the saved *)
(* set have to be safe once the process is down, whose loops are gone; and *)
(* what a loop still holds when the state is saved has to be on the disk.  *)
(*                                                                         *)
(* The last section is about WorkerPool, which decides how many of those   *)
(* loops there are, for every bound, step, threshold and cap.              *)
(***************************************************************************)
EXTENDS ScanLifecycle, WorkerPool, TLAPS

-----------------------------------------------------------------------------
(* Type correctness *)

\* computeInterruptDisposition writes no item that is past its last retry; only the
\* items that a shutdown counts in place are.
RetriesBounded ==
  /\ \A i \in backlog \cup queueFile : i.interrupts <= MaxInterrupts
  /\ phase # "saved" => \A i \in scanQueue : i.interrupts <= MaxInterrupts
  /\ phase \in {"up", "draining"} =>
       \A w \in Busy : lane[w].item.interrupts <= MaxInterrupts

\* Between two processes nothing is in memory.
DownIsEmpty == phase = "down" => scanQueue = {} /\ zombies = {} /\ scanned = {} /\ Busy = {}

TypeInv == LifecycleTypeOK /\ RetriesBounded /\ DownIsEmpty

LEMMA InitTypeInv == LifecycleInit => TypeInv
BY LifecycleAssumption
   DEF LifecycleInit, TypeInv, LifecycleTypeOK, RetriesBounded, DownIsEmpty, Busy, Outcomes,
       LifecycleAssumption

\* Both ways to close publications keep the type of the history.
LEMMA EndedType ==
  ASSUME outcome \in [Pubs -> Outcomes], NEW S
  PROVE  Ended(S) \in [Pubs -> Outcomes] /\ Deduped(S) \in [Pubs -> Outcomes]
BY DEF Ended, Deduped, Outcomes

\* A busy loop has an item.
LEMMA BusyLane ==
  ASSUME LifecycleTypeOK, NEW w \in Busy
  PROVE  /\ lane[w] \in Scan
         /\ lane[w].item \in Item
         /\ lane[w].item.pub \in Pubs
         /\ KeyIn(lane[w].item) \in Keys
BY LifecycleAssumption DEF LifecycleTypeOK, Busy, Scan, Item, KeyIn, LifecycleAssumption

\* A scan that goes on changes its stage and nothing else, ...
LEMMA StageFacts ==
  ASSUME LifecycleTypeOK, NEW w \in Busy, NEW s \in Stages, ToStage(w, s)
  PROVE  /\ lane' \in [Lanes -> Scan \cup {Off, Free}]
         /\ Busy' = Busy
         /\ \A u \in Busy : lane'[u].item = lane[u].item
         /\ \A u \in Lanes \ {w} : lane'[u] = lane[u]
         /\ lane'[w].stage = s
<1>1. lane[w] \in Scan /\ w \in Lanes
  BY BusyLane DEF Busy
<1>2. [lane[w] EXCEPT !.stage = s] \in Scan
  BY <1>1 DEF Scan
<1>3. lane' = [lane EXCEPT ![w] = [lane[w] EXCEPT !.stage = s]]
  BY DEF ToStage
<1>4. lane' \in [Lanes -> Scan \cup {Off, Free}]
  BY <1>2, <1>3 DEF LifecycleTypeOK
<1>5. lane'[w] = [lane[w] EXCEPT !.stage = s] /\ \A u \in Lanes \ {w} : lane'[u] = lane[u]
  BY <1>1, <1>3 DEF LifecycleTypeOK
<1>6. Busy' = Busy
  BY <1>1, <1>2, <1>5, LoopAssumption DEF Busy
<1>7. lane'[w].item = lane[w].item /\ lane'[w].stage = s
  BY <1>1, <1>5 DEF Scan
<1> QED
  BY <1>4, <1>5, <1>6, <1>7 DEF Busy

\* ... and one that ends frees its loop and no other.
LEMMA DoneFacts ==
  ASSUME LifecycleTypeOK, NEW w \in Lanes, Done(w)
  PROVE  /\ lane' \in [Lanes -> Scan \cup {Off, Free}]
         /\ Busy' = Busy \ {w}
         /\ \A u \in Busy' : lane'[u] = lane[u]
BY DEF Done, LifecycleTypeOK, Busy

\* What a requeue and a spill make of an item.
LEMMA ItemFacts ==
  ASSUME NEW i \in Item
  PROVE  /\ i.heavy < HeavyMax => [i EXCEPT !.heavy = @ + 1] \in Item
         /\ [i EXCEPT !.heavy = 0] \in Item
         /\ [i EXCEPT !.heavy = 0].interrupts = i.interrupts
         /\ i.heavy < HeavyMax => [i EXCEPT !.heavy = @ + 1].interrupts = i.interrupts
<1> USE LifecycleAssumption DEF LifecycleAssumption, Item
<1>1. i.heavy \in 0..HeavyMax /\ i.interrupts \in 0..(MaxInterrupts + 1)
  OBVIOUS
<1>2. i.heavy < HeavyMax => i.heavy + 1 \in 0..HeavyMax
  BY <1>1
<1>3. 0 \in 0..HeavyMax
  OBVIOUS
<1> QED
  BY <1>1, <1>2, <1>3

\* An item below its bound can be counted once more, and one that is not given up is
\* spilled within the bound.
LEMMA AgainFacts ==
  ASSUME NEW i \in Item
  PROVE  /\ i.interrupts <= MaxInterrupts => Again(i) \in Item
         /\ ~GivenUp(i) => /\ Spilled(i) \in Item
                           /\ Spilled(i).interrupts <= MaxInterrupts
<1> USE LifecycleAssumption DEF LifecycleAssumption
<1>1. /\ i.interrupts \in 0..(MaxInterrupts + 1)
      /\ Again(i).interrupts = i.interrupts + 1
  BY DEF Item, Again
<1>2. i.interrupts <= MaxInterrupts => Again(i) \in Item
  <2>1. i.interrupts <= MaxInterrupts => i.interrupts + 1 \in 0..(MaxInterrupts + 1)
    BY <1>1
  <2> QED
    BY <2>1 DEF Item, Again
<1>3. GivenUp(i) <=> i.interrupts + 1 > MaxInterrupts
  BY <1>1 DEF GivenUp
<1>4. ASSUME ~GivenUp(i) PROVE Spilled(i) \in Item /\ Spilled(i).interrupts = i.interrupts + 1
  <2>1. Again(i) \in Item
    BY <1>1, <1>2, <1>3, <1>4
  <2>2. Spilled(i) \in Item /\ Spilled(i).interrupts = Again(i).interrupts
    BY <2>1, ItemFacts DEF Spilled
  <2> QED
    BY <2>2, <1>1
<1> QED
  BY <1>1, <1>2, <1>3, <1>4

LEMMA KeysType ==
  ASSUME NEW S \in SUBSET Item
  PROVE  KeysOf(S) \subseteq Keys
BY LifecycleAssumption DEF KeysOf, KeyIn, Item, LifecycleAssumption

\* An emergency takes no item from a loop, ...
LEMMA EmergencyLanes ==
  ASSUME LifecycleTypeOK,
         lane' = [w \in Lanes |-> IF w \in Busy /\ lane[w].stage = "static"
                                  THEN [lane[w] EXCEPT !.stage = "killed"] ELSE lane[w]]
  PROVE  /\ lane' \in [Lanes -> Scan \cup {Off, Free}]
         /\ Busy' = Busy
         /\ \A w \in Busy : /\ lane'[w].item = lane[w].item
                            /\ lane[w].stage # "resolving" => lane'[w].stage # "resolving"
<1>1. ASSUME NEW w \in Busy
      PROVE  /\ [lane[w] EXCEPT !.stage = "killed"] \in Scan
             /\ [lane[w] EXCEPT !.stage = "killed"].item = lane[w].item
             /\ [lane[w] EXCEPT !.stage = "killed"].stage = "killed"
  BY BusyLane DEF Scan, Stages
<1>2. lane' \in [Lanes -> Scan \cup {Off, Free}]
  BY <1>1 DEF LifecycleTypeOK
<1>3. Busy' = Busy
  BY <1>1, <1>2, LoopAssumption DEF Busy
<1> QED
  BY <1>1, <1>2, <1>3 DEF Busy

\* ... and the shutdown counts its interruption on each.
LEMMA LeftoverLanes ==
  ASSUME LifecycleTypeOK, \A w \in Busy : lane[w].item.interrupts <= MaxInterrupts,
         lane' = [w \in Lanes |-> IF w \in Busy THEN [lane[w] EXCEPT !.item = Again(@)]
                                  ELSE lane[w]]
  PROVE  /\ lane' \in [Lanes -> Scan \cup {Off, Free}]
         /\ Busy' = Busy
         /\ \A w \in Busy : lane'[w].item = Again(lane[w].item)
<1>1. ASSUME NEW w \in Busy
      PROVE  /\ [lane[w] EXCEPT !.item = Again(@)] \in Scan
             /\ [lane[w] EXCEPT !.item = Again(@)].item = Again(lane[w].item)
  <2>1. lane[w] \in Scan /\ Again(lane[w].item) \in Item
    BY BusyLane, AgainFacts
  <2> QED
    BY <2>1 DEF Scan
<1>2. lane' \in [Lanes -> Scan \cup {Off, Free}]
  BY <1>1 DEF LifecycleTypeOK
<1>3. Busy' = Busy
  BY <1>1, <1>2, LoopAssumption DEF Busy
<1> QED
  BY <1>1, <1>2, <1>3 DEF Busy

LEMMA TypeStep ==
  ASSUME ~ExtractPool, TypeInv, [LifecycleNext]_lifeVars
  PROVE  TypeInv'
<1> USE LifecycleAssumption DEF TypeInv
<1>1. ASSUME NEW p \in Pubs, Publish(p) PROVE TypeInv'
  BY <1>1
     DEF Publish, LifecycleTypeOK, RetriesBounded, DownIsEmpty, Busy, Item,
         LifecycleAssumption, disk
<1>2. ASSUME NEW w \in Lanes, NEW i \in scanQueue, Dequeue(w, i) PROVE TypeInv'
  BY <1>2
     DEF Dequeue, Running, LifecycleTypeOK, RetriesBounded, DownIsEmpty, Busy, Scan, Stages,
         LifecycleAssumption, disk, history
<1>3. ASSUME NEW w \in Lanes, Retire(w) PROVE TypeInv'
  BY <1>3
     DEF Retire, Running, LifecycleTypeOK, RetriesBounded, DownIsEmpty, Busy, disk, history
<1>4. ASSUME NEW w \in Lanes, Resolve(w) PROVE TypeInv'
  <2> USE <1>4 DEF Resolve, At, Running
  <2>1. ToStage(w, "waiting") /\ "waiting" \in Stages
    BY DEF Stages
  <2> QED
    BY <2>1, StageFacts, BusyLane
       DEF LifecycleTypeOK, RetriesBounded, DownIsEmpty, disk, history
<1>5. ASSUME NEW w \in Lanes, Skip(w) \/ ResolveFails(w) \/ ScanEnds(w) PROVE TypeInv'
  <2> USE <1>5 DEF Skip, ResolveFails, ScanEnds, At, Running
  <2>1. Done(w) /\ outcome' \in [Pubs -> Outcomes]
    BY EndedType DEF LifecycleTypeOK
  <2> QED
    BY <2>1, DoneFacts DEF LifecycleTypeOK, RetriesBounded, DownIsEmpty, disk, history
<1>6. ASSUME NEW w \in Lanes, Admit(w) PROVE TypeInv'
  <2> USE <1>6 DEF Admit, At, Running
  <2>1. ToStage(w, "static") /\ "static" \in Stages
    BY DEF Stages
  <2> QED
    BY <2>1, StageFacts, BusyLane
       DEF LifecycleTypeOK, RetriesBounded, DownIsEmpty, disk, history
<1>7. ASSUME NEW w \in Lanes, StaticDone(w) PROVE TypeInv'
  <2> USE <1>7 DEF StaticDone, At, Running
  <2>1. ToStage(w, "after") /\ "after" \in Stages
    BY DEF Stages
  <2> QED
    BY <2>1, StageFacts, BusyLane
       DEF LifecycleTypeOK, RetriesBounded, DownIsEmpty, disk, history
<1>8. ASSUME NEW w \in Lanes, WaitTimeout(w) PROVE TypeInv'
  <2> USE <1>8 DEF WaitTimeout, At, Running
  <2> DEFINE i == lane[w].item
             again == [i EXCEPT !.heavy = @ + 1]
  <2>1. i \in Item /\ KeyIn(i) \in Keys
    BY BusyLane
  <2>2. again \in Item /\ again.interrupts = i.interrupts
    BY <2>1, ItemFacts
  <2>3. Done(w) /\ scanQueue' = scanQueue \cup {again} /\ waited' = waited \cup {KeyIn(i)}
    OBVIOUS
  <2> HIDE DEF i, again
  <2>4. i = lane[w].item
    BY DEF i
  <2> QED
    BY <2>1, <2>2, <2>3, <2>4, DoneFacts DEF LifecycleTypeOK, RetriesBounded, DownIsEmpty, disk
<1>9. ASSUME NEW w \in Lanes, Interrupted(w) PROVE TypeInv'
  <2> USE <1>9 DEF Interrupted, At, Running
  <2>1. lane[w].item \in Item
    BY BusyLane
  <2>2. backlog' = backlog \/ /\ ~GivenUp(lane[w].item)
                              /\ backlog' = backlog \cup {Spilled(lane[w].item)}
    OBVIOUS
  <2>3. /\ backlog' \subseteq Item
        /\ \A j \in backlog' : j.interrupts <= MaxInterrupts
    BY <2>1, <2>2, AgainFacts DEF LifecycleTypeOK, RetriesBounded
  <2>4. Done(w) /\ outcome' \in [Pubs -> Outcomes] /\ scanned' \subseteq scanned
    BY EndedType DEF LifecycleTypeOK
  <2> QED
    BY <2>3, <2>4, DoneFacts DEF LifecycleTypeOK, RetriesBounded, DownIsEmpty
<1>10. ASSUME NEW w \in Lanes, Timeout(w) PROVE TypeInv'
  <2> USE <1>10 DEF Timeout, Running
  <2>1. KeyIn(lane[w].item) \in Keys
    BY BusyLane
  <2>2. Done(w) /\ outcome' \in [Pubs -> Outcomes]
    BY EndedType DEF LifecycleTypeOK
  <2> QED
    BY <2>1, <2>2, DoneFacts DEF LifecycleTypeOK, RetriesBounded, DownIsEmpty, disk
<1>11. ASSUME NEW k \in zombies, ZombieEnds(k) PROVE TypeInv'
  BY <1>11
     DEF ZombieEnds, Running, LifecycleTypeOK, RetriesBounded, DownIsEmpty, Busy, disk, history
<1>12. CASE Prune \/ Persist
  BY <1>12
     DEF Prune, Persist, Running, LifecycleTypeOK, RetriesBounded, DownIsEmpty, Busy, disk,
         history
<1>13. CASE MemoryEmergency
  <2> USE <1>13
  <2>1. /\ lane' \in [Lanes -> Scan \cup {Off, Free}] /\ Busy' = Busy
        /\ \A w \in Busy : lane'[w].item = lane[w].item
    BY EmergencyLanes DEF MemoryEmergency
  <2>2. PICK S \in SUBSET scanQueue :
          /\ scanQueue' = scanQueue \ S
          /\ \/ /\ backlog' = backlog \cup {[i EXCEPT !.heavy = 0] : i \in S}
                /\ UNCHANGED outcome
             \/ /\ outcome' = Ended(PubsOf(S))
                /\ UNCHANGED backlog
    BY DEF MemoryEmergency
  <2>3. outcome' \in [Pubs -> Outcomes]
    BY <2>2, EndedType DEF LifecycleTypeOK
  <2>4. \A i \in S : /\ [i EXCEPT !.heavy = 0] \in Item
                    /\ [i EXCEPT !.heavy = 0].interrupts <= MaxInterrupts
    BY ItemFacts DEF LifecycleTypeOK, RetriesBounded, MemoryEmergency
  <2>5. backlog' \subseteq Item /\ \A i \in backlog' : i.interrupts <= MaxInterrupts
    BY <2>2, <2>4 DEF LifecycleTypeOK, RetriesBounded
  <2> QED
    BY <2>1, <2>2, <2>3, <2>5 DEF MemoryEmergency, LifecycleTypeOK, RetriesBounded, DownIsEmpty
<1>14. ASSUME NEW batch \in SUBSET backlog, DrainBacklog(batch) PROVE TypeInv'
  <2>1. outcome' \in [Pubs -> Outcomes]
    BY <1>14, EndedType DEF DrainBacklog, LifecycleTypeOK
  <2> QED
    BY <1>14, <2>1 DEF DrainBacklog, LifecycleTypeOK, RetriesBounded, DownIsEmpty, Busy
<1>15. CASE BeginShutdown
  BY <1>15 DEF BeginShutdown, LifecycleTypeOK, RetriesBounded, DownIsEmpty, Busy, disk, history
<1>16. CASE SpillLeftovers
  <2> USE <1>16
  <2> DEFINE left == {lane[w].item : w \in Busy}
             lost == {i \in left : GivenUp(i)}
             spilled == {Spilled(i) : i \in left \ lost}
  <2>1. lane' \in [Lanes -> Scan \cup {Off, Free}] /\ Busy' = Busy
    BY LeftoverLanes DEF SpillLeftovers, RetriesBounded
  <2>2. left \subseteq Item
    BY BusyLane
  <2>3. spilled \subseteq Item /\ \A i \in spilled : i.interrupts <= MaxInterrupts
    BY <2>2, AgainFacts
  <2>4. outcome' \in [Pubs -> Outcomes]
    BY EndedType DEF LifecycleTypeOK, SpillLeftovers
  <2>5. backlog' \subseteq backlog \cup spilled
    BY DEF SpillLeftovers
  <2>6. backlog' \subseteq Item /\ \A i \in backlog' : i.interrupts <= MaxInterrupts
    BY <2>3, <2>5 DEF LifecycleTypeOK, RetriesBounded
  <2> QED
    BY <2>1, <2>4, <2>6 DEF SpillLeftovers, LifecycleTypeOK, RetriesBounded, DownIsEmpty
<1>17. CASE SaveAll
  BY <1>17 DEF SaveAll, LifecycleTypeOK, RetriesBounded, DownIsEmpty, Busy, history
<1>18. CASE Exit \/ Crash
  <2>1. MemoryLost /\ UNCHANGED <<seen, outcome, waited>>
    BY <1>18 DEF Exit, Crash, history
  <2>2. Busy' = {}
    BY <2>1 DEF MemoryLost, Busy
  <2>3. crashes' \in 0..MaxCrashes
    BY <1>18 DEF Exit, Crash, LifecycleTypeOK, LifecycleAssumption, history
  <2>4. exposed' \subseteq Keys
    <3> DEFINE items == scanQueue \cup backlog \cup queueFile \cup {lane[w].item : w \in Busy}
    <3>1. items \subseteq Item
      BY BusyLane DEF LifecycleTypeOK
    <3>2. KeysOf(items) \subseteq Keys
      BY <3>1, KeysType
    <3>3. exposed' \subseteq exposed \cup KeysOf(items)
      BY <1>18 DEF Exit, Crash, history
    <3> QED
      BY <3>2, <3>3 DEF LifecycleTypeOK
  <2> QED
    BY <2>1, <2>2, <2>3, <2>4
       DEF MemoryLost, LifecycleTypeOK, RetriesBounded, DownIsEmpty, disk
<1>19. CASE Restart
  BY <1>19 DEF Restart, LifecycleTypeOK, RetriesBounded, DownIsEmpty, Busy, history
<1>20. CASE UNCHANGED lifeVars
  BY <1>20 DEF lifeVars, LifecycleTypeOK, RetriesBounded, DownIsEmpty, Busy
<1> QED
  BY <1>1, <1>2, <1>3, <1>4, <1>5, <1>6, <1>7, <1>8, <1>9, <1>10, <1>11, <1>12, <1>13,
     <1>14, <1>15, <1>16, <1>17, <1>18, <1>19, <1>20 DEF LifecycleNext, Pass

\* The type invariant holds, and with it the bound of the retries of an interrupted
\* item (computeInterruptDisposition) and of the heavy requeues (HEAVY_REQUEUE_MAX).
THEOREM TypeCorrect ==
  ASSUME ~ExtractPool
  PROVE  LifecycleSpec => []LifecycleTypeOK
<1>1. LifecycleInit => TypeInv
  BY InitTypeInv
<1>2. TypeInv /\ [LifecycleNext]_lifeVars => TypeInv'
  BY TypeStep
<1>3. TypeInv => LifecycleTypeOK
  BY DEF TypeInv
<1> QED
  BY <1>1, <1>2, <1>3, PTL DEF LifecycleSpec

-----------------------------------------------------------------------------
(* No version is lost *)

\* The version needs no further scan, or is one that the property leaves out.
Safe(k) == k \in exposed \cup waited \/ \E q \in Pubs : KeyOf[q] = k /\ outcome[q] = "ended"

\* What NoVersionLost asks of the key of an ingested version.
Good(k) == Safe(k) \/ \E i \in Held : KeyIn(i) = k

\* A loop that has passed the dedup scans the version: recentlyScanned has its key.
Owned(k) == \E w \in Busy : lane[w].stage # "resolving" /\ KeyIn(lane[w].item) = k

SeenGood == \A p \in seen : Good(KeyOf[p])

\* An item whose key is in recentlyScanned may be dropped.
RecentOwned == \A k \in scanned : Safe(k) \/ (phase # "stopping" /\ Owned(k))

\* A scan that ran out of time has its error in the ledger.
ZombiesSafe == \A k \in zombies : Safe(k)

\* So may, in the next process, an item whose key is in the saved set.
SavedSetGood ==
  \A k \in recentFile : Safe(k) \/ (phase \notin {"saved", "down"} /\ Good(k))

InBacklog(k) == \E i \in backlog : KeyIn(i) = k
InQueueFile(k) == \E i \in queueFile : KeyIn(i) = k

\* Nothing is in memory alone when the state is saved.
LeftoversSpilled ==
  /\ phase = "stopping" =>
       \A w \in Busy : Safe(KeyIn(lane[w].item)) \/ InBacklog(KeyIn(lane[w].item))
  /\ phase = "saved" =>
       /\ \A w \in Busy : LET k == KeyIn(lane[w].item)
                          IN  Safe(k) \/ InBacklog(k) \/ InQueueFile(k)
       /\ \A i \in scanQueue : LET k == KeyIn(i)
                               IN  Safe(k) \/ InBacklog(k) \/ InQueueFile(k)

KeyInv == SeenGood /\ RecentOwned /\ ZombiesSafe /\ SavedSetGood /\ LeftoversSpilled

SafeKept == \A k \in Keys : Safe(k) => Safe(k)'
GoodKept == \A k \in Keys : Good(k) => Good(k)'

LEMMA ItemKey ==
  ASSUME NEW i \in Item
  PROVE  i.pub \in Pubs /\ KeyIn(i) \in Keys /\ KeyIn(i) = KeyOf[i.pub]
BY LifecycleAssumption DEF Item, KeyIn, LifecycleAssumption

\* Entries of the ledger are never taken back, ...
LEMMA EndedKept ==
  ASSUME outcome \in [Pubs -> Outcomes], NEW S,
         outcome' = outcome \/ outcome' = Ended(S) \/ outcome' = Deduped(S),
         exposed \subseteq exposed', waited \subseteq waited'
  PROVE  SafeKept
BY DEF SafeKept, Safe, Ended, Deduped

\* ... and a new one makes its version safe.
LEMMA EndedSafe ==
  ASSUME NEW S, outcome' = Ended(S), NEW i \in Item, i.pub \in S
  PROVE  Safe(KeyIn(i))'
BY ItemKey DEF Safe, Ended

\* Where a version is held while the process lives.
LEMMA HeldItems ==
  ASSUME phase # "down", NEW k
  PROVE  Good(k) <=> \/ Safe(k)
                     \/ \E i \in scanQueue : KeyIn(i) = k
                     \/ \E i \in backlog : KeyIn(i) = k
                     \/ \E w \in Busy : KeyIn(lane[w].item) = k
BY DEF Good, Held

\* What is worked on is held.
LEMMA OwnedGood ==
  ASSUME phase # "down", NEW k, Owned(k)
  PROVE  Good(k)
BY DEF Good, Held, Owned

\* A step of one loop keeps every version if it keeps the one in that loop.
LEMMA LoopKeepsGood ==
  ASSUME phase # "down", phase' = phase, SafeKept, NEW w,
         scanQueue \subseteq scanQueue', backlog \subseteq backlog',
         \A u \in Busy \ {w} : u \in Busy' /\ lane'[u].item = lane[u].item,
         \A k \in Keys : w \in Busy /\ k = KeyIn(lane[w].item) => Good(k)'
  PROVE  GoodKept
BY DEF Good, Held, GoodKept, SafeKept, KeyIn

\* What a step of a running process has to show.
LEMMA KeyStep ==
  ASSUME TypeInv, TypeInv', KeyInv, phase \notin {"down", "stopping"}, phase' = phase,
         SafeKept, GoodKept,
         \A p \in seen' \ seen : Good(KeyOf[p])',
         \A k \in scanned' : Safe(k)' \/ Owned(k)',
         \A k \in zombies' : Safe(k)',
         \A k \in recentFile' \ recentFile : Good(k)',
         phase = "saved" =>
           /\ recentFile' = recentFile /\ queueFile' = queueFile
           /\ backlog \subseteq backlog'
           /\ \A u \in Busy' : \/ u \in Busy /\ lane'[u].item = lane[u].item
                               \/ lane'[u].item \in scanQueue
           /\ \A i \in scanQueue' : i \in scanQueue \/ Safe(KeyIn(i))'
  PROVE  KeyInv'
<1> USE DEF KeyInv, TypeInv
<1>1. SeenGood'
  BY LifecycleAssumption DEF SeenGood, GoodKept, LifecycleTypeOK, LifecycleAssumption
<1>2. RecentOwned' /\ ZombiesSafe'
  BY DEF RecentOwned, ZombiesSafe
<1>3. SavedSetGood'
  BY DEF SavedSetGood, GoodKept, SafeKept, LifecycleTypeOK, Good
<1>4. LeftoversSpilled'
  <2> SUFFICES ASSUME phase = "saved" PROVE LeftoversSpilled'
    BY DEF LeftoversSpilled
  <2>1. \A k : (InBacklog(k) => InBacklog(k)') /\ (InQueueFile(k) => InQueueFile(k)')
    BY DEF InBacklog, InQueueFile, KeyIn
  <2>2. ASSUME NEW i \in scanQueue 
        PROVE  LET k == KeyIn(i) IN Safe(k)' \/ InBacklog(k)' \/ InQueueFile(k)'
    BY <2>1, ItemKey DEF LeftoversSpilled, SafeKept, LifecycleTypeOK
  <2>3. ASSUME NEW u \in Busy, NEW k, k = KeyIn(lane[u].item)
        PROVE  Safe(k)' \/ InBacklog(k)' \/ InQueueFile(k)'
    BY <2>1, <2>3, BusyLane DEF LeftoversSpilled, SafeKept
  <2> QED
    BY <2>2, <2>3 DEF LeftoversSpilled, KeyIn
<1> QED
  BY <1>1, <1>2, <1>3, <1>4

\* A scan that ends is accounted for elsewhere, and safe if it owned its key.
LEMMA DoneKeepsKeys ==
  ASSUME TypeInv, TypeInv', KeyInv, phase \notin {"down", "stopping"}, phase' = phase,
         NEW w \in Busy, Done(w), NEW k, k = KeyIn(lane[w].item),
         UNCHANGED <<seen, queueFile, recentFile>>, SafeKept,
         scanQueue \subseteq scanQueue', backlog \subseteq backlog',
         \A i \in scanQueue' : i \in scanQueue \/ Safe(KeyIn(i))',
         Good(k)',
         lane[w].stage # "resolving" /\ k \in scanned' => Safe(k)',
         scanned' \subseteq scanned,
         \A z \in zombies' : z \in zombies \/ Safe(z)'
  PROVE  KeyInv'
<1> USE DEF TypeInv, KeyInv
<1>1. /\ Busy' = Busy \ {w}
      /\ \A u \in Busy' : lane'[u] = lane[u]
  BY DoneFacts DEF Busy
<1>2. GoodKept
  BY <1>1, LoopKeepsGood
<1>3. ASSUME NEW z \in scanned' PROVE Safe(z)' \/ Owned(z)'
  <2>1. Safe(z) \/ Owned(z)
    BY DEF RecentOwned
  <2>2. CASE Safe(z)
    BY <2>2 DEF SafeKept, LifecycleTypeOK
  <2>3. ASSUME NEW u \in Busy, lane[u].stage # "resolving", KeyIn(lane[u].item) = z
        PROVE  Safe(z)' \/ Owned(z)'
    <3>1. CASE u = w
      BY <2>3, <3>1
    <3>2. CASE u # w
      BY <1>1, <2>3, <3>2 DEF Owned, KeyIn
    <3> QED
      BY <3>1, <3>2
  <2> QED
    BY <2>1, <2>2, <2>3 DEF Owned
<1>4. \A z \in zombies' : Safe(z)'
  BY DEF ZombiesSafe, SafeKept, LifecycleTypeOK
<1> QED
  BY <1>1, <1>2, <1>3, <1>4, KeyStep

\* A scan that goes on keeps its item.
LEMMA StageKeepsKeys ==
  ASSUME TypeInv, TypeInv', KeyInv, phase \notin {"down", "stopping"}, phase' = phase,
         NEW w \in Busy, NEW s \in Stages \ {"resolving"}, ToStage(w, s),
         scanned' \subseteq scanned \cup {KeyIn(lane[w].item)},
         UNCHANGED <<scanQueue, zombies, disk, history>>
  PROVE  KeyInv'
<1> USE DEF TypeInv, KeyInv
<1>1. /\ Busy' = Busy
      /\ \A u \in Busy : lane'[u].item = lane[u].item
      /\ \A u \in Busy : lane[u].stage # "resolving" \/ u = w => lane'[u].stage # "resolving"
  BY StageFacts DEF Busy
<1>2. SafeKept
  BY DEF SafeKept, Safe, history
<1>3. GoodKept
  BY <1>1, <1>2 DEF GoodKept, SafeKept, Good, Held, disk, KeyIn
<1>4. ASSUME NEW k \in scanned' PROVE Safe(k)' \/ Owned(k)'
  <2>1. Safe(k) \/ \E u \in Busy : /\ lane[u].stage # "resolving" \/ u = w
                                   /\ KeyIn(lane[u].item) = k
    BY DEF RecentOwned, Owned
  <2> QED
    BY <1>1, <1>2, <2>1 DEF SafeKept, Owned, KeyIn, LifecycleTypeOK
<1>5. \A z \in zombies' : Safe(z)'
  BY <1>2 DEF ZombiesSafe, SafeKept, LifecycleTypeOK
<1> QED
  BY <1>1, <1>2, <1>3, <1>4, <1>5, KeyStep DEF disk, history

\* The steps of a scan.
LEMMA PassKeepsKeys ==
  ASSUME ~ExtractPool, TypeInv, TypeInv', KeyInv, NEW w \in Lanes, Pass(w)
  PROVE  KeyInv'
<1> USE DEF TypeInv
<1> DEFINE i == lane[w].item
<1>1. w \in Busy /\ phase \notin {"down", "stopping"} /\ phase' = phase
  BY DEF Pass, Resolve, Skip, ResolveFails, Admit, WaitTimeout, StaticDone, ScanEnds,
         Interrupted, Timeout, At, Running
<1>2. i \in Item /\ KeyIn(i) \in Keys
  BY <1>1, BusyLane
<1>3. CASE Resolve(w) \/ Admit(w) \/ StaticDone(w)
  <2>1. PICK s \in {"waiting", "static", "after"} : ToStage(w, s)
    BY <1>3 DEF Resolve, Admit, StaticDone
  <2>2. s \in Stages \ {"resolving"}
    BY DEF Stages
  <2>3. /\ scanned' \subseteq scanned \cup {KeyIn(i)}
        /\ UNCHANGED <<scanQueue, zombies, disk, history>>
    BY <1>3 DEF Resolve, Admit, StaticDone
  <2> QED
    BY <1>1, <2>1, <2>2, <2>3, StageKeepsKeys
<1>4. CASE ResolveFails(w) \/ ScanEnds(w) \/ Timeout(w)
  <2> USE <1>4 DEF ResolveFails, ScanEnds, Timeout
  <2>1. /\ Done(w) /\ outcome' = Ended({i.pub})
        /\ UNCHANGED <<scanQueue, scanned, disk, seen, waited, exposed>>
    OBVIOUS
  <2>2. SafeKept
    BY <2>1, EndedKept DEF LifecycleTypeOK
  <2>3. ASSUME NEW k, k = KeyIn(i) PROVE Safe(k)' /\ Good(k)'
    BY <1>2, <2>1, <2>3, EndedSafe DEF Good
  <2>4. \A z \in zombies' : z \in zombies \/ z = KeyIn(i)
    OBVIOUS
  <2>5. \A z \in zombies' : z \in zombies \/ Safe(z)'
    BY <2>3, <2>4
  <2> HIDE DEF i, ResolveFails, ScanEnds, Timeout
  <2>6. PICK k : k = KeyIn(i)
    OBVIOUS
  <2> QED
    BY <1>1, <2>1, <2>2, <2>3, <2>5, <2>6, DoneKeepsKeys DEF disk, i
<1>5. CASE Skip(w)
  <2> USE <1>5 DEF Skip, At
  <2>1. /\ Done(w) /\ outcome' = Deduped({i.pub}) /\ lane[w].stage = "resolving"
        /\ UNCHANGED <<scanQueue, zombies, scanned, disk, seen, waited, exposed>>
    OBVIOUS
  <2>2. SafeKept
    BY <2>1, EndedKept DEF LifecycleTypeOK
  <2>3. ASSUME NEW k, k = KeyIn(i) PROVE Good(k)'
    <3>1. Safe(k) \/ Owned(k)
      BY <2>3 DEF KeyInv, RecentOwned
    <3>2. CASE Safe(k)
      BY <1>2, <2>2, <2>3, <3>2 DEF SafeKept, Good
    <3>3. CASE Owned(k)
      <4>1. PICK u \in Busy : lane[u].stage # "resolving" /\ KeyIn(lane[u].item) = k
        BY <3>3 DEF Owned
      <4>2. u # w
        BY <2>1, <4>1
      <4>3. u \in Busy' /\ lane'[u] = lane[u]
        BY <2>1, <4>1, <4>2, DoneFacts
      <4> QED
        BY <4>1, <4>3 DEF Good, Held, KeyIn
    <3> QED
      BY <3>1, <3>2, <3>3
  <2> HIDE DEF i, Skip
  <2>4. PICK k : k = KeyIn(i)
    OBVIOUS
  <2> QED
    BY <1>1, <2>1, <2>2, <2>3, <2>4, DoneKeepsKeys DEF disk, i
<1>6. CASE WaitTimeout(w)
  <2> USE <1>6 DEF WaitTimeout
  <2>1. /\ Done(w) /\ waited' = waited \cup {KeyIn(i)}
        /\ scanQueue' = scanQueue \cup {[i EXCEPT !.heavy = @ + 1]}
        /\ UNCHANGED <<zombies, scanned, disk, seen, outcome, exposed>>
    OBVIOUS
  <2>2. SafeKept
    BY <2>1, EndedKept DEF LifecycleTypeOK
  <2>3. ASSUME NEW k, k = KeyIn(i) PROVE Safe(k)' /\ Good(k)'
    BY <2>1, <2>3 DEF Safe, Good
  <2>4. KeyIn([i EXCEPT !.heavy = @ + 1]) = KeyIn(i)
    BY <1>2 DEF KeyIn, Item
  <2>5. \A j \in scanQueue' : j \in scanQueue \/ Safe(KeyIn(j))'
    BY <2>1, <2>3, <2>4
  <2> HIDE DEF i, WaitTimeout
  <2>6. PICK k : k = KeyIn(i)
    OBVIOUS
  <2> QED
    BY <1>1, <2>1, <2>2, <2>3, <2>5, <2>6, DoneKeepsKeys DEF disk, i
<1>7. CASE Interrupted(w)
  <2> USE <1>7 DEF Interrupted
  <2>1. /\ Done(w) /\ scanned' = scanned \ {KeyIn(i)} /\ backlog \subseteq backlog'
        /\ outcome' = Ended({i.pub}) \/ (outcome' = outcome /\ Spilled(i) \in backlog')
        /\ UNCHANGED <<scanQueue, zombies, queueFile, recentFile, seen, waited, exposed>>
    OBVIOUS
  <2>2. SafeKept
    BY <2>1, EndedKept DEF LifecycleTypeOK
  <2>3. KeyIn(Spilled(i)) = KeyIn(i)
    BY <1>2 DEF Spilled, Again, Item, KeyIn
  <2>4. ASSUME NEW k, k = KeyIn(i) PROVE Good(k)' /\ k \notin scanned'
    <3>1. CASE outcome' = Ended({i.pub})
      BY <1>2, <2>1, <2>4, <3>1, EndedSafe DEF Good
    <3>2. CASE Spilled(i) \in backlog'
      BY <2>1, <2>3, <2>4, <3>2 DEF Good, Held, KeyIn
    <3> QED
      BY <2>1, <3>1, <3>2
  <2> HIDE DEF i, Interrupted
  <2>5. PICK k : k = KeyIn(i)
    OBVIOUS
  <2> QED
    BY <1>1, <2>1, <2>2, <2>4, <2>5, DoneKeepsKeys DEF disk, i
<1> QED
  BY <1>3, <1>4, <1>5, <1>6, <1>7 DEF Pass

\* The steps of the queue and of the dedup set.
LEMMA QueueKeepsKeys ==
  ASSUME ~ExtractPool, TypeInv, TypeInv', KeyInv,
         \/ \E p \in Pubs : Publish(p)
         \/ \E w \in Lanes : Retire(w) \/ \E i \in scanQueue : Dequeue(w, i)
         \/ \E k \in zombies : ZombieEnds(k)
         \/ Prune \/ Persist
  PROVE  KeyInv'
<1> USE DEF TypeInv
<1>1. SafeKept
  BY DEF Publish, Retire, Dequeue, ZombieEnds, Prune, Persist, SafeKept, Safe, history
<1>2. ASSUME NEW p \in Pubs, Publish(p) PROVE KeyInv'
  <2> USE <1>2 DEF Publish
  <2>1. GoodKept
    BY <1>1 DEF GoodKept, SafeKept, Good, Held, Busy, KeyIn, disk
  <2>2. Good(KeyOf[p])'
    <3>1. KeyIn([pub |-> p, heavy |-> 0, interrupts |-> 0]) = KeyOf[p]
      BY DEF KeyIn
    <3> QED
      BY <3>1 DEF Good, Held
  <2>3. \A k \in scanned' : Safe(k)' \/ Owned(k)'
    BY <1>1 DEF KeyInv, RecentOwned, SafeKept, Owned, Busy, KeyIn, LifecycleTypeOK
  <2>4. \A k \in zombies' : Safe(k)'
    BY <1>1 DEF KeyInv, ZombiesSafe, SafeKept, LifecycleTypeOK
  <2>5. recentFile' = recentFile
    BY DEF disk
  <2> QED
    BY <1>1, <2>1, <2>2, <2>3, <2>4, <2>5, KeyStep
<1>3. ASSUME NEW w \in Lanes, NEW i \in scanQueue, Dequeue(w, i) PROVE KeyInv'
  <2> USE <1>3 DEF Dequeue, Running
  <2>1. /\ Busy' = Busy \cup {w} /\ w \notin Busy
        /\ \A u \in Busy : lane'[u] = lane[u]
        /\ lane'[w].item = i
    BY LoopAssumption DEF Busy, LifecycleTypeOK, Scan, Stages
  <2>2. GoodKept
    BY <1>1, <2>1 DEF GoodKept, SafeKept, Good, Held, KeyIn, disk
  <2>3. \A k \in scanned' : Safe(k)' \/ Owned(k)'
    BY <1>1, <2>1 DEF KeyInv, RecentOwned, SafeKept, Owned, KeyIn, LifecycleTypeOK
  <2>4. \A k \in zombies' : Safe(k)'
    BY <1>1 DEF KeyInv, ZombiesSafe, SafeKept, LifecycleTypeOK
  <2>5. UNCHANGED <<seen, recentFile, queueFile, backlog>> /\ scanQueue' \subseteq scanQueue
    BY DEF disk, history
  <2> QED
    BY <1>1, <2>1, <2>2, <2>3, <2>4, <2>5, KeyStep
<1>4. ASSUME NEW w \in Lanes, Retire(w) PROVE KeyInv'
  <2> USE <1>4 DEF Retire, Running
  <2>1. Busy' = Busy /\ \A u \in Busy : lane'[u] = lane[u]
    BY DEF Busy, LifecycleTypeOK
  <2>2. GoodKept
    BY <1>1, <2>1 DEF GoodKept, SafeKept, Good, Held, KeyIn, disk
  <2>3. \A k \in scanned' : Safe(k)' \/ Owned(k)'
    BY <1>1, <2>1 DEF KeyInv, RecentOwned, SafeKept, Owned, KeyIn, LifecycleTypeOK
  <2>4. \A k \in zombies' : Safe(k)'
    BY <1>1 DEF KeyInv, ZombiesSafe, SafeKept, LifecycleTypeOK
  <2> QED
    BY <1>1, <2>1, <2>2, <2>3, <2>4, KeyStep DEF disk, history
<1>5. CASE Prune \/ Persist \/ \E k \in zombies : ZombieEnds(k)
  <2> USE <1>5 DEF Prune, Persist, ZombieEnds, Running
  <2>1. /\ UNCHANGED <<scanQueue, lane, backlog, phase, seen>>
        /\ phase \notin {"down", "stopping"}
        /\ zombies' \subseteq zombies
        /\ phase = "saved" => UNCHANGED <<queueFile, recentFile>>
    BY DEF disk, history
  <2>2. GoodKept
    BY <1>1, <2>1 DEF GoodKept, SafeKept, Good, Held, Busy, KeyIn
  <2>3. \A k \in zombies : Safe(k)'
    BY <1>1 DEF KeyInv, ZombiesSafe, SafeKept, LifecycleTypeOK
  <2>4. \A k \in scanned : Safe(k)' \/ Owned(k)'
    BY <1>1, <2>1 DEF KeyInv, RecentOwned, SafeKept, Owned, Busy, KeyIn, LifecycleTypeOK
  <2>5. \A k \in scanned' : Safe(k)' \/ Owned(k)'
    BY <2>3, <2>4
  <2>6. \A k \in recentFile' \ recentFile : Good(k)'
    BY <2>1, <2>4 DEF disk, Good, Owned, Held
  <2>7. Busy' = Busy
    BY <2>1 DEF Busy
  <2> HIDE DEF Prune, Persist, ZombieEnds
  <2> QED
    BY <1>1, <2>1, <2>2, <2>3, <2>5, <2>6, <2>7, KeyStep
<1> QED
  BY <1>2, <1>3, <1>4, <1>5

\* What an emergency evicts is spilled, or dropped with an entry in the ledger.
LEMMA EmergencyKeepsKeys ==
  ASSUME TypeInv, TypeInv', KeyInv, MemoryEmergency
  PROVE  KeyInv'
<1> USE DEF TypeInv
<1>1. /\ Busy' = Busy
      /\ \A w \in Busy : lane'[w].item = lane[w].item
  BY EmergencyLanes DEF MemoryEmergency
<1>2. PICK S \in SUBSET scanQueue :
        /\ scanQueue' = scanQueue \ S
        /\ \/ /\ backlog' = backlog \cup {[i EXCEPT !.heavy = 0] : i \in S}
              /\ UNCHANGED outcome
           \/ /\ outcome' = Ended(PubsOf(S))
              /\ UNCHANGED backlog
  BY DEF MemoryEmergency
<1>3. SafeKept
  BY <1>2, EndedKept DEF MemoryEmergency, LifecycleTypeOK
<1>4. ASSUME NEW i \in S PROVE Good(KeyIn(i))'
  <2>1. i \in Item
    BY DEF LifecycleTypeOK
  <2>2. CASE outcome' = Ended(PubsOf(S))
    BY <2>1, <2>2, EndedSafe DEF PubsOf, Good
  <2>3. CASE backlog' = backlog \cup {[j EXCEPT !.heavy = 0] : j \in S}
    <3>1. KeyIn([i EXCEPT !.heavy = 0]) = KeyIn(i)
      BY <2>1 DEF KeyIn, Item
    <3>2. [i EXCEPT !.heavy = 0] \in Held'
      BY <2>3 DEF Held
    <3> QED
      BY <3>1, <3>2 DEF Good
  <2> QED
    BY <1>2, <2>2, <2>3
<1>5. GoodKept
  <2> SUFFICES ASSUME NEW k \in Keys, Good(k) PROVE Good(k)'
    BY DEF GoodKept
  <2>1. backlog \subseteq backlog' /\ phase = "up" /\ phase' = "up"
    BY <1>2 DEF MemoryEmergency
  <2>2. CASE Safe(k)
    BY <1>3, <2>2 DEF SafeKept, Good
  <2>3. ASSUME NEW i \in scanQueue, KeyIn(i) = k PROVE Good(k)'
    BY <1>2, <1>4, <2>3 DEF Good, Held
  <2>4. ASSUME NEW i \in backlog, KeyIn(i) = k PROVE Good(k)'
    BY <2>1, <2>4 DEF Good, Held
  <2>5. ASSUME NEW w \in Busy, KeyIn(lane[w].item) = k PROVE Good(k)'
    BY <1>1, <2>5 DEF Good, Held, KeyIn
  <2> QED
    BY <2>1, <2>2, <2>3, <2>4, <2>5, HeldItems
<1>6. \A k \in zombies' : Safe(k)'
  BY <1>3 DEF KeyInv, ZombiesSafe, SafeKept, LifecycleTypeOK, MemoryEmergency
<1> QED
  BY <1>3, <1>5, <1>6, KeyStep DEF MemoryEmergency

\* A drain drops the entries whose key is known, which is held or safe.
LEMMA DrainKeepsKeys ==
  ASSUME TypeInv, TypeInv', KeyInv, NEW batch \in SUBSET backlog, DrainBacklog(batch)
  PROVE  KeyInv'
<1> USE DEF TypeInv
<1> DEFINE stale == {i \in batch : KeyIn(i) \in scanned \cup KeysOf(scanQueue)}
<1>1. /\ scanQueue' = scanQueue \cup (batch \ stale) /\ backlog' = backlog \ batch
      /\ outcome' = Deduped(PubsOf(stale))
      /\ UNCHANGED <<lane, zombies, scanned, queueFile, recentFile, phase, seen, waited,
                     exposed>>
      /\ phase = "up"
  BY DEF DrainBacklog
<1>2. SafeKept
  BY <1>1, EndedKept DEF LifecycleTypeOK
<1>3. Busy' = Busy
  BY <1>1 DEF Busy
<1>4. ASSUME NEW k, Owned(k) PROVE Good(k)' /\ Owned(k)'
  BY <1>1, <1>3, <1>4 DEF Owned, Good, Held, KeyIn
<1>5. \A k \in scanned : Safe(k)' \/ Owned(k)'
  BY <1>2, <1>4 DEF KeyInv, RecentOwned, SafeKept, LifecycleTypeOK
<1>6. ASSUME NEW i \in scanQueue PROVE Good(KeyIn(i))'
  BY <1>1 DEF Good, Held
<1>7. ASSUME NEW i \in batch PROVE Good(KeyIn(i))'
  <2>1. CASE i \in stale
    BY <1>1, <1>5, <1>6, <2>1 DEF KeysOf, Good, Owned, Held
  <2>2. CASE i \notin stale
    BY <1>1, <2>2 DEF Good, Held
  <2> QED
    BY <2>1, <2>2
<1>8. GoodKept
  <2> SUFFICES ASSUME NEW k \in Keys, Good(k) PROVE Good(k)'
    BY DEF GoodKept
  <2>1. CASE Safe(k)
    BY <1>2, <2>1 DEF SafeKept, Good
  <2>2. ASSUME NEW i \in scanQueue \cup backlog, KeyIn(i) = k PROVE Good(k)'
    BY <1>1, <1>6, <1>7, <2>2 DEF Good, Held
  <2>3. ASSUME NEW w \in Busy, KeyIn(lane[w].item) = k PROVE Good(k)'
    BY <1>1, <1>3, <2>3 DEF Good, Held, KeyIn
  <2> QED
    BY <1>1, <2>1, <2>2, <2>3, HeldItems
<1>9. \A k \in zombies' : Safe(k)'
  BY <1>1, <1>2 DEF KeyInv, ZombiesSafe, SafeKept, LifecycleTypeOK
<1> HIDE DEF stale
<1> QED
  BY <1>1, <1>2, <1>5, <1>8, <1>9, KeyStep

\* A shutdown writes every item that the memory still holds to the disk, ...
LEMMA ShutdownKeepsKeys ==
  ASSUME TypeInv, TypeInv', KeyInv, BeginShutdown \/ SpillLeftovers \/ SaveAll
  PROVE  KeyInv'
<1> USE DEF TypeInv
<1>1. CASE BeginShutdown
  <2> USE <1>1 DEF BeginShutdown
  <2>1. Busy' = Busy /\ \A w \in Busy : lane'[w] = lane[w]
    BY DEF Busy, LifecycleTypeOK
  <2>2. UNCHANGED <<scanQueue, zombies, scanned, backlog, queueFile, recentFile,
                    seen, outcome, waited, exposed>>
    BY DEF disk, history
  <2>3. \A k : (Safe(k) => Safe(k)') /\ (Owned(k) => Owned(k)')
    BY <2>1, <2>2 DEF Safe, Owned, KeyIn
  <2>4. \A k : Good(k) => Good(k)'
    BY <2>1, <2>2, <2>3 DEF Good, Held, KeyIn
  <2> QED
    BY <2>2, <2>3, <2>4
       DEF KeyInv, SeenGood, RecentOwned, ZombiesSafe, SavedSetGood, LeftoversSpilled
<1>2. CASE SpillLeftovers
  <2> USE <1>2
  <2> DEFINE left == {lane[w].item : w \in Busy}
             lost == {i \in left : GivenUp(i)}
  <2>1. /\ phase = "draining" /\ phase' = "stopping"
        /\ scanned' = scanned \ KeysOf(left)
        /\ \/ /\ backlog' = backlog \cup {Spilled(i) : i \in left \ lost}
              /\ outcome' = Ended(PubsOf(lost))
           \/ /\ outcome' = Ended(PubsOf(left))
              /\ UNCHANGED backlog
        /\ UNCHANGED <<scanQueue, zombies, queueFile, recentFile, seen, waited, crashes, exposed>>
    BY DEF SpillLeftovers
  <2>2. /\ Busy' = Busy
        /\ \A w \in Busy : lane'[w].item = Again(lane[w].item)
    BY <2>1, LeftoverLanes DEF SpillLeftovers, RetriesBounded
  <2>3. \A w \in Busy : lane[w].item \in left /\ lane[w].item \in Item
    BY BusyLane
  <2>4. left \subseteq Item
    BY <2>3
  <2>5. \A i \in left : \E w \in Busy : i = lane[w].item
    OBVIOUS
  <2> HIDE DEF left
  <2>6. SafeKept
    BY <2>1, EndedKept DEF LifecycleTypeOK
  <2>7. ASSUME NEW i \in left PROVE Safe(KeyIn(i))' \/ InBacklog(KeyIn(i))'
    <3>1. CASE outcome' = Ended(PubsOf(left)) \/ (outcome' = Ended(PubsOf(lost)) /\ i \in lost)
      BY <2>4, <3>1, EndedSafe DEF PubsOf
    <3>2. CASE Spilled(i) \in backlog'
      <4>1. KeyIn(Spilled(i)) = KeyIn(i)
        BY <2>4 DEF Spilled, Again, Item, KeyIn
      <4> QED
        BY <3>2, <4>1 DEF InBacklog
    <3> QED
      BY <2>1, <3>1, <3>2
  <2>8. GoodKept
    <3> SUFFICES ASSUME NEW k \in Keys, Good(k) PROVE Good(k)'
      BY DEF GoodKept
    <3>1. CASE Safe(k)
      BY <2>6, <3>1 DEF SafeKept, Good
    <3>2. ASSUME NEW i \in scanQueue \cup backlog, KeyIn(i) = k PROVE Good(k)'
      BY <2>1, <3>2 DEF Good, Held
    <3>3. ASSUME NEW i \in left, KeyIn(i) = k PROVE Good(k)'
      BY <2>7, <3>3 DEF Good, Held, InBacklog
    <3> QED
      BY <2>1, <2>3, <3>1, <3>2, <3>3, HeldItems
  <2>9. \A k \in scanned' : Safe(k)'
    <3>1. \A k : Owned(k) => k \in KeysOf(left)
      BY <2>3 DEF Owned, KeysOf
    <3> QED
      BY <2>1, <2>6, <3>1 DEF KeyInv, RecentOwned, SafeKept, LifecycleTypeOK
  <2>10. \A k \in zombies' : Safe(k)'
    BY <2>1, <2>6 DEF KeyInv, ZombiesSafe, SafeKept, LifecycleTypeOK
  <2>11. \A k \in recentFile' : Good(k)'
    BY <2>1, <2>6, <2>8 DEF KeyInv, SavedSetGood, SafeKept, GoodKept, Good, LifecycleTypeOK
  <2>12. SeenGood'
    BY <2>1, <2>8, LifecycleAssumption
       DEF KeyInv, SeenGood, GoodKept, LifecycleTypeOK, LifecycleAssumption
  <2>13. \A w \in Busy : KeyIn(Again(lane[w].item)) = KeyIn(lane[w].item)
    BY <2>3 DEF Again, Item, KeyIn
  <2>14. ASSUME NEW w \in Busy', NEW k, k = KeyIn(lane'[w].item)
         PROVE  Safe(k)' \/ InBacklog(k)'
    BY <2>2, <2>3, <2>7, <2>13, <2>14
  <2>15. LeftoversSpilled'
    BY <2>1, <2>14 DEF LeftoversSpilled, KeyIn
  <2> QED
    BY <2>1, <2>9, <2>10, <2>11, <2>12, <2>15
       DEF KeyInv, RecentOwned, ZombiesSafe, SavedSetGood
<1>3. CASE SaveAll
  <2> USE <1>3 DEF SaveAll
  <2>1. Busy' = Busy
    BY DEF Busy
  <2>2. \A k : Safe(k) => Safe(k)'
    BY DEF Safe, history
  <2>3. \A k : Good(k) => Good(k)'
    BY <2>1, <2>2 DEF Good, Held, KeyIn
  <2>4. \A k \in scanned : Safe(k)
    BY DEF KeyInv, RecentOwned
  <2>5. SeenGood' /\ ZombiesSafe'
    BY <2>2, <2>3 DEF KeyInv, SeenGood, ZombiesSafe, history
  <2>6. RecentOwned' /\ SavedSetGood'
    BY <2>2, <2>4 DEF RecentOwned, SavedSetGood
  <2>7. LeftoversSpilled'
    BY <2>1, <2>2 DEF KeyInv, LeftoversSpilled, InBacklog, InQueueFile, KeyIn
  <2> QED
    BY <2>5, <2>6, <2>7 DEF KeyInv
<1> QED
  BY <1>1, <1>2, <1>3

\* ... so the exit loses none; a crash exposes those it loses; and the next process
\* finds every other one.
LEMMA RestartKeepsKeys ==
  ASSUME TypeInv, TypeInv', KeyInv, Exit \/ Crash \/ Restart
  PROVE  KeyInv'
<1> USE DEF TypeInv
<1>1. \A k : Safe(k) => Safe(k)'
  BY DEF Exit, Crash, Restart, history, Safe
<1>2. ASSUME Exit \/ Crash, NEW k, Good(k) PROVE Good(k)'
  <2> USE <1>2
  <2>1. /\ phase # "down" /\ phase' = "down" /\ UNCHANGED disk
    BY DEF Exit, Crash, MemoryLost
  <2>2. CASE Safe(k)
    BY <1>1, <2>2 DEF Good
  <2>3. ASSUME NEW i \in backlog', KeyIn(i) = k PROVE Good(k)'
    BY <2>3 DEF Good, Held
  <2>4. ASSUME NEW i \in queueFile', KeyIn(i) = k PROVE Good(k)'
    BY <2>1, <2>4 DEF Good, Held
  <2>5. CASE Exit
    BY <1>1, <2>1, <2>2, <2>3, <2>4, <2>5, HeldItems
       DEF Exit, disk, KeyInv, LeftoversSpilled, InBacklog, InQueueFile, Good
  <2>6. CASE Crash
    <3> DEFINE kept == {i \in queueFile \cup backlog : KeyIn(i) \notin recentFile}
               items == scanQueue \cup backlog \cup queueFile \cup {lane[w].item : w \in Busy}
    <3>1. exposed' = exposed \cup (KeysOf(items) \ KeysOf(kept))
      BY <2>6 DEF Crash
    <3>2. Safe(k) \/ k \in KeysOf(items)
      BY <2>1, HeldItems DEF KeysOf
    <3>3. CASE k \in KeysOf(kept)
      BY <2>1, <2>3, <2>4, <3>3 DEF KeysOf, disk
    <3>4. CASE k \in KeysOf(items) \ KeysOf(kept)
      BY <3>1, <3>4 DEF Good, Safe
    <3> HIDE DEF kept, items
    <3> QED
      BY <2>2, <3>2, <3>3, <3>4
  <2> QED
    BY <2>5, <2>6
<1>3. ASSUME Restart, NEW k, Good(k) PROVE Good(k)'
  <2>1. Busy = {} /\ scanQueue = {}
    BY <1>3 DEF Restart, DownIsEmpty
  <2> QED
    BY <1>1, <1>3, <2>1 DEF Restart, Good, Held
<1>4. SeenGood'
  BY <1>2, <1>3 DEF KeyInv, SeenGood, Exit, Crash, Restart, history
<1>5. ASSUME Exit \/ Crash, NEW k \in recentFile PROVE Safe(k)'
  <2>1. CASE Exit
    BY <1>1, <1>5, <2>1 DEF Exit, KeyInv, SavedSetGood
  <2>2. CASE Crash
    <3> DEFINE kept == {i \in queueFile \cup backlog : KeyIn(i) \notin recentFile}
               items == scanQueue \cup backlog \cup queueFile \cup {lane[w].item : w \in Busy}
    <3>1. exposed' = exposed \cup (KeysOf(items) \ KeysOf(kept)) /\ phase # "down"
      BY <2>2 DEF Crash
    <3>2. k \notin KeysOf(kept)
      BY <1>5 DEF KeysOf
    <3>3. Safe(k) \/ Good(k)
      BY <1>5 DEF KeyInv, SavedSetGood
    <3>4. Safe(k) \/ k \in KeysOf(items)
      BY <3>1, <3>3, HeldItems DEF KeysOf
    <3> HIDE DEF kept, items
    <3> QED
      BY <1>1, <3>1, <3>2, <3>4 DEF Safe
  <2> QED
    BY <1>5, <2>1, <2>2
<1>6. CASE Exit \/ Crash
  <2>1. phase' = "down" /\ scanned' = {} /\ zombies' = {} /\ recentFile' = recentFile
    BY <1>6 DEF Exit, Crash, MemoryLost, disk
  <2> QED
    BY <1>4, <1>5, <1>6, <2>1
       DEF KeyInv, RecentOwned, ZombiesSafe, SavedSetGood, LeftoversSpilled
<1>7. CASE Restart
  <2>1. \A k \in recentFile : Safe(k)'
    BY <1>1, <1>7 DEF KeyInv, SavedSetGood, Restart
  <2> QED
    BY <1>4, <1>7, <2>1
       DEF Restart, DownIsEmpty, KeyInv, RecentOwned, ZombiesSafe, SavedSetGood, LeftoversSpilled
<1> QED
  BY <1>6, <1>7

\* KeyInv is inductive, relative to TypeInv.
LEMMA KeyInvStep ==
  ASSUME ~ExtractPool, TypeInv, TypeInv', KeyInv, [LifecycleNext]_lifeVars
  PROVE  KeyInv'
<1>1. CASE UNCHANGED lifeVars
  BY <1>1 DEF lifeVars, KeyInv, SeenGood, RecentOwned, ZombiesSafe, SavedSetGood,
     LeftoversSpilled, Good, Safe, Owned, Held, Busy, InBacklog, InQueueFile, KeyIn
<1>2. CASE \E w \in Lanes : Pass(w)
  BY <1>2, PassKeepsKeys
<1>3. CASE \E batch \in SUBSET backlog : DrainBacklog(batch)
  BY <1>3, DrainKeepsKeys
<1> QED
  BY <1>1, <1>2, <1>3, QueueKeepsKeys, EmergencyKeepsKeys, ShutdownKeepsKeys,
     RestartKeepsKeys
     DEF LifecycleNext

LEMMA InitKeyInv == LifecycleInit => KeyInv
BY DEF LifecycleInit, KeyInv, SeenGood, RecentOwned, ZombiesSafe, SavedSetGood,
   LeftoversSpilled

LEMMA KeyInvImplies ==
  ASSUME TypeInv, KeyInv
  PROVE  NoVersionLost
BY DEF KeyInv, SeenGood, Good, Safe, NoVersionLost, Accounted

\* No version vanishes, whatever emergencies, timeouts, shutdowns, restarts, crashes and
\* duplicates it meets, unless it was requeued by a wait timeout or a crash has put it at
\* risk: the loops of queue.js and the shutdown of daemon.js lose none between them.
THEOREM NothingLost ==
  ASSUME ~ExtractPool
  PROVE  LifecycleSpec => []NoVersionLost
<1>1. LifecycleInit => TypeInv /\ KeyInv
  BY InitTypeInv, InitKeyInv
<1>2. TypeInv /\ KeyInv /\ [LifecycleNext]_lifeVars => TypeInv' /\ KeyInv'
  BY TypeStep, KeyInvStep
<1>3. TypeInv /\ KeyInv => NoVersionLost
  BY KeyInvImplies
<1> QED
  BY <1>1, <1>2, <1>3, PTL DEF LifecycleSpec

\* So a version stays accounted for, and what is kept of it stays within its bounds.
THEOREM VersionsKept ==
  ASSUME ~ExtractPool
  PROVE  LifecycleSpec => []VersionsAccounted
<1>1. LifecycleTypeOK /\ NoVersionLost => VersionsAccounted
  BY DEF VersionsAccounted
<1> QED
  BY <1>1, TypeCorrect, NothingLost, PTL

-----------------------------------------------------------------------------
(* The pool the worker loops belong to *)

\* A spawn starts no more workers than the target leaves room for and the
\* queue has items.
LEMMA SpawnsBounded ==
  ASSUME PoolAssumption, PoolTypeOK,
         NEW target \in MIN_CONCURRENCY..MAX_CONCURRENCY,
         NEW rssCap \in 0..MAX_CONCURRENCY, NEW fullFallback \in BOOLEAN
  PROVE  /\ Spawns(target, rssCap, fullFallback) \in Nat
         /\ Spawns(target, rssCap, fullFallback) <= depth
         /\ Spawns(target, rssCap, fullFallback) = 0
              \/ active + Spawns(target, rssCap, fullFallback) <= target
<1> DEFINE wanted == Most(0, Least(target - active, depth))
<1> USE DEF PoolAssumption, PoolTypeOK
<1>1. wanted \in Nat /\ wanted <= depth /\ (wanted = 0 \/ active + wanted <= target)
  BY DEF Most, Least
<1>2. /\ Spawns(target, rssCap, fullFallback) \in Nat
      /\ Spawns(target, rssCap, fullFallback) <= wanted
  <2>1. Admitted(wanted, rssCap) \in Nat /\ Admitted(wanted, rssCap) <= wanted
    BY <1>1 DEF Admitted, Least
  <2>2. Spawns(target, rssCap, fullFallback) =
          IF fullFallback
          THEN Most(0, Least(Admitted(wanted, rssCap), FALLBACK_WORKER_CAP - active))
          ELSE Admitted(wanted, rssCap)
    BY DEF Spawns
  <2> HIDE DEF wanted
  <2> QED
    BY <1>1, <2>1, <2>2 DEF Most, Least
<1> HIDE DEF wanted
<1> QED
  BY <1>1, <1>2

\* What a spawn leaves running is within the maximum.
LEMMA EnsureWorkersType ==
  ASSUME PoolAssumption, PoolTypeOK,
         NEW target \in MIN_CONCURRENCY..MAX_CONCURRENCY,
         EnsureWorkers(target)
  PROVE  active' \in 0..MAX_CONCURRENCY /\ depth' \in 0..DepthMax
<1>1. PICK rssCap \in 0..MAX_CONCURRENCY, fullFallback \in BOOLEAN :
        LET n == Spawns(target, rssCap, fullFallback)
            staying == IF n > 0 /\ MayPump(active + 1)
                       THEN IF frozen THEN 1 ELSE n
                       ELSE 0
        IN  active' = active + staying /\ depth' = depth - staying
  BY DEF EnsureWorkers
<1> DEFINE n == Spawns(target, rssCap, fullFallback)
<1>2. n \in Nat /\ n <= depth /\ (n = 0 \/ active + n <= target)
  BY SpawnsBounded
<1>3. PICK staying \in {0, 1, n} :
        /\ staying = 0 \/ n > 0
        /\ active' = active + staying /\ depth' = depth - staying
  BY <1>1
<1> HIDE DEF n
<1> QED
  BY <1>2, <1>3 DEF PoolTypeOK, PoolAssumption

\* Every branch of computeTarget leaves a target within the bounds.
LEMMA TargetType ==
  ASSUME PoolAssumption, PoolTypeOK, NEW delta \in Deltas
  PROVE  computeTarget(delta) \in
           [target : MIN_CONCURRENCY..MAX_CONCURRENCY, throughput : Deltas \cup {0},
            direction : {-1, 0, 1}, streak : {0, 1}]
<1> USE DEF PoolAssumption, PoolTypeOK
<1>1. \A k \in Int : clamp(k) \in MIN_CONCURRENCY..MAX_CONCURRENCY
  BY DEF clamp, Least, Most
<1>2. /\ clamp(ctl.target - ScaleDown) \in MIN_CONCURRENCY..MAX_CONCURRENCY
      /\ clamp(ctl.target - ScaleUp) \in MIN_CONCURRENCY..MAX_CONCURRENCY
      /\ clamp(ctl.target + ScaleUp) \in MIN_CONCURRENCY..MAX_CONCURRENCY
      /\ clamp(Least(ctl.target, BASE_CONCURRENCY)) \in MIN_CONCURRENCY..MAX_CONCURRENCY
      /\ Most(BASE_CONCURRENCY, clamp(ctl.target - ScaleDown))
           \in MIN_CONCURRENCY..MAX_CONCURRENCY
  BY <1>1 DEF Least, Most
<1> DEFINE Ctl == [target : MIN_CONCURRENCY..MAX_CONCURRENCY,
                   throughput : Deltas \cup {0}, direction : {-1, 0, 1}, streak : {0, 1}]
<1>3. Reduced(delta) \in Ctl
  BY <1>2 DEF Reduced
<1>4. FlatWindow(delta) \in Ctl
  BY <1>2 DEF FlatWindow
<1>5. ByDepth(delta) \in Ctl
  BY <1>2 DEF ByDepth
<1>6. /\ [ctl EXCEPT !.target = MIN_CONCURRENCY] \in Ctl
      /\ [ctl EXCEPT !.target = clamp(Least(@, BASE_CONCURRENCY))] \in Ctl
      /\ [ctl EXCEPT !.target = clamp(@ - ScaleUp)] \in Ctl
  BY <1>2
<1> QED
  BY <1>3, <1>4, <1>5, <1>6 DEF computeTarget

\* No step of the pool, its timers or its environment leaves the ranges.
LEMMA PoolNextType ==
  ASSUME PoolAssumption, PoolTypeOK, [PoolNext]_poolVars
  PROVE  PoolTypeOK'
<1>1. CASE Finish
  BY <1>1 DEF Finish, PoolTypeOK, PoolAssumption
<1>2. CASE MainLoop
  <2>1. active' \in 0..MAX_CONCURRENCY /\ depth' \in 0..DepthMax
    BY <1>2, EnsureWorkersType DEF MainLoop, PoolTypeOK
  <2> QED
    BY <1>2, <2>1 DEF MainLoop, PoolTypeOK
<1>3. CASE AdjustTarget
  <2>1. ctl' \in [target : MIN_CONCURRENCY..MAX_CONCURRENCY,
                  throughput : Deltas \cup {0}, direction : {-1, 0, 1}, streak : {0, 1}]
    BY <1>3, TargetType DEF AdjustTarget
  <2>2. active' \in 0..MAX_CONCURRENCY /\ depth' \in 0..DepthMax
    BY <1>3, <2>1, EnsureWorkersType DEF AdjustTarget, PoolTypeOK
  <2> QED
    BY <1>3, <2>1, <2>2 DEF AdjustTarget, PoolTypeOK
<1>4. CASE Enqueued
  BY <1>4 DEF Enqueued, PoolTypeOK, PoolAssumption
<1>5. CASE TicketIn
  BY <1>5 DEF TicketIn, PoolTypeOK, PoolAssumption
<1>6. CASE TicketOut
  BY <1>6 DEF TicketOut, PoolTypeOK, PoolAssumption
<1>7. CASE Environment
  BY <1>7 DEF Environment, PoolTypeOK
<1>8. CASE UNCHANGED poolVars
  BY <1>8 DEF poolVars, PoolTypeOK
<1> QED
  BY <1>1, <1>2, <1>3, <1>4, <1>5, <1>6, <1>7, <1>8 DEF PoolNext

\* For every choice of the bounds, steps, thresholds and caps the target stays
\* between the minimum and the maximum, and so does the number of workers
\* that computeTarget and ensureWorkers leave running.
THEOREM PoolTypeCorrect == PoolAssumption => (PoolSpec => []PoolTypeOK)
<1> SUFFICES ASSUME PoolAssumption PROVE PoolSpec => []PoolTypeOK
  OBVIOUS
<1>1. PoolInit => PoolTypeOK
  <2> SUFFICES ASSUME PoolInit PROVE PoolTypeOK
    OBVIOUS
  <2>1. BASE_CONCURRENCY \in MIN_CONCURRENCY..MAX_CONCURRENCY
    BY DEF PoolAssumption
  <2>2. 0 \in 0..DepthMax /\ 0 \in 0..MAX_CONCURRENCY
    BY DEF PoolAssumption
  <2> QED
    BY <2>1, <2>2 DEF PoolInit, PoolTypeOK, Strains
<1>2. PoolTypeOK /\ [PoolNext]_poolVars => PoolTypeOK'
  BY PoolNextType
<1> QED
  BY <1>1, <1>2, PTL DEF PoolSpec

====
