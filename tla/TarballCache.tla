---------------------------- MODULE TarballCache ----------------------------
(***************************************************************************)
(* The tarballs that are captured when a version is published, so that its *)
(* scan, maybe hours later, does not depend on the registry: the pool of   *)
(* downloads of src/src/monitor/tarball-prefetch.js, the cache of          *)
(* src/src/monitor/state.js with its index, its purge and its restarts,    *)
(* and the scan that reads and fills it (src/src/monitor/queue.js).        *)
(*                                                                         *)
(* A publication is named by its cache key.  Time is the two retentions of *)
(* the code: what is cached is of age 0, past the 7 days (1) or past the   *)
(* 30 days (2).  Tarballs have one size.                                   *)
(***************************************************************************)
EXTENDS Naturals, FiniteSets, Sequences, SequencesExt

CONSTANTS Keys,
          NoFile,
          Retention,    \* of each key: 0 (no trigger), 1 (7 days) or 2 (30 days)
          Concurrency, MaxInflight,
          CacheMax,     \* tarballs that fit the size budget
          MaxFaults     \* bound: deaths of the process

Ages == 0..2
File == [age : Ages, whole : BOOLEAN]

CacheAssumption ==
  /\ NoFile \notin File \cup Ages
  /\ IsFiniteSet(Keys) /\ Retention \in [Keys -> 0..2]
  /\ Concurrency \in Nat \ {0} /\ MaxInflight \in Nat /\ MaxInflight >= Concurrency
  /\ CacheMax \in Nat /\ MaxFaults \in Nat

VARIABLES pending,     \* _pending
          downloads,   \* the tasks counted by _active
          inFlight,    \* _inFlightKeys
          files,       \* the tarballs on disk, with their age by mtime
          index,       \* tarballCacheIndex: the age of each entry by cachedAt
          indexFile,   \* cache-index.json
          scan,        \* of each key
          booting,     \* between the start of the process and its first purge
          captured,    \* history: captures within their retention and the budget
          faults       \* history: deaths of the process

pool == <<pending, downloads, inFlight>>
cache == <<files, index, indexFile>>
cacheVars == <<pool, cache, scan, booting, captured, faults>>

CacheTypeOK ==
  /\ pending \in Seq(Keys) /\ downloads \subseteq Keys /\ inFlight \subseteq Keys
  /\ files \in [Keys -> File \cup {NoFile}]
  /\ index \in [Keys -> Ages \cup {NoFile}] /\ indexFile \in [Keys -> Ages \cup {NoFile}]
  /\ scan \in [Keys -> {"none", "queued", "fetching"}]
  /\ booting \in BOOLEAN /\ captured \subseteq Keys /\ faults \in 0..MaxFaults

Empty == [k \in Keys |-> NoFile]

CacheInit ==
  /\ pending = <<>> /\ downloads = {} /\ inFlight = {}
  /\ files = Empty /\ index = Empty /\ indexFile = Empty
  /\ scan = [k \in Keys |-> "none"]
  /\ booting = FALSE /\ captured = {} /\ faults = 0

-----------------------------------------------------------------------------
(* The pool of downloads *)

\* _pump with the probe of _runTask: tasks leave the line in order until Concurrency
\* of them download; one whose tarball is cached ends at once.
Pumped(line, busy, known, cached) ==
  LET Misses(n) == {line[i] : i \in 1..n} \ cached
      free == Concurrency - Cardinality(busy)
      n == CHOOSE n \in 0..Len(line) :
             /\ Cardinality(Misses(n)) <= free
             /\ n = Len(line) \/ Cardinality(Misses(n)) = free
             /\ \A m \in 0..(n - 1) : Cardinality(Misses(m)) < free
  IN  /\ pending' = SubSeq(line, n + 1, Len(line))
      /\ downloads' = busy \cup Misses(n)
      /\ inFlight' = known \ ({line[i] : i \in 1..n} \cap cached)

Cached(fs) == {k \in Keys : fs[k] # NoFile}

\* Mutant: a key that is downloading may be scheduled again.
AcceptedPending(line, k) ==
  Retention[k] > 0 /\ k \notin Range(line) /\ Len(line) + Cardinality(downloads) < MaxInflight

\* A triggered version that is neither pending nor downloading, within the bound.
Accepted(line, k) ==
  /\ Retention[k] > 0
  /\ k \notin Range(line) \cup inFlight
  /\ Len(line) + Cardinality(downloads) < MaxInflight

Offered(line, k) == IF Accepted(line, k) THEN Append(line, k) ELSE line

\* schedulePrefetch for a batch of the feed, whose items are queued for a scan; the
\* feed may repeat a version.
Schedule(k, l) ==
  \E line \in {Offered(Offered(pending, k), l)} :
    Pumped(line, downloads, inFlight \cup Range(line), Cached(files))

Publish ==
  /\ ~booting
  /\ \E k, l \in Keys :
       /\ Schedule(k, l)
       /\ scan' = [n \in Keys |-> IF n \in {k, l} /\ scan[n] = "none"
                                  THEN "queued" ELSE scan[n]]
  /\ UNCHANGED <<cache, booting, captured, faults>>

-----------------------------------------------------------------------------
(* The cache *)

\* cacheTarball: the copy, then the entry and the saved index.
CacheTarball(k) ==
  /\ files' = [files EXCEPT ![k] = [age |-> 0, whole |-> TRUE]]
  /\ index' = [index EXCEPT ![k] = 0]
  /\ indexFile' = index'
  /\ captured' = captured \cup {k}

\* The download fails, or the tarball is cached; then the next task begins.
Downloaded(k) ==
  /\ k \in downloads
  /\ \/ CacheTarball(k)
     \/ UNCHANGED <<cache, captured>>
  /\ Pumped(pending, downloads \ {k}, inFlight \ {k}, Cached(files'))
  /\ UNCHANGED <<scan, booting, faults>>

Expired(k) == index[k] # NoFile /\ index[k] >= Retention[k]

\* Mutant: orphans go after the shorter retention.
StaleShort(f) == f.age >= 1

\* Older than every retention, whatever the lost entry said.
Stale(f) == f.age >= 2

\* Mutant: the purge follows the index alone.
OrphansNone(tracked) == {}

\* gcOrphanTarballFiles.
Orphans(tracked) == {k \in Keys \ tracked : files[k] # NoFile /\ Stale(files[k])}

\* What a purge removes: the expired, the oldest while the budget is exceeded, and the
\* orphans.
Evictions ==
  LET rest == {k \in Keys : index[k] # NoFile /\ ~Expired(k)}
      excess == IF Cardinality(rest) > CacheMax THEN Cardinality(rest) - CacheMax ELSE 0
  IN  {E \in SUBSET rest : /\ Cardinality(E) = excess
                           /\ \A k \in E, l \in rest \ E : index[k] >= index[l]}

\* purgeTarballCache, at the start and hourly.
Purge ==
  \E evicted \in Evictions :
    LET out == {k \in Keys : Expired(k)} \cup evicted
        tracked == {k \in Keys : index[k] # NoFile} \ out
    IN  /\ files' = [k \in Keys |-> IF k \in out \cup Orphans(tracked) THEN NoFile ELSE files[k]]
        /\ index' = [k \in Keys |-> IF k \in out THEN NoFile ELSE index[k]]
        /\ indexFile' = IF out = {} THEN indexFile ELSE index'
        /\ captured' = {k \in captured \ evicted :
                          files[k] # NoFile /\ files[k].age < Retention[k]}
        /\ booting' = FALSE
        /\ UNCHANGED <<pool, scan, faults>>

\* A retention passes.
Older(n) == IF n = NoFile THEN NoFile ELSE IF n = 2 THEN 2 ELSE n + 1

Tick ==
  /\ files' = [k \in Keys |-> IF files[k] = NoFile THEN NoFile
                              ELSE [files[k] EXCEPT !.age = Older(@)]]
  /\ index' = [k \in Keys |-> Older(index[k])]
  /\ indexFile' = [k \in Keys |-> Older(indexFile[k])]
  /\ UNCHANGED <<pool, scan, booting, captured, faults>>

-----------------------------------------------------------------------------
(* The scan *)

\* scanPackage copies what is cached; if there is nothing, or the copy fails, it
\* downloads.
ScanBegins(k) ==
  /\ ~booting /\ scan[k] = "queued"
  /\ scan' = [scan EXCEPT ![k] = "fetching"]
  /\ UNCHANGED <<pool, cache, booting, captured, faults>>

ScanHits(k) ==
  /\ ~booting /\ scan[k] = "queued" /\ files[k] # NoFile
  /\ scan' = [scan EXCEPT ![k] = "none"]
  /\ UNCHANGED <<pool, cache, booting, captured, faults>>

ScanFetched(k) ==
  /\ scan[k] = "fetching"
  /\ \/ Retention[k] > 0 /\ CacheTarball(k)
     \/ UNCHANGED <<cache, captured>>
  /\ scan' = [scan EXCEPT ![k] = "none"]
  /\ UNCHANGED <<pool, booting, faults>>

-----------------------------------------------------------------------------
(* Restarts *)

\* The process dies: in an await, while it copies a tarball into the cache, between
\* that copy and the index, or before a purge has saved the index.  An index that
\* cannot be loaded is empty.
Die ==
  /\ faults < MaxFaults
  /\ faults' = faults + 1
  /\ \/ UNCHANGED <<files, captured>>
     \/ \E k \in downloads \cup {l \in Keys : scan[l] = "fetching" /\ Retention[l] > 0},
           whole \in BOOLEAN :
          /\ files' = [files EXCEPT ![k] = [age |-> 0, whole |-> whole]]
          /\ captured' = captured \ {k}
     \/ \E evicted \in Evictions : \E removed \in SUBSET ({k \in Keys : Expired(k)} \cup evicted) :
          /\ files' = [k \in Keys |-> IF k \in removed THEN NoFile ELSE files[k]]
          /\ captured' = captured \ removed
  /\ index' \in {indexFile, Empty}
  /\ pending' = <<>> /\ downloads' = {} /\ inFlight' = {}
  /\ scan' = [k \in Keys |-> IF scan[k] = "none" THEN "none" ELSE "queued"]
  /\ booting' = TRUE
  /\ UNCHANGED indexFile

CacheNext ==
  \/ Publish \/ Purge \/ Tick \/ Die
  \/ \E k \in Keys : Downloaded(k) \/ ScanBegins(k) \/ ScanHits(k) \/ ScanFetched(k)

CacheSpec == CacheInit /\ [][CacheNext]_cacheVars

-----------------------------------------------------------------------------
(* Properties *)

\* A version that was captured stays so for as long as its trigger asked for, unless
\* the size budget evicts it: neither a purge nor the collection of orphans takes it
\* earlier, although deaths of the process lose the index or leave it behind the files.
CaptureKept == \A k \in captured : files[k] # NoFile /\ files[k].whole

\* No version is downloaded twice at once (both would write to one temporary file),
\* and the pool keeps to its bounds, although its key is free again only after the
\* download, and cached tarballs end their tasks on the way.
PrefetchAccounted ==
  /\ IsInjective(pending)
  /\ Range(pending) \cap downloads = {}
  /\ inFlight = Range(pending) \cup downloads
  /\ Cardinality(downloads) <= Concurrency
  /\ Len(pending) + Cardinality(downloads) <= MaxInflight

\* No tarball stays on disk for ever: a purge takes all that are past every retention,
\* also those whose entry is lost or was written again while they aged.
StaleReclaimed ==
  [][Purge => \A k \in Keys : files'[k] = NoFile \/ ~Stale(files'[k])]_cacheVars

=============================================================================
