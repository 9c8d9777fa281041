------------------------------- MODULE Ingestion -------------------------------
(***************************************************************************)
(* How a publication gets from a registry to the scan queue, and what a    *)
(* restart remembers of it: the pollers of src/src/monitor/ingestion.js,   *)
(* the poll loop and the snapshots of src/src/monitor/daemon.js, and the   *)
(* cursors of src/src/monitor/state.js.                                    *)
(*                                                                         *)
(* A poll has an npm half and a PyPI half that share no state but the      *)
(* queue; a behaviour follows one of them, feed, and the other one is the  *)
(* delay between the end of this half and the end of the poll.  Change n   *)
(* is the n-th entry of npm's changes stream or of PyPI's changelog that   *)
(* the filters let through (deletions, design documents, type packages and *)
(* ownership changes are not counted).  The queue and its snapshot are     *)
(* sets; what a worker has taken is ScanQueue's and ScanLifecycle's        *)
(* matter.  A restart comes within the 24 hours a snapshot is valid.       *)
(***************************************************************************)
EXTENDS Naturals, FiniteSets

CONSTANTS Polls,       \* poll cycles that can be alive at once: the scheduler's, and
                       \*   those its watchdog has given up on
          None,        \* no poll; no cursor
          Last,        \* bound: how many changes the feed will have
          Limit,       \* most changes one answer carries (CHANGES_LIMIT, ~50K events)
          ProbeMin,    \* answers this long make the poller ask how far behind it is
          CatchupMax,  \* CHANGES_CATCHUP_MAX, PYPI_CATCHUP_MAX
          ChunkSize,   \* PRE_RESOLVE_CHUNK_SIZE
          Backpressure,\* SOFT_BACKPRESSURE_THRESHOLD
          Reports,     \* whether `muaddib report --now` is ever run
          MaxFaults     \* bound: crashes, shutdowns, hangs, polls given up on

Feeds == {"npm", "pypi"}

ASSUME IngestionAssumption ==
  /\ None \notin Nat /\ None \notin Polls
  /\ Last \in Nat /\ Limit \in [Feeds -> Nat \ {0}]
  /\ ProbeMin \in [Feeds -> Nat \ {0}] /\ CatchupMax \in [Feeds -> Nat]
  /\ ChunkSize \in Nat \ {0} /\ Backpressure \in Nat
  /\ Reports \in BOOLEAN /\ MaxFaults \in Nat

VARIABLES feed,       \* the registry followed
          head,       \* its newest change
          cursor,     \* state.npmLastSeq or state.pypiLastSerial
          half,       \* what this half of each poll is doing
          current,    \* the poll the scheduler waits for: pollInProgress
          queue,      \* scanQueue
          queueFile,  \* QUEUE_STATE_FILE
          stateFile,  \* the cursor in STATE_FILE
          cursorFile, \* NPM_SEQ_FILE or PYPI_SERIAL_FILE
          phase,      \* of the process
          restored,   \* changes whose only copy on disk the restore has deleted
          settled,    \* history: changes a worker has taken; changes a catch-up or an
                      \*   initialisation has passed over; and those lost in three windows:
                      \*   with a restored queue not saved again (Crash), by resuming from a
                      \*   cursor file ahead of the snapshot (Boot), by a poll that advances
                      \*   while a shutdown sends alert groups (Exit)
          faults       \* history

vars == <<feed, head, cursor, half, current, queue, queueFile, stateFile, cursorFile, phase,
          restored, settled, faults>>
disk == <<queueFile, stateFile>>
history == <<settled, faults>>

Seqs == 0..Last
Awaiting == {"init", "fetch", "reinit", "probe", "push", "rss"}
Steps == Awaiting \cup {"off", "hung", "done"}
Half == [at : Steps, from : Seqs, upto : Seqs, todo : SUBSET Seqs]

TypeOK ==
  /\ feed \in Feeds /\ head \in Seqs
  /\ cursor \in Seqs \cup {None}
  /\ stateFile \in Seqs \cup {None} /\ cursorFile \in Seqs \cup {None}
  /\ half \in [Polls -> Half]
  /\ current \in Polls \cup {None}
  /\ phase \in {"boot", "up", "draining", "saved", "down"}
  /\ queue \subseteq Seqs /\ queueFile \subseteq Seqs /\ restored \subseteq Seqs
  /\ settled \subseteq Seqs /\ faults \in 0..MaxFaults

At(step) == [at |-> step, from |-> 0, upto |-> 0, todo |-> {}]

Init ==
  /\ feed \in Feeds /\ head = 0
  /\ cursor = None /\ stateFile = None /\ cursorFile = None
  /\ half = [p \in Polls |-> At("off")]
  /\ current = None /\ phase = "down"
  /\ queue = {} /\ queueFile = {} /\ restored = {}
  /\ settled = {} /\ faults = 0

Publish ==
  /\ head < Last
  /\ head' = head + 1
  /\ UNCHANGED <<feed, cursor, half, current, queue, disk, cursorFile, phase, restored, history>>

-----------------------------------------------------------------------------
(* A half of a poll.  An action is what runs between two awaits. *)

Running == phase # "down"
Is(p, step) == Running /\ half[p].at = step
Becomes(p, h) == half' = [half EXCEPT ![p] = h]

\* The half returns; of an abandoned poll, nobody waits for it.
Returns(p) == Becomes(p, At(IF current = p THEN "done" ELSE "off"))

Asked == UNCHANGED <<feed, head, cursor, current, queue, disk, cursorFile, phase, restored, history>>
Moved == UNCHANGED <<feed, head, current, queue, disk, phase, restored, faults>>

\* First run: anchored to "now".
InitAnswer(p) ==
  /\ Is(p, "init")
  /\ cursor' = head /\ cursorFile' = head
  /\ settled' = settled \cup 1..head
  /\ Returns(p) /\ Moved

\* Mutant: takes every answer for a full one.
FetchAnswerFull(p) ==
  LET from == half[p].from
      upto == from + Limit[feed]
  IN  /\ Is(p, "fetch") /\ from <= head
      /\ Becomes(p, [at |-> "push", from |-> from, upto |-> upto, todo |-> (from + 1)..upto])
      /\ Asked

\* The stream answers.  A long answer leads to one more question.
FetchAnswer(p) ==
  LET from == half[p].from
      upto == IF head > from + Limit[feed] THEN from + Limit[feed] ELSE head
      h    == [at |-> "push", from |-> from, upto |-> upto, todo |-> (from + 1)..upto]
  IN  /\ Is(p, "fetch") /\ from <= head
      /\ CASE upto = from /\ feed = "pypi" -> Returns(p)
           [] upto >= from + ProbeMin[feed] -> Becomes(p, [h EXCEPT !.at = "probe", !.todo = {}])
           [] OTHER -> Becomes(p, h)
      /\ Asked

\* The request fails: npm tries to anchor itself anew.
FetchError(p) ==
  /\ Is(p, "fetch") /\ feed = "npm"
  /\ Becomes(p, [half[p] EXCEPT !.at = "reinit"])
  /\ Asked

\* Any failed attempt to fetch sets npm's cursor to the registry's; what lay between is
\* neither queued nor counted.
ReinitAnswer(p) ==
  /\ Is(p, "reinit")
  /\ cursor' = head /\ cursorFile' = head
  /\ settled' = settled \cup (half[p].from + 1)..head
  /\ Returns(p) /\ Moved

\* No answer, an answer without a cursor, or a fault: the poller returns -1, and its
\* caller turns to RSS, which fails or lists the newest changes.  Those above the last one
\* seen (npmLastPackage, pypiLastPackage, not modelled: any) will be queued.
Fallback(p, seen) ==
  /\ \E step \in {"init", "fetch", "reinit", "probe"} : Is(p, step)
  /\ seen <= head
  /\ Becomes(p, [At("rss") EXCEPT !.todo = (seen + 1)..head])
  /\ Asked

CatchUp(p, n) ==
  /\ cursor' = n /\ cursorFile' = n
  /\ settled' = settled \cup (half[p].from + 1)..n
  /\ Returns(p)

StartPush(p) ==
  /\ Becomes(p, [half[p] EXCEPT !.at = "push", !.todo = (half[p].from + 1)..half[p].upto])
  /\ UNCHANGED <<cursor, cursorFile, settled>>

\* Too far behind: skip to the present.  npm measures from the end of the batch, PyPI
\* from its beginning, and PyPI skips a batch that is too long by itself when the
\* registry does not say where it is.
ProbeAnswer(p, known) ==
  LET h == half[p]
      tooFar == known /\ head > CatchupMax[feed] + (IF feed = "npm" THEN h.upto ELSE h.from)
      tooLong == feed = "pypi" /\ h.upto > CatchupMax[feed] + h.from
  IN  /\ Is(p, "probe")
      /\ \/ tooFar /\ CatchUp(p, head)
         \/ ~tooFar /\ tooLong /\ CatchUp(p, h.upto)
         \/ ~tooFar /\ ~tooLong /\ StartPush(p)
      /\ Moved

\* One chunk has been resolved, or is shed unresolved: its changes enter the queue.
PushChunk(p) ==
  LET todo == half[p].todo
      chunk == {n \in todo : Cardinality({m \in todo : m < n}) < ChunkSize}
  IN  /\ Is(p, "push") \/ Is(p, "rss")
      /\ todo # {}
      /\ queue' = queue \cup chunk
      /\ Becomes(p, [half[p] EXCEPT !.todo = @ \ chunk])
      /\ UNCHANGED <<feed, head, cursor, current, disk, cursorFile, phase, restored, history>>

\* Mutant: advances after the first chunk.
AdvanceEarly(p) ==
  /\ Is(p, "push")
  /\ cursor' = half[p].upto
  /\ UNCHANGED cursorFile
  /\ Returns(p)
  /\ UNCHANGED settled /\ Moved

\* Everything is queued: the cursor advances, npm's in memory only, PyPI's also in the
\* file of its own.
Advance(p) ==
  /\ Is(p, "push") /\ half[p].todo = {}
  /\ cursor' = half[p].upto
  /\ IF feed = "pypi" THEN cursorFile' = half[p].upto ELSE UNCHANGED cursorFile
  /\ Returns(p)
  /\ UNCHANGED settled /\ Moved

\* The RSS fallback moves no cursor.
RssEnd(p) ==
  /\ Is(p, "rss") /\ half[p].todo = {}
  /\ Returns(p) /\ Asked

-----------------------------------------------------------------------------
(* The scheduler *)

\* Mutant: the cursor at once, the queue with the next timer.
SaveCursorOnly ==
  /\ restored' = {} /\ UNCHANGED queueFile
  /\ IF feed = "npm" THEN cursorFile' = cursor ELSE UNCHANGED cursorFile
  /\ stateFile' = cursor
  /\ phase' = IF phase = "boot" THEN "up" ELSE phase

\* persistQueue, saveNpmSeq and saveState, one after the other.
SaveAll ==
  /\ queueFile' = queue /\ restored' = {}
  /\ IF feed = "npm" THEN cursorFile' = cursor ELSE UNCHANGED cursorFile
  /\ stateFile' = cursor
  /\ phase' = IF phase = "boot" THEN "up" ELSE phase

\* poll: the half reads its cursor and sends its first request.
StartPoll(p) ==
  /\ phase \in {"boot", "up"} /\ current = None /\ half[p].at = "off"
  /\ Cardinality(queue) < Backpressure
  /\ current' = p
  /\ Becomes(p, IF cursor = None THEN At("init") ELSE [At("fetch") EXCEPT !.from = cursor])
  /\ UNCHANGED <<feed, head, cursor, queue, disk, cursorFile, phase, restored, history>>

\* A poll that the depth of the queue or the memory pressure, which may be critical at
\* any time, turns into nothing is followed by the same saves.
SkipPoll ==
  /\ phase \in {"boot", "up"} /\ current = None
  /\ SaveAll
  /\ UNCHANGED <<feed, head, cursor, half, current, queue, history>>

FinishPoll(p) ==
  /\ Is(p, "done") /\ current = p
  /\ current' = None /\ Becomes(p, At("off"))
  /\ SaveAll
  /\ UNCHANGED <<feed, head, cursor, queue, history>>

\* A promise the poll awaits never settles.  The initial poll has no watchdog: the daemon
\* would wait for it for ever, and that is left out.
Hang(p) ==
  /\ phase = "up" /\ current = p /\ half[p].at \in Awaiting /\ faults < MaxFaults
  /\ faults' = faults + 1
  /\ Becomes(p, At("hung"))
  /\ UNCHANGED <<feed, head, cursor, current, queue, disk, cursorFile, phase, restored, settled>>

\* Mutant: the flag is not released.
WatchdogKeepsFlag(p) ==
  /\ Running /\ phase # "boot" /\ current = p
  /\ UNCHANGED vars

\* The watchdog rejects: nothing is saved, the flag is released, and a poll that is only
\* slow goes on unattended.
Watchdog(p) ==
  /\ Running /\ phase # "boot" /\ current = p
  /\ current' = None
  /\ \/ half[p].at = "hung" /\ UNCHANGED <<half, faults>>
     \/ /\ half[p].at # "hung" /\ faults < MaxFaults
        /\ faults' = faults + 1
        /\ Becomes(p, IF half[p].at = "done" THEN At("off") ELSE half[p])
  /\ UNCHANGED <<feed, head, cursor, queue, disk, cursorFile, phase, restored, settled>>

\* The 60 s timer saves the queue and no cursor.
PersistTimer ==
  /\ phase = "up"
  /\ queueFile' = queue
  /\ UNCHANGED <<feed, head, cursor, half, current, queue, stateFile, cursorFile, phase, restored, history>>

\* A worker takes an item: none runs before the initial poll is over.
Take(n) ==
  /\ phase \in {"up", "draining", "saved"} /\ n \in queue
  /\ queue' = queue \ {n} /\ settled' = settled \cup {n}
  /\ UNCHANGED <<feed, head, cursor, half, current, disk, cursorFile, phase, restored, faults>>

-----------------------------------------------------------------------------
(* Stops and restarts *)

\* `muaddib report --now` is another process: it rewrites STATE_FILE with the package
\* names of the RSS feeds and without the cursors.
ReportNow ==
  /\ Reports /\ stateFile # None
  /\ stateFile' = None
  /\ UNCHANGED <<feed, head, cursor, half, current, queue, queueFile, cursorFile, phase, restored,
                 history>>

\* The changes up to cursor c.
Below(c) == IF c = None THEN {} ELSE 1..c

MemoryLost ==
  /\ phase' = "down"
  /\ cursor' = None /\ queue' = {} /\ current' = None /\ restored' = {}
  /\ half' = [p \in Polls |-> At("off")]

Crash ==
  /\ Running /\ faults < MaxFaults
  /\ faults' = faults + 1
  /\ MemoryLost
  /\ settled' = settled \cup restored
  /\ UNCHANGED <<feed, head, disk, cursorFile>>

Shutdown ==
  /\ phase \in {"boot", "up"} /\ faults < MaxFaults
  /\ faults' = faults + 1 /\ phase' = "draining"
  /\ UNCHANGED <<feed, head, cursor, half, current, queue, disk, cursorFile, restored, settled>>

\* gracefulShutdown saves the queue, sends the alert groups still pending, and saves the
\* state: with no group to send, at once.
ExitSaveQueue ==
  /\ phase = "draining"
  /\ phase' = "saved" /\ queueFile' = queue /\ restored' = {}
  /\ UNCHANGED <<feed, head, cursor, half, current, queue, stateFile, cursorFile, history>>

Exit ==
  /\ phase = "saved"
  /\ stateFile' = cursor
  /\ settled' = settled \cup (Below(cursor) \ queueFile)
  /\ MemoryLost
  /\ UNCHANGED <<feed, head, queueFile, cursorFile, faults>>

ExitAtOnce ==
  /\ phase = "draining"
  /\ queueFile' = queue /\ stateFile' = cursor
  /\ MemoryLost
  /\ UNCHANGED <<feed, head, cursorFile, history>>

\* loadState prefers the cursor of STATE_FILE; restoreQueue deletes the snapshot.
Resume == IF stateFile # None THEN stateFile ELSE cursorFile

Boot ==
  /\ phase = "down"
  /\ phase' = "boot"
  /\ cursor' = Resume
  /\ queue' = queueFile /\ restored' = queueFile /\ queueFile' = {}
  /\ settled' = settled \cup (IF stateFile # None THEN {} ELSE Below(cursorFile) \ queueFile)
  /\ UNCHANGED <<feed, head, half, current, stateFile, cursorFile, faults>>

Next ==
  \/ Publish
  \/ \E p \in Polls :
       \/ InitAnswer(p) \/ FetchAnswer(p) \/ FetchError(p)
       \/ \E seen \in Seqs : Fallback(p, seen)
       \/ \E known \in BOOLEAN : ProbeAnswer(p, known)
       \/ ReinitAnswer(p) \/ PushChunk(p) \/ Advance(p) \/ RssEnd(p)
       \/ StartPoll(p) \/ FinishPoll(p) \/ Hang(p) \/ Watchdog(p)
  \/ SkipPoll \/ PersistTimer \/ \E n \in Seqs : Take(n)
  \/ ReportNow \/ Crash \/ Shutdown \/ ExitSaveQueue \/ Exit \/ ExitAtOnce \/ Boot

Spec == Init /\ [][Next]_vars

\* Every request is answered or times out (httpsGet has a deadline), the rest of a poll is
\* local, and the watchdog ends one that hangs; the poll timer ticks while the memory is not
\* critical for ever; workers take items; the process is restarted.  A registry that is
\* asked for ever answers sometime.
Fairness ==
  /\ \A p \in Polls :
       /\ WF_vars(StartPoll(p)) /\ WF_vars(FinishPoll(p))
       /\ WF_vars(PushChunk(p)) /\ WF_vars(Advance(p)) /\ WF_vars(RssEnd(p))
       /\ SF_vars(InitAnswer(p)) /\ SF_vars(FetchAnswer(p)) /\ SF_vars(ProbeAnswer(p, TRUE))
       /\ WF_vars(\E seen \in Seqs : Fallback(p, seen))
       /\ WF_vars(half[p].at = "hung" /\ Watchdog(p))
  /\ WF_vars(Cardinality(queue) >= Backpressure /\ SkipPoll)
  /\ WF_vars(\E n \in Seqs : Take(n))
  /\ WF_vars(Boot) /\ WF_vars(ExitSaveQueue \/ ExitAtOnce) /\ WF_vars(Exit)

FairSpec == Spec /\ Fairness

-----------------------------------------------------------------------------
\* Whatever polls overlap, fail or are given up on, every change at or below the cursor in
\* memory is in the queue, has been taken, or was passed over knowingly.
CursorCovered == Below(cursor) \subseteq queue \cup settled

\* "persist queue AND seq together after each poll" (daemon.js:1131): every change at or
\* below the cursor of STATE_FILE is in the snapshot of the queue or was taken, whenever
\* the process dies, except in the three windows that settled names.
SavedCursorCovered == Below(stateFile) \subseteq queueFile \cup restored \cup settled

\* The cursor catches up with the registry, again and again: no poll that hangs, fails or
\* ends late stops the ingestion.
CatchesUp == []<>(cursor = head)

=============================================================================
