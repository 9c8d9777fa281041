---------------------------- MODULE ScanResources ----------------------------
(***************************************************************************)
(* The way of a scan through the bounded resources it needs: a thread of   *)
(* the extraction pool, a memory ticket for its static scan, and a slot of *)
(* the sandbox if its result asks for one (scanPackage, runScanInWorker,   *)
(* src/src/monitor/queue.js, and runSandbox, src/src/sandbox/index.js).    *)
(* The outer abort takes a waiter out of the ticket queue and terminates   *)
(* the static worker; it does not interrupt an extraction nor the wait for *)
(* a slot, and a sandbox run only ends the sooner for it.  A ticket wait   *)
(* that times out sends the item back to the scan queue, the last pass     *)
(* waits without a bound.  The quick look into an archive over the size cap is an        *)
(* extraction like any other; that the scan goes on after its failure, on  *)
(* the word of the registry's metadata, is left out.                       *)
(***************************************************************************)
EXTENDS MemoryGovernor, ExtractPool, SandboxSlots

CONSTANTS HeavyRequeueMax,  \* HEAVY_REQUEUE_MAX
          FirstPublish,     \* scans of a first version, from a maintainer at risk
          Suspects          \* scans whose findings may be of tier 1b or 2

ASSUME RequeueAssumption ==
  HeavyRequeueMax \in Nat /\ FirstPublish \subseteq Scans /\ Suspects \subseteq Scans

VARIABLES stage,    \* where each scan is
          aborted,  \* the scans whose outer AbortSignal has fired
          retries   \* item._heavyRetries

vars == <<gov, waiters, sampled, budget, frozen, pending, running, idle, pool,
          slots, slotLine, stage, aborted, retries>>

\* "fetch": extracted, awaiting the registry metadata; "scan": holds a ticket; "slot":
\* awaits one for the sandbox; "first", "inline": the run of a first version, of a suspect.
Stages == {"out", "extract", "fetch", "wait", "scan", "slot", "first", "inline"}

TypeOK ==
  /\ GovernorTypeOK /\ PoolTypeOK(Scans) /\ SlotsTypeOK(Scans)
  /\ stage \in [Scans -> Stages]
  /\ aborted \in SUBSET Scans
  /\ retries \in [Scans -> 0..HeavyRequeueMax]

Init ==
  /\ GovernorInit /\ PoolInit /\ SlotsInit
  /\ stage = [s \in Scans |-> "out"]
  /\ aborted = {}
  /\ retries = [s \in Scans |-> 0]

\* The waiters that a release or a thaw has woken.
Woken == Range(waiters) \ Range(waiters')

\* The scan is over: scanned, failed, timed out or aborted.
Over(s) ==
  /\ stage' = [stage EXCEPT ![s] = "out"]
  /\ aborted' = aborted \ {s}
  /\ retries' = [retries EXCEPT ![s] = 0]

\* extractGated; a refused extraction is the end of the scan.
Extract(s) ==
  /\ stage[s] = "out" /\ Submit(s)
  /\ stage' = [stage EXCEPT ![s] = "extract"]
  /\ UNCHANGED <<governorVars, sandboxVars, aborted, retries>>

\* The thread has answered: the package is on disk, or it could not be extracted.
ExtractDone(s) ==
  /\ Answered(s)
  /\ stage' = [stage EXCEPT ![s] = "fetch"]
  /\ UNCHANGED <<governorVars, sandboxVars, aborted, retries>>

ExtractFails(s) ==
  /\ Answered(s) \/ ThreadLost(s)
  /\ Over(s)
  /\ UNCHANGED <<governorVars, sandboxVars>>

LosesThread == IdleThreadLost /\ UNCHANGED <<governorVars, sandboxVars, stage, aborted, retries>>

\* The pool's threads are destroyed at the shutdown, while the worker loops go on.
DestroyPool ==
  /\ Destroy
  /\ LET Rejected == Range(pending) \cup running
     IN  /\ stage' = [s \in Scans |-> IF s \in Rejected THEN "out" ELSE stage[s]]
         /\ aborted' = aborted \ Rejected
         /\ retries' = [s \in Scans |-> IF s \in Rejected THEN 0 ELSE retries[s]]
  /\ UNCHANGED <<governorVars, sandboxVars>>

PoolDestroyed == Destroyed /\ UNCHANGED <<governorVars, sandboxVars, stage, aborted, retries>>

\* Past the registry fetch: the ticket is granted, awaited, or refused at once to a scan
\* that was aborted meanwhile.
Admit(s) ==
  /\ stage[s] = "fetch"
  /\ TicketTaken(s)
  /\ stage' = [stage EXCEPT ![s] = "scan"]
  /\ UNCHANGED <<poolVars, sandboxVars, aborted, retries>>

Queue(s) ==
  /\ stage[s] = "fetch" /\ s \notin aborted
  /\ TicketAwaited(s)
  /\ stage' = [stage EXCEPT ![s] = "wait"]
  /\ UNCHANGED <<poolVars, sandboxVars, aborted, retries>>

Refused(s) ==
  /\ stage[s] = "fetch" /\ s \in aborted /\ ~Admissible(s)
  /\ Over(s)
  /\ UNCHANGED <<governorVars, poolVars, sandboxVars>>

\* The outer SCAN_TIMEOUT_MS abort.
Abort(s) ==
  /\ stage[s] \in {"extract", "fetch", "wait", "scan"} /\ s \notin aborted
  /\ \/ /\ stage[s] = "wait"
        /\ TicketRefused(s) /\ Over(s)
     \/ /\ stage[s] # "wait"
        /\ aborted' = aborted \cup {s}
        /\ UNCHANGED <<governorVars, stage, retries>>
  /\ UNCHANGED <<poolVars, sandboxVars>>

\* TICKET_WAIT_TIMEOUT: the item is queued again.
WaitTimeout(s) ==
  /\ stage[s] = "wait" /\ retries[s] < HeavyRequeueMax
  /\ TicketRefused(s)
  /\ stage' = [stage EXCEPT ![s] = "out"]
  /\ retries' = [retries EXCEPT ![s] = @ + 1]
  /\ aborted' = aborted \ {s}
  /\ UNCHANGED <<poolVars, sandboxVars>>

\* runScanInWorker settles, whatever its outcome; the finally releases the ticket.  The
\* scan is over, its sandbox deferred or not, unless a run follows at once.
StaticEnds(s) ==
  LET Then(next) == stage' = [t \in Scans |->
        IF t = s THEN next ELSE IF t \in Woken THEN "scan" ELSE stage[t]]
  IN  /\ stage[s] = "scan"
      /\ TicketReleased(s)
      /\ \/ Then("out") /\ UNCHANGED sandboxVars
         \/ s \in FirstPublish \ aborted /\ SlotTaken /\ Then("first")
         \/ s \in FirstPublish \ aborted /\ SlotAwaited(s) /\ Then("slot")
         \/ s \in Suspects \ aborted /\ SlotTaken /\ Then("inline")
      /\ aborted' = aborted \ {s}
      /\ retries' = [retries EXCEPT ![s] = 0]
      /\ UNCHANGED poolVars

\* runSandbox returns: its finally releases the slot, unless skipSemaphore is set.
FirstRunEnds(s) ==
  /\ stage[s] = "first"
  /\ SlotReleased
  /\ stage' = [t \in Scans |->
       IF t = s THEN "out" ELSE IF slotLine # <<>> /\ t = Head(slotLine) THEN "first" ELSE stage[t]]
  /\ UNCHANGED <<governorVars, poolVars, aborted, retries>>

InlineRunEnds(s) ==
  /\ stage[s] = "inline"
  /\ stage' = [stage EXCEPT ![s] = "out"]
  /\ UNCHANGED <<governorVars, poolVars, sandboxVars, aborted, retries>>

\* The breaker's sample, every two seconds.
Rss ==
  /\ \E ice \in BOOLEAN, left \in Budgets : UpdateRss(ice, left)
  /\ stage' = [s \in Scans |-> IF s \in Woken THEN "scan" ELSE stage[s]]
  /\ UNCHANGED <<poolVars, sandboxVars, aborted, retries>>

Next ==
  \/ \E s \in Scans :
       \/ Extract(s) \/ ExtractDone(s) \/ ExtractFails(s)
       \/ Admit(s) \/ Queue(s) \/ Refused(s)
       \/ Abort(s) \/ WaitTimeout(s) \/ StaticEnds(s)
       \/ FirstRunEnds(s) \/ InlineRunEnds(s)
  \/ LosesThread \/ DestroyPool \/ PoolDestroyed \/ Rss

Spec == Init /\ [][Next]_vars

\* A thread answers or is removed at the job timeout, the registry fetch, the static
\* scan and a sandbox run have timeouts.  Neither aborts, wait timeouts, samples nor new scans are assumed.
Fairness ==
  \A s \in Scans :
    WF_vars(\/ ExtractDone(s) \/ ExtractFails(s)
            \/ Admit(s) \/ Queue(s) \/ Refused(s)
            \/ StaticEnds(s) \/ FirstRunEnds(s) \/ InlineRunEnds(s))

FairSpec == Spec /\ Fairness

-----------------------------------------------------------------------------
(* Properties *)

Holders == {s \in Scans : stage[s] = "scan"}

Held(c) == {s \in Holders : Weight[s] = c}
MbHeld(c) == Mb[c] * Cardinality(Held(c))

\* The governor's three counters are the sums over the static scans that run: no ticket is
\* leaked to a waiter that left, none is given back twice, and no clamp hides either.
TicketsAccounted ==
  /\ gov.count = Cardinality(Holders)
  /\ gov.mb = MbHeld("light") + MbHeld("medium") + MbHeld("heavy")
  /\ gov.heavyMb = MbHeld("heavy")

\* A waiter waits for a reason: it could not be admitted now, and what it waits for is a
\* scan that will give its ticket back (or a budget it does not fit in even alone).
GovernorMoves ==
  \A s \in Range(waiters) :
    /\ ~CanAdmit(gov, s, frozen)
    /\ gov.count > 0 \/ ~Fits([mb |-> 0, heavyMb |-> 0, count |-> 0], s)

\* A scan that is being extracted is in exactly one place of the pool, and waits there only
\* while every thread the pool may have is busy.
JobsAccounted ==
  /\ {s \in Scans : stage[s] = "extract"} = Range(pending) \cup running
  /\ Range(pending) \cap running = {} /\ IsInjective(pending)
  /\ pending # <<>> => Cardinality(running) = PoolSize

\* Containers of the main path stay within the slots, and whoever waits for one waits
\* while all are taken.
SandboxRuns == {s \in Scans : stage[s] \in {"first", "inline"}}

SandboxBounded ==
  /\ Cardinality(SandboxRuns) <= slots
  /\ {s \in Scans : stage[s] = "slot"} = Range(slotLine)
  /\ slotLine # <<>> => slots = SandboxMax

\* Tickets, jobs and containers are where the counters of the three resources say.
ResourcesAccounted == TicketsAccounted /\ JobsAccounted /\ SandboxBounded

\* A slot that is taken has a run: otherwise suspects are deferred, and first versions
\* wait, for slots that nobody uses.
SlotsReturned == slots <= Cardinality(SandboxRuns)

\* Extractions end, and a light scan gets its ticket whatever the heavies do, also under
\* resident memory that stays over the soft limit for good.
LightsServed ==
  /\ \A s \in Scans : []<>(stage[s] # "extract")
  /\ \A s \in {t \in Scans : Weight[t] = "light"} : []<>(stage[s] # "wait")

=============================================================================
