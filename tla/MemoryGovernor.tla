---------------------------- MODULE MemoryGovernor ----------------------------
(***************************************************************************)
(* The memory governor (src/src/monitor/memory-governor.js), which takes   *)
(* the heavy lane's place when MUADDIB_MEMORY_GOVERNOR=1: every static     *)
(* scan holds a ticket of its weight while its worker thread runs.  The    *)
(* budget is what the boot's resident memory leaves; the last sample over  *)
(* the soft limit freezes all admissions but one.  ScanResources gives the *)
(* operations here their callers.                                          *)
(***************************************************************************)
EXTENDS Naturals, Sequences, FiniteSets, SequencesExt

CONSTANTS Scans,
          Weight,    \* classifyWeight: the class of each scan
          Mb,        \* ticketMb: the size of a ticket, by class
          Carveout,  \* MUADDIB_GOVERNOR_LIGHT_CARVEOUT_MB
          Budgets    \* what the first sample may leave; 0: nothing

Classes == {"light", "medium", "heavy"}

ASSUME GovernorAssumption ==
  /\ IsFiniteSet(Scans) /\ Weight \in [Scans -> Classes]
  /\ Mb \in [Classes -> Nat \ {0}] /\ Carveout \in Nat
  /\ Budgets \in SUBSET Nat

VARIABLES gov,      \* outstandingMb, heavyOutstandingMb, outstandingCount
          waiters,  \* _gov.queue: the scans whose waiter is in it
          sampled,  \* whether there was a first sample
          budget,   \* _budgetMb(), 0 before the first sample
          frozen    \* isFrozen()

governorVars == <<gov, waiters, sampled, budget, frozen>>

GovernorTypeOK ==
  /\ gov \in [mb : Nat, heavyMb : Nat, count : Nat]
  /\ waiters \in Seq(Scans)
  /\ sampled \in BOOLEAN /\ frozen \in BOOLEAN
  /\ budget \in Budgets \cup {0}

GovernorInit ==
  /\ gov = [mb |-> 0, heavyMb |-> 0, count |-> 0]
  /\ waiters = <<>>
  /\ sampled = FALSE /\ budget = 0 /\ frozen = FALSE

Size(s) == Mb[Weight[s]]
HeavySize(s) == IF Weight[s] = "heavy" THEN Size(s) ELSE 0
Less(a, b) == IF a > b THEN a - b ELSE 0

\* The budget has room for one more ticket, and heavies leave the carve-out alone.
Fits(g, s) ==
  /\ g.mb + Size(s) <= budget
  /\ Weight[s] = "heavy" => g.heavyMb + Size(s) <= Less(budget, Carveout)

\* _canAdmit: a light passes unless frozen, and so does everything without a budget.
CanAdmit(g, s, ice) == ~ice /\ (Weight[s] = "light" \/ budget = 0 \/ Fits(g, s))

\* A frozen governor with nothing outstanding still lets one scan pass.
Alone(g, ice) == ice /\ g.count = 0

\* _grant
Granted(g, s) ==
  [mb |-> g.mb + Size(s), heavyMb |-> g.heavyMb + HeavySize(s), count |-> g.count + 1]

\* The counters after a release, clamped at zero.
Returned(g, s) ==
  [mb |-> Less(g.mb, Size(s)), heavyMb |-> Less(g.heavyMb, HeavySize(s)),
   count |-> Less(g.count, 1)]

\* Mutant: the pass ends at the first waiter that is blocked.
PassHeadOnly(g, ice) ==
  IF waiters # <<>> /\ (CanAdmit(g, Head(waiters), ice) \/ Alone(g, ice))
  THEN [gov |-> Granted(g, Head(waiters)), line |-> Tail(waiters)]
  ELSE [gov |-> g, line |-> waiters]

\* _drainWaiters: one pass from the oldest to the newest; a blocked waiter is skipped.
\* Only the first that is left may take the frozen governor's exception.
Passes(p, s, ice) == CanAdmit(p.gov, s, ice) \/ (Alone(p.gov, ice) /\ p.line = <<>>)

PassOne(p, s, ice) ==
  IF Passes(p, s, ice) THEN [gov |-> Granted(p.gov, s), line |-> p.line]
  ELSE [gov |-> p.gov, line |-> Append(p.line, s)]

Pass(g, ice) ==
  LET after[n \in 0..Len(waiters)] ==
        IF n = 0 THEN [gov |-> g, line |-> <<>>] ELSE PassOne(after[n - 1], waiters[n], ice)
  IN  after[Len(waiters)]

\* acquireMemoryTicket, granted at once: nobody looks at the waiters.
Admissible(s) == CanAdmit(gov, s, frozen) \/ Alone(gov, frozen)

TicketTaken(s) ==
  /\ Admissible(s)
  /\ gov' = Granted(gov, s)
  /\ UNCHANGED <<waiters, sampled, budget, frozen>>

\* acquireMemoryTicket, the waiter is pushed.
TicketAwaited(s) ==
  /\ ~Admissible(s)
  /\ waiters' = Append(waiters, s)
  /\ UNCHANGED <<gov, sampled, budget, frozen>>

\* bail, by the outer abort or the wait timeout: the waiter takes itself out.
TicketRefused(s) ==
  /\ \E k \in DOMAIN waiters : waiters[k] = s /\ waiters' = RemoveAt(waiters, k)
  /\ UNCHANGED <<gov, sampled, budget, frozen>>

\* Mutant: a heavy ticket is not given back to the heavies' share.
TicketReleasedLeaky(s) ==
  LET p == Pass([Returned(gov, s) EXCEPT !.heavyMb = gov.heavyMb], frozen)
  IN  /\ gov' = p.gov /\ waiters' = p.line
      /\ UNCHANGED <<sampled, budget, frozen>>

\* releaseMemoryTicket
TicketReleased(s) ==
  /\ \E p \in {Pass(Returned(gov, s), frozen)} : gov' = p.gov /\ waiters' = p.line
  /\ UNCHANGED <<sampled, budget, frozen>>

\* Mutant: a thaw wakes nobody.
UpdateRssQuiet(ice, left) ==
  /\ sampled' = TRUE /\ frozen' = ice
  /\ budget' = IF sampled THEN budget ELSE left
  /\ UNCHANGED <<gov, waiters>>

\* updateGovernorRss: the first sample fixes the budget; a thaw lets waiters pass.
UpdateRss(ice, left) ==
  /\ sampled' = TRUE
  /\ budget' = IF sampled THEN budget ELSE left
  /\ frozen' = ice
  /\ IF frozen /\ ~ice
     THEN \E p \in {Pass(gov, FALSE)} : gov' = p.gov /\ waiters' = p.line
     ELSE UNCHANGED <<gov, waiters>>

=============================================================================
