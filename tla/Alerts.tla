-------------------------------- MODULE Alerts --------------------------------
(***************************************************************************)
(* The monitor's notifications (src/src/monitor/webhook.js): the per-day   *)
(* deduplication of alerts, the grouping of the alerts of one npm scope,   *)
(* and the follow-ups that the deferred sandbox                            *)
(* (src/src/monitor/deferred-sandbox.js) and the canary check              *)
(* (src/src/monitor/queue.js) send on their own.  A webhook call is an     *)
(* await: what was read before it may be stale after it.  A name stands    *)
(* for a package, its versions are not told apart.                         *)
(***************************************************************************)
EXTENDS Naturals, Sequences, FiniteSets

CONSTANTS Names,
          Rules,          \* rule ids of static alerts
          FollowUps,      \* 'deferred_sandbox' and 'canary_exfiltration'
          Scopes,
          ScopeOf,        \* the scope of each name, or Unscoped
          Unscoped,
          Untracked,      \* no entry in the map
          MaxTracked,     \* ALERTED_PACKAGES_MAX
          MaxNotes        \* bound: notifications per behaviour

ASSUME AlertsAssumption ==
  /\ IsFiniteSet(Names) /\ IsFiniteSet(Rules) /\ IsFiniteSet(FollowUps)
  /\ Rules \cap FollowUps = {}
  /\ Unscoped \notin Scopes /\ ScopeOf \in [Names -> Scopes \cup {Unscoped}]
  /\ \A R \in SUBSET (Rules \cup FollowUps) : R # Untracked
  /\ MaxTracked \in Nat \ {0} /\ MaxNotes \in Nat

VARIABLES tracked,   \* alertedPackageRules
          groups,    \* pendingGrouped: the notifications buffered for each scope
          sends,     \* awaited webhook calls
          notes,     \* history: every notification that passed the dedup
          alerted,   \* history: the rules told about each name since it was forgotten
          phase      \* running, or in the flush loop of gracefulShutdown

alertVars == <<tracked, groups, sends, notes, alerted, phase>>

Ids == 1..MaxNotes

\* "open": buffered or being sent.  The others: delivered; refused by the webhook;
\* thrown away by the daily reset, by the memory breaker, by the exit.
Outcomes == {"open", "sent", "failed", "discarded", "shed", "killed"}

Note == [kind : {"alert", "followup"}, name : Names,
         rules : SUBSET (Rules \cup FollowUps), outcome : Outcomes]

\* What previousRules refers to across the await: no entry; the entry of the map; an
\* entry the map no longer has.
Refs == {"none", "live", "orphan"}

AlertsTypeOK ==
  /\ tracked \in [Names -> (SUBSET (Rules \cup FollowUps)) \cup {Untracked}]
  /\ notes \in Seq(Note) /\ Len(notes) <= MaxNotes
  /\ sends \subseteq [ids : SUBSET Ids, ref : Refs, awaited : BOOLEAN]
  /\ groups \in [Scopes -> SUBSET Ids]
  /\ \A s \in Scopes : \A i \in groups[s] : ScopeOf[notes[i].name] = s
  /\ alerted \in [Names -> SUBSET (Rules \cup FollowUps)]
  /\ phase \in {"running", "exiting"}

AlertsInit ==
  /\ tracked = [n \in Names |-> Untracked]
  /\ groups = [s \in Scopes |-> {}]
  /\ sends = {}
  /\ notes = <<>>
  /\ alerted = [n \in Names |-> {}]
  /\ phase = "running"

-----------------------------------------------------------------------------

Settled(I, outcome) ==
  [i \in DOMAIN notes |-> IF i \in I THEN [notes[i] EXCEPT !.outcome = outcome] ELSE notes[i]]

\* The map drops or replaces the entries of the names in N: references to them dangle.
Orphaned(S, N) ==
  {[s EXCEPT !.ref = IF @ = "live" /\ \E i \in s.ids : notes[i].name \in N
                     THEN "orphan" ELSE @] : s \in S}

\* The rules known for n once an alert with rules R has passed.
Known(n, R) == IF tracked[n] = Untracked THEN R ELSE tracked[n] \cup R

\* Which names the cap forgets when n gets an entry.
Evictable(n) ==
  LET others == {m \in Names \ {n} : tracked[m] # Untracked}
  IN  IF tracked[n] = Untracked /\ Cardinality(others) >= MaxTracked
      THEN {{m} : m \in others} ELSE {{}}

Forgotten(f, N, none) == [m \in Names |-> IF m \in N THEN none ELSE f[m]]

\* trySendWebhook of an alert with a new rule: tracked at once, then buffered with
\* its scope or sent.  (With known rules only, it returns.)
Alert(n, R) ==
  LET id == Len(notes) + 1
  IN  /\ Len(notes) < MaxNotes
      /\ tracked[n] # Untracked => ~(R \subseteq tracked[n])
      /\ \E N \in Evictable(n) :
           /\ tracked' = [Forgotten(tracked, N, Untracked) EXCEPT ![n] = Known(n, R)]
           /\ alerted' = [Forgotten(alerted, N, {}) EXCEPT ![n] = @ \cup R]
           /\ IF ScopeOf[n] = Unscoped
              THEN /\ sends' = Orphaned(sends, N)
                                 \cup {[ids |-> {id}, ref |-> "none", awaited |-> FALSE]}
                   /\ UNCHANGED groups
              ELSE /\ groups' = [groups EXCEPT ![ScopeOf[n]] = @ \cup {id}]
                   /\ sends' = Orphaned(sends, N)
      /\ notes' = Append(notes, [kind |-> "alert", name |-> n, rules |-> R,
                                 outcome |-> "open"])
      /\ UNCHANGED phase

\* processDeferredItem and the canary check: the dedup is read before the webhook
\* call and written after it.
FollowUp(n, f) ==
  /\ Len(notes) < MaxNotes
  /\ tracked[n] # Untracked => f \notin tracked[n]
  /\ sends' = sends \cup {[ids |-> {Len(notes) + 1}, awaited |-> FALSE,
                           ref |-> IF tracked[n] = Untracked THEN "none" ELSE "live"]}
  /\ notes' = Append(notes, [kind |-> "followup", name |-> n, rules |-> {f},
                             outcome |-> "open"])
  /\ UNCHANGED <<tracked, groups, alerted, phase>>

\* Mutant: a group that holds one package is left for a larger one.
FlushLarge(s, awaited) ==
  /\ Cardinality(groups[s]) > 1
  /\ groups' = [groups EXCEPT ![s] = {}]
  /\ sends' = sends \cup {[ids |-> groups[s], ref |-> "none", awaited |-> awaited]}
  /\ UNCHANGED <<tracked, notes, alerted>>

\* Mutant: the group is deleted only once it is delivered.
FlushKeeping(s, awaited) ==
  /\ groups[s] # {}
  /\ sends' = sends \cup {[ids |-> groups[s], ref |-> "none", awaited |-> awaited]}
  /\ UNCHANGED <<groups, tracked, notes, alerted>>

\* flushScopeGroup: the group leaves the map, then its webhook is awaited.
Flush(s, awaited) ==
  /\ groups[s] # {}
  /\ groups' = [groups EXCEPT ![s] = {}]
  /\ sends' = sends \cup {[ids |-> groups[s], ref |-> "none", awaited |-> awaited]}
  /\ UNCHANGED <<tracked, notes, alerted>>

\* The timer of a group fires.
Timer(s) == Flush(s, FALSE) /\ UNCHANGED phase

\* The webhook call c is delivered; a follow-up is then recorded in the map.
Delivered(c) ==
  /\ notes' = Settled(c.ids, "sent")
  /\ IF \E i \in c.ids : notes[i].kind = "followup"
     THEN LET i == CHOOSE i \in c.ids : TRUE
              n == notes[i].name
          IN  /\ tracked' = CASE c.ref = "none" -> [tracked EXCEPT ![n] = notes[i].rules]
                              [] c.ref = "live" -> [tracked EXCEPT ![n] = @ \cup notes[i].rules]
                              [] c.ref = "orphan" -> tracked
              /\ alerted' = IF c.ref = "orphan" THEN alerted
                            ELSE [alerted EXCEPT ![n] = @ \cup notes[i].rules]
              /\ sends' = IF c.ref = "none" THEN Orphaned(sends \ {c}, {n}) ELSE sends \ {c}
     ELSE /\ sends' = sends \ {c}
          /\ UNCHANGED <<tracked, alerted>>
  /\ UNCHANGED <<groups, phase>>

\* Mutant: a refused follow-up is recorded all the same.
DeclinedTracked(c) ==
  LET i == CHOOSE i \in c.ids : TRUE
  IN  /\ notes' = Settled(c.ids, "failed")
      /\ tracked' = IF notes[i].kind = "followup" /\ c.ref = "live"
                    THEN [tracked EXCEPT ![notes[i].name] = @ \cup notes[i].rules] ELSE tracked
      /\ sends' = sends \ {c}
      /\ UNCHANGED <<groups, alerted, phase>>

\* It fails for good: logged, nothing else.
Declined(c) ==
  /\ notes' = Settled(c.ids, "failed")
  /\ sends' = sends \ {c}
  /\ UNCHANGED <<tracked, groups, alerted, phase>>

-----------------------------------------------------------------------------
(* Forgetting *)

ForgetAll ==
  /\ tracked' = [n \in Names |-> Untracked]
  /\ alerted' = [n \in Names |-> {}]
  /\ sends' = Orphaned(sends, Names)

\* pruneMemoryCaches above the cap, and the memory breaker at HIGH.
Prune ==
  /\ ForgetAll
  /\ UNCHANGED <<groups, notes, phase>>

ClearGroups(outcome) ==
  /\ groups' = [s \in Scopes |-> {}]
  /\ notes' = Settled(UNION {groups[s] : s \in Scopes}, outcome)

\* The memory breaker at CRITICAL.
Shed == ForgetAll /\ ClearGroups("shed") /\ UNCHANGED phase

\* sendDailyReport, up to its webhook call.
DailyReset == ForgetAll /\ ClearGroups("discarded") /\ UNCHANGED phase

-----------------------------------------------------------------------------
(* Shutdown *)

\* gracefulShutdown reaches its loop over the groups.
BeginExit ==
  /\ phase = "running"
  /\ phase' = "exiting"
  /\ UNCHANGED <<tracked, groups, sends, notes, alerted>>

AwaitedDone == \A c \in sends : ~c.awaited

\* One turn of the loop: it awaits the flush it makes.
ExitFlush(s) == phase = "exiting" /\ AwaitedDone /\ Flush(s, TRUE) /\ UNCHANGED phase

\* The loop is over: process.exit; the service manager starts a new process.
Exit ==
  /\ phase = "exiting" /\ AwaitedDone
  /\ \A s \in Scopes : groups[s] = {}
  /\ tracked' = [n \in Names |-> Untracked]
  /\ alerted' = [n \in Names |-> {}]
  /\ notes' = Settled(UNION {c.ids : c \in sends}, "killed")
  /\ sends' = {}
  /\ phase' = "running"
  /\ UNCHANGED groups

-----------------------------------------------------------------------------

AlertsNext ==
  \/ \E n \in Names : \/ \E R \in (SUBSET Rules) \ {{}} : Alert(n, R)
                      \/ \E f \in FollowUps : FollowUp(n, f)
  \/ \E s \in Scopes : Timer(s) \/ ExitFlush(s)
  \/ \E c \in sends : Delivered(c) \/ Declined(c)
  \/ Prune \/ Shed \/ DailyReset
  \/ BeginExit \/ Exit

AlertsSpec == AlertsInit /\ [][AlertsNext]_alertVars

\* A group's timer fires and a webhook call ends (its retries are bounded).
AlertsFairness ==
  /\ \A s \in Scopes : WF_alertVars(Timer(s) \/ ExitFlush(s))
  /\ \A i \in Ids : WF_alertVars(\E c \in sends : i \in c.ids /\ (Delivered(c) \/ Declined(c)))

AlertsFairSpec == AlertsSpec /\ AlertsFairness

-----------------------------------------------------------------------------
(* Properties *)

\* A rule suppresses alerts only if it was told since the map last forgot the name,
\* whatever was in flight when it did.
TrackedWasAlerted ==
  \A n \in Names : tracked[n] = Untracked \/ tracked[n] \subseteq alerted[n]

\* A notification that passed the dedup is in exactly one group or webhook call until
\* it is settled, and in none afterwards: never sent twice, never forgotten.
InOnePlace ==
  \A i \in DOMAIN notes :
    Cardinality({s \in Scopes : i \in groups[s]}) + Cardinality({c \in sends : i \in c.ids})
      = IF notes[i].outcome = "open" THEN 1 ELSE 0

\* The dedup map and the places of the notifications account for what was told.
NotificationsAccounted == AlertsTypeOK /\ TrackedWasAlerted /\ InOnePlace

\* Every notification that passed the dedup is settled: none stays open for ever.
EventuallySettled ==
  \A i \in Ids : []<>~(i \in DOMAIN notes /\ notes[i].outcome = "open")

=============================================================================
