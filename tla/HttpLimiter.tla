------------------------------ MODULE HttpLimiter ------------------------------
(***************************************************************************)
(* One host's bucket of src/src/shared/http-limiter.js: a FIFO semaphore   *)
(* for the requests in flight, a token bucket for their rate, and the      *)
(* pause that a 429 imposes.  A client is a scan; its requests come from   *)
(* the main thread, which takes a slot and then a token, or from its       *)
(* worker thread, which asks the main thread for a token by message.       *)
(* Time is what may have happened of it: whether the pause is over and     *)
(* whether a second has passed since the last refill.  A timer may fire    *)
(* early, a deadline any time.  The back-off level only sets the rate: a   *)
(* refill yields any amount up to Rate.                                    *)
(***************************************************************************)
EXTENDS Selection

CONSTANTS Clients,
          Threaded,    \* those whose worker thread has requests of its own
          SlotMax,     \* REGISTRY_SEMAPHORE_MAX
          Rate,        \* RATE_LIMIT_PER_SEC
          MaxRetries,  \* MAX_RETRIES: attempts of one request
          MaxGhosts    \* bound: token requests whose worker is gone

ASSUME LimiterAssumption ==
  /\ IsFiniteSet(Clients) /\ Threaded \subseteq Clients
  /\ SlotMax \in Nat \ {0} /\ Rate \in Nat \ {0}
  /\ MaxRetries \in Nat \ {0} /\ MaxGhosts \in Nat

VARIABLES slots,     \* sem.active
          slotLine,  \* sem.queue
          bucket,    \* tokens, pause, rateWaiters, grantTimer
          net,       \* what each client is doing
          attempt    \* the attempt its request is at

limiterVars == <<slots, slotLine, bucket, net, attempt>>

(* "idle"                                                                  *)
(* "slot"    waits for a slot                                              *)
(* "token"   has a slot, waits for a token without a deadline              *)
(* "use"     its request is on the wire                                    *)
(* "sleep"   has a slot, sleeps between two attempts                       *)
(* "retry"   has a slot, waits for the token of a retry with a deadline    *)
(* "denied"  that deadline has passed                                      *)
(* "asks"    its worker waits for the main thread's answer                 *)
(* "wire"    its worker's request is on the wire                           *)
Doing == {"idle", "slot", "token", "use", "sleep", "retry", "denied", "asks", "wire"}

\* from: the promise that waits for the grant; "gone" when nobody does any more.
Waiters == [who : Clients, from : {"token", "retry", "asks", "gone"}]

\* pause: "on" before pauseUntil, "over" until the first refill after it.
Buckets == [tokens : 0..Rate, pause : {"no", "on", "over"}, second : BOOLEAN,
            waiters : Seq(Waiters), timer : BOOLEAN]

LimiterTypeOK ==
  /\ slots \in 0..SlotMax
  /\ slotLine \in Seq(Clients)
  /\ bucket \in Buckets
  /\ net \in [Clients -> Doing]
  /\ attempt \in [Clients -> 0..(MaxRetries - 1)]

LimiterInit ==
  /\ slots = 0 /\ slotLine = <<>>
  /\ bucket \in [tokens : 1..Rate, pause : {"no"}, second : {FALSE}, waiters : {<<>>},
                 timer : {FALSE}]
  /\ net = [c \in Clients |-> "idle"]
  /\ attempt = [c \in Clients |-> 0]

-----------------------------------------------------------------------------
(* The token bucket *)

\* Mutant: a full budget after a pause, the burst that the probe replaced.
RefillBurst(b, rate) ==
  CASE b.pause = "on" -> b
    [] b.pause = "over" -> [b EXCEPT !.tokens = rate, !.pause = "no", !.second = FALSE]
    [] b.pause = "no" /\ b.second -> [b EXCEPT !.tokens = rate, !.second = FALSE]
    [] OTHER -> b

\* _refillTokens: nothing in a pause, one token after it, a full budget after a second.
Refill(b, rate) ==
  CASE b.pause = "on" -> b
    [] b.pause = "over" -> [b EXCEPT !.tokens = 1, !.pause = "no", !.second = FALSE]
    [] b.pause = "no" /\ b.second -> [b EXCEPT !.tokens = rate, !.second = FALSE]
    [] OTHER -> b

Grants(b) == b.tokens > 0 /\ b.waiters = <<>> /\ b.pause # "on"

\* Mutant: a newcomer goes to the head of the line.
TakeAtHead(b, c, from) ==
  IF Grants(b) THEN [b EXCEPT !.tokens = @ - 1]
  ELSE [b EXCEPT !.waiters = <<[who |-> c, from |-> from]>> \o @, !.timer = TRUE]

\* _acquireRateTokenLocal, from a bucket already refilled.
Take(b, c, from) ==
  IF Grants(b) THEN [b EXCEPT !.tokens = @ - 1]
  ELSE [b EXCEPT !.waiters = Append(@, [who |-> c, from |-> from]), !.timer = TRUE]

\* signal429: a pause begins, or goes on.
Limited(b) ==
  [b EXCEPT !.tokens = 0, !.pause = "on", !.timer = @ \/ b.waiters # <<>>]

\* takeToken, after a slot was taken or handed over.
TakeToken(b, c, rate) == Take(Refill(b, rate), c, "token")
AfterTake(b, rate) == IF Grants(Refill(b, rate)) THEN "use" ELSE "token"

\* What a granted or a denied waiter does next.
OnGrant(w) == CASE w.from = "asks" -> "wire" [] w.from = "gone" -> net[w.who] [] OTHER -> "use"
OnDeny(w) == CASE w.from = "asks" -> "idle" [] w.from = "gone" -> net[w.who] [] OTHER -> "denied"

\* _drainRateWaiters, on the grant timer: the waiters whose deadline has passed are denied,
\* then the oldest get what tokens there are.
Kept(b, expired) == KeepAt(b.waiters, {i \in DOMAIN b.waiters : b.waiters[i] \notin expired})

Settled(b, kept, expired) ==
  LET n == IF b.pause = "on" THEN 0 ELSE Smaller(b.tokens, Len(kept))
      granted == {kept[i] : i \in 1..n}
      rest == SubSeq(kept, n + 1, Len(kept))
      Of(c) == {w \in granted \cup expired : w.who = c /\ w.from # "gone"}
      Then(w) == IF w \in expired THEN OnDeny(w) ELSE OnGrant(w)
  IN  /\ bucket' = [b EXCEPT !.tokens = @ - n, !.waiters = rest, !.timer = rest # <<>>]
      /\ net' = [c \in Clients |->
                   IF Of(c) = {} THEN net[c] ELSE Then(CHOOSE w \in Of(c) : TRUE)]

Drain(expired, rate) ==
  /\ bucket.timer
  /\ \E b \in {Refill(bucket, rate)} : \E kept \in {Kept(b, expired)} : Settled(b, kept, expired)
  /\ UNCHANGED <<slots, slotLine, attempt>>

\* Waits for the first token of a request have no deadline.
Bounded == {w \in Range(bucket.waiters) : w.from # "token"}

TimerFires == \E expired \in SUBSET Bounded, rate \in 1..Rate : Drain(expired, rate)

PauseEnds ==
  /\ bucket.pause = "on"
  /\ bucket' = [bucket EXCEPT !.pause = "over"]
  /\ UNCHANGED <<slots, slotLine, net, attempt>>

SecondPasses ==
  /\ bucket.pause = "no" /\ ~bucket.second
  /\ bucket' = [bucket EXCEPT !.second = TRUE]
  /\ UNCHANGED <<slots, slotLine, net, attempt>>

-----------------------------------------------------------------------------
(* Requests of the main thread *)

\* acquireRegistrySlot
AcquireSlot(c) ==
  /\ net[c] = "idle"
  /\ \/ /\ slots < SlotMax
        /\ slots' = slots + 1
        /\ \E rate \in 1..Rate :
             /\ bucket' = TakeToken(bucket, c, rate)
             /\ net' = [net EXCEPT ![c] = AfterTake(bucket, rate)]
        /\ UNCHANGED slotLine
     \/ /\ slots = SlotMax
        /\ slotLine' = Append(slotLine, c)
        /\ net' = [net EXCEPT ![c] = "slot"]
        /\ UNCHANGED <<slots, bucket>>
  /\ UNCHANGED attempt

\* Mutant: the slot is handed over and counted down as well.
ReleaseSlotTwice(c, b) ==
  /\ slots' = slots - 1
  /\ IF slotLine # <<>>
     THEN \E rate \in 1..Rate :
            /\ bucket' = TakeToken(b, Head(slotLine), rate)
            /\ net' = [net EXCEPT ![c] = "idle", ![Head(slotLine)] = AfterTake(b, rate)]
            /\ slotLine' = Tail(slotLine)
     ELSE net' = [net EXCEPT ![c] = "idle"] /\ bucket' = b /\ UNCHANGED slotLine
  /\ attempt' = [attempt EXCEPT ![c] = 0]

\* Mutant: the slot goes to the youngest waiter (pop instead of shift).
ReleaseSlotNewest(c, b) ==
  /\ IF slotLine # <<>>
     THEN \E rate \in 1..Rate :
            /\ bucket' = TakeToken(b, Last(slotLine), rate)
            /\ net' = [net EXCEPT ![c] = "idle", ![Last(slotLine)] = AfterTake(b, rate)]
            /\ slotLine' = SubSeq(slotLine, 1, Len(slotLine) - 1)
            /\ UNCHANGED slots
     ELSE slots' = slots - 1 /\ net' = [net EXCEPT ![c] = "idle"] /\ bucket' = b /\ UNCHANGED slotLine
  /\ attempt' = [attempt EXCEPT ![c] = 0]

\* releaseRegistrySlot, with the bucket as the answer has left it: the slot goes to the
\* head of the line, which takes its token at once, or back.
ReleaseSlot(c, b) ==
  /\ \/ /\ slotLine # <<>>
        /\ \E rate \in 1..Rate :
             /\ bucket' = TakeToken(b, Head(slotLine), rate)
             /\ net' = [net EXCEPT ![c] = "idle", ![Head(slotLine)] = AfterTake(b, rate)]
        /\ slotLine' = Tail(slotLine)
        /\ UNCHANGED slots
     \/ /\ slotLine = <<>>
        /\ slots' = slots - 1
        /\ net' = [net EXCEPT ![c] = "idle"]
        /\ bucket' = b
        /\ UNCHANGED slotLine
  /\ attempt' = [attempt EXCEPT ![c] = 0]

\* The request ends: an answer or an error, or a 429 that the caller takes for one.
Answer(c) == net[c] = "use" /\ ReleaseSlot(c, bucket)
Answer429(c) == net[c] = "use" /\ ReleaseSlot(c, Limited(bucket))

\* fetchWithRetry: an attempt failed, or was answered with a 429, and another one is
\* left.  The slot is kept through the sleep and the wait for the retry's own token.
AttemptFails(c, limited) ==
  /\ net[c] = "use" /\ attempt[c] + 1 < MaxRetries
  /\ bucket' = IF limited THEN Limited(bucket) ELSE bucket
  /\ net' = [net EXCEPT ![c] = "sleep"]
  /\ attempt' = [attempt EXCEPT ![c] = @ + 1]
  /\ UNCHANGED <<slots, slotLine>>

Retry(c) ==
  /\ net[c] = "sleep"
  /\ \E rate \in 1..Rate :
       LET b == Refill(bucket, rate)
       IN  /\ bucket' = Take(b, c, "retry")
           /\ net' = [net EXCEPT ![c] = IF Grants(b) THEN "use" ELSE "retry"]
  /\ UNCHANGED <<slots, slotLine, attempt>>

\* A denied retry is the end of the request.
GiveUp(c) == net[c] = "denied" /\ ReleaseSlot(c, bucket)

-----------------------------------------------------------------------------
(* Requests of worker threads *)

Ghosts == {i \in DOMAIN bucket.waiters : bucket.waiters[i].from = "gone"}

\* rate-token-request
WorkerAsks(c) ==
  /\ c \in Threaded /\ net[c] = "idle" /\ Cardinality(Ghosts) < MaxGhosts
  /\ \E rate \in 1..Rate :
       LET b == Refill(bucket, rate)
       IN  /\ bucket' = Take(b, c, "asks")
           /\ net' = [net EXCEPT ![c] = IF Grants(b) THEN "wire" ELSE "asks"]
  /\ UNCHANGED <<slots, slotLine, attempt>>

\* Nobody waits for the worker's answer any more; its waiter stays in the line.
Abandoned(b, c) ==
  [b EXCEPT !.waiters = [i \in DOMAIN b.waiters |->
     IF b.waiters[i] = [who |-> c, from |-> "asks"] THEN [who |-> c, from |-> "gone"]
     ELSE b.waiters[i]]]

\* The worker's own backstop fires, or the worker is terminated.
WorkerLeaves(c) ==
  /\ net[c] \in {"asks", "wire"}
  /\ bucket' = Abandoned(bucket, c)
  /\ net' = [net EXCEPT ![c] = "idle"]
  /\ UNCHANGED <<slots, slotLine, attempt>>

\* The worker's request is answered; a 429 is reported to the main thread.
WorkerAnswered(c, limited) ==
  /\ net[c] = "wire"
  /\ bucket' = IF limited THEN Limited(bucket) ELSE bucket
  /\ net' = [net EXCEPT ![c] = "idle"]
  /\ UNCHANGED <<slots, slotLine, attempt>>

LimiterNext ==
  \/ TimerFires \/ PauseEnds \/ SecondPasses
  \/ \E c \in Clients :
       \/ AcquireSlot(c) \/ Answer(c) \/ Answer429(c) \/ Retry(c) \/ GiveUp(c)
       \/ \E limited \in BOOLEAN : AttemptFails(c, limited) \/ WorkerAnswered(c, limited)
       \/ WorkerAsks(c) \/ WorkerLeaves(c)

LimiterSpec == LimiterInit /\ [][LimiterNext]_limiterVars

\* Timers fire, time passes, a sleep and a request end (their timeouts see to it), and
\* a denied retry returns.  Nothing is assumed of new requests.
LimiterFairness ==
  /\ WF_limiterVars(TimerFires) /\ WF_limiterVars(PauseEnds) /\ WF_limiterVars(SecondPasses)
  /\ \A c \in Clients :
       /\ WF_limiterVars(Answer(c) \/ Answer429(c) \/ Retry(c) \/ GiveUp(c))
       /\ WF_limiterVars(\E limited \in BOOLEAN : WorkerAnswered(c, limited))

LimiterFairSpec == LimiterSpec /\ LimiterFairness

-----------------------------------------------------------------------------
(* Properties *)

SlotOwners == {c \in Clients : net[c] \in {"token", "use", "sleep", "retry", "denied"}}

\* The semaphore's counter is the number of requests that own a slot, through every
\* handover, retry and denial; a request waits for a slot only while all are taken.
RegistryCounted ==
  /\ LimiterTypeOK
  /\ slots = Cardinality(SlotOwners)
  /\ slotLine # <<>> => slots = SlotMax

\* Nobody waits for a token without a timer that will look at the line.
TimerArmed == bucket.waiters # <<>> => bucket.timer

\* Slots and tokens are where the counters, the lines and the timer say; tokens and
\* attempts stay within their limits.
RegistryAccounted == RegistryCounted /\ TimerArmed

\* "PROBE OF ONE": the first requests after a pause are one request.
Sending == {c \in Clients : net[c] \in {"use", "wire"}}
ProbeOfOne ==
  [][bucket.pause = "over" => Cardinality(Sending' \ Sending) <= 1]_limiterVars

\* Whoever waits for a slot or a token gets its turn or is told that it does not,
\* through any number of pauses: the grant timer is armed while anybody waits.
Served ==
  \A c \in Clients :
    []<>(net[c] \notin {"slot", "token", "retry", "asks"})

-----------------------------------------------------------------------------
(* The slots are a counting semaphore with a FIFO line, whatever happens   *)
(* to the tokens meanwhile.                                                *)

SlotSem == INSTANCE Semaphore
             WITH Procs <- Clients, Capacity <- SlotMax,
                  holders <- SlotOwners, line <- slotLine

SlotsAreSemaphore == SlotSem!Spec

=============================================================================
