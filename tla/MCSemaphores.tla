----------------------------- MODULE MCSemaphores -----------------------------
(***************************************************************************)
(* The two semaphores that hand their slots over: the heavy lane of five   *)
(* scans, and the limiter of one registry host with four clients.  They    *)
(* do not interact and do not run together: a behaviour is one of the      *)
(* limiter or, once the limiter rests, one of the lane; a machine that     *)
(* rests is asked for nothing by its fairness.  Scans and clients are      *)
(* model values; liveness is checked, so there is no symmetry.             *)
(***************************************************************************)
EXTENDS HeavyLane, HttpLimiter

HttpRests ==
  /\ bucket = [tokens |-> Rate, pause |-> "no", second |-> TRUE, waiters |-> <<>>,
               timer |-> FALSE]
  /\ net = [c \in Clients |-> "idle"]

BothInit == Init /\ LimiterInit

BothNext ==
  \/ HttpRests /\ Next /\ UNCHANGED limiterVars
  \/ Init /\ LimiterNext /\ UNCHANGED vars

BothSpec ==
  /\ BothInit /\ [][BothNext]_<<vars, limiterVars>>
  /\ Fairness /\ LimiterFairness

\* Nobody waits for ever, for the lane or for a registry.
WaitersServed == WaitEnds /\ Served

=============================================================================
