----------------------------- MODULE MCScanQueue -----------------------------
(***************************************************************************)
(* The scan queue, and the lifecycle of publications, each on a small      *)
(* instance.  The two machines do not run together: a behaviour is one of  *)
(* one machine, while the other stays in its initial state.                *)
(***************************************************************************)
EXTENDS ScanQueue, ScanLifecycle

CONSTANTS a, b, c, p, q, key

\* Two publications of one version, one of them heavy.
MCKeyOf == [x \in Pubs |-> key]

ScansInit == Init /\ LifecycleInit

ScansNext ==
  \/ LifecycleInit /\ Next /\ UNCHANGED lifeVars
  \/ Init /\ LifecycleNext /\ UNCHANGED vars

ScansSpec == ScansInit /\ [][ScansNext]_<<vars, lifeVars>>

=============================================================================
