--------------------------- MODULE MCScanResources ---------------------------
(***************************************************************************)
(* The resources of a light, a medium and a heavy scan, sizes in units of  *)
(* a light ticket; and the alerts of a scoped and an unscoped package.     *)
(* The two machines do not interact and do not run together: a behaviour   *)
(* is one of one machine, while the other stays in its initial state,      *)
(* where its fairness asks for nothing.                                    *)
(***************************************************************************)
EXTENDS ScanResources, Alerts

CONSTANTS l, m, h, Scope

BothInit == Init /\ AlertsInit

BothNext ==
  \/ AlertsInit /\ Next /\ UNCHANGED alertVars
  \/ Init /\ AlertsNext /\ UNCHANGED vars

BothSpec == BothInit /\ [][BothNext]_<<vars, alertVars>>

BothFairSpec == BothSpec /\ Fairness /\ AlertsFairness

\* One name is in a scope.
MCScopes == {Scope}
ScopedName == CHOOSE n \in Names : TRUE
MCScopeOf == [n \in Names |-> IF n = ScopedName THEN Scope ELSE Unscoped]

MCWeight == [s \in Scans |->
  CASE s = l -> "light" [] s = m -> "medium" [] OTHER -> "heavy"]

MCMb == [c \in Classes |-> CASE c = "light" -> 1 [] c = "medium" -> 2 [] c = "heavy" -> 3]

=============================================================================
