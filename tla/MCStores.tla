------------------------------ MODULE MCStores ------------------------------
(***************************************************************************)
(* The stores on a small instance.  They do not run together: a behaviour  *)
(* is one of one of them, while the others stay in their initial state.    *)
(***************************************************************************)
EXTENDS Stores, TLC

CONSTANTS a, b, c, x, y

\* Triggers of both retentions; b and c are alike, as are the downloads x and y.
MCRetention == (a :> 2) @@ (b :> 1) @@ (c :> 1)
Alike == Permutations({b, c}) \cup Permutations({x, y})

ASSUME StoresAssumption == ArchiveAssumption /\ CacheAssumption /\ LedgerAssumption

StoresInit == ArchiveInit /\ CacheInit /\ LedgerInit

StoresNext ==
  \/ CacheInit /\ LedgerInit /\ ArchiveNext /\ UNCHANGED <<cacheVars, ledgerVars>>
  \/ ArchiveInit /\ LedgerInit /\ CacheNext /\ UNCHANGED <<archiveVars, ledgerVars>>
  \/ ArchiveInit /\ CacheInit /\ LedgerNext /\ UNCHANGED <<archiveVars, cacheVars>>

StoresSpec == StoresInit /\ [][StoresNext]_<<archiveVars, cacheVars, ledgerVars>>

=============================================================================
