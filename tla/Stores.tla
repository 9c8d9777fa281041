------------------------------- MODULE Stores -------------------------------
(***************************************************************************)
(* What the monitor keeps on disk: the archive and the cache of tarballs,  *)
(* and the ledger of scans.  They share nothing, so a behaviour of all of  *)
(* them is one of each.                                                    *)
(***************************************************************************)
EXTENDS TarballArchive, TarballCache, ScanLedger

\* The stores keep their types, and the pool of downloads its accounts.
StoresAccounted ==
  ArchiveTypeOK /\ CacheTypeOK /\ LedgerTypeOK /\ PrefetchAccounted

=============================================================================
