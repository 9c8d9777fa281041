----------------------------- MODULE ScanLedger -----------------------------
(***************************************************************************)
(* The ledger of scan outcomes, src/src/monitor/state.js: an append-only   *)
(* file, and the compaction that rewrites it while appends go on, in two   *)
(* passes over what the file held when it began.                           *)
(*                                                                         *)
(* The file is a sequence of symbols: the records, numbered in the order   *)
(* of their appends, and the newlines.                                     *)
(***************************************************************************)
EXTENDS Naturals, FiniteSets, Sequences, SequencesExt

CONSTANTS MaxLedger,     \* MAX_SCAN_LEDGER
          Interval,      \* SCAN_LEDGER_COMPACT_INTERVAL
          MaxAppends     \* bound: appends

LedgerAssumption ==
  MaxLedger \in Nat \ {0} /\ Interval \in Nat \ {0} /\ MaxAppends \in Nat

VARIABLES ledger,      \* the file
          since,       \* _scanLedgerAppendedSinceCompact
          compaction,  \* the one that is going on: its snapshot, the lines it drops
          appends,     \* history: appends tried
          damaged      \* history: those that failed, or went on a torn line

ledgerVars == <<ledger, since, compaction, appends, damaged>>

Newline == 0
Resting == [phase |-> "idle", size |-> 0, drop |-> 0]

LedgerTypeOK ==
  /\ ledger \in Seq(0..MaxAppends) /\ since \in 0..(Interval - 1)
  /\ compaction \in [phase : {"idle", "count", "copy"}, size : Nat, drop : Nat]
  /\ appends \in 0..MaxAppends /\ damaged \subseteq 1..appends

LedgerInit ==
  ledger = <<>> /\ since = 0 /\ compaction = Resting /\ appends = 0 /\ damaged = {}

-----------------------------------------------------------------------------

Torn == ledger # <<>> /\ Last(ledger) # Newline

\* appendScanLedger.  Every Interval appends a compaction begins, unless one is going on.
AppendScanLedger ==
  /\ appends < MaxAppends
  /\ appends' = appends + 1
  /\ ledger' = ledger \o <<appends', Newline>>
  /\ damaged' = IF Torn THEN damaged \cup {appends'} ELSE damaged
  /\ since' = (since + 1) % Interval
  /\ compaction' = IF since' = 0 /\ compaction = Resting
                   THEN [phase |-> "count", size |-> Len(ledger'), drop |-> 0]
                   ELSE compaction

\* The write fails, part of the line may be there.
AppendFails ==
  /\ appends < MaxAppends
  /\ appends' = appends + 1
  /\ damaged' = damaged \cup {appends'}
  /\ ledger' \in {ledger, Append(ledger, appends')}
  /\ UNCHANGED <<since, compaction>>

\* The process dies; the temporary file it may leave is overwritten some day.
Restart ==
  /\ since' = 0 /\ compaction' = Resting
  /\ UNCHANGED <<ledger, appends, damaged>>

Newlines(n) == {i \in 1..n : ledger[i] = Newline}

\* _streamCountLines, over the snapshot; nothing is done below the cap.
Count ==
  /\ compaction.phase = "count"
  /\ LET total == Cardinality(Newlines(compaction.size))
     IN  compaction' = IF total <= MaxLedger THEN Resting
                       ELSE [compaction EXCEPT !.phase = "copy", !.drop = total - MaxLedger]
  /\ UNCHANGED <<ledger, since, appends, damaged>>

\* _streamKeepTailToTmp: the snapshot without its first lines; the last one is closed.
KeptTail(size, drop) ==
  LET cut == CHOOSE i \in Newlines(size) : Cardinality(Newlines(i)) = drop
      kept == SubSeq(ledger, cut + 1, size)
  IN  IF Last(kept) = Newline THEN kept ELSE Append(kept, Newline)

\* Mutant: what came after the snapshot is left out.
LiveTailNone(size) == <<>>

\* What was appended during the passes.
LiveTail(size) == SubSeq(ledger, size + 1, Len(ledger))

\* The end of a compaction, in one stretch: tail, fold, rename.
Swap ==
  /\ compaction.phase = "copy"
  /\ ledger' = KeptTail(compaction.size, compaction.drop) \o LiveTail(compaction.size)
  /\ compaction' = Resting
  /\ UNCHANGED <<since, appends, damaged>>

CompactionFails ==
  /\ compaction # Resting
  /\ compaction' = Resting
  /\ UNCHANGED <<ledger, since, appends, damaged>>

LedgerNext ==
  AppendScanLedger \/ AppendFails \/ Restart \/ Count \/ Swap \/ CompactionFails

LedgerSpec == LedgerInit /\ [][LedgerNext]_ledgerVars

-----------------------------------------------------------------------------
(* Properties *)

\* A position that holds a record alone on its line.
Readable(i) ==
  /\ ledger[i] # Newline
  /\ i = 1 \/ ledger[i - 1] = Newline
  /\ i = Len(ledger) \/ ledger[i + 1] = Newline

\* The ledger never loses a recent record: one that was appended whole is readable until
\* MaxLedger more were tried, and the records stay in the order of their appends, each
\* once, although a compaction replaces the file by what it read steps before, appends
\* tear lines, and the process dies in between.
RecentKept ==
  LET readable == {i \in DOMAIN ledger : Readable(i)}
  IN  /\ \A n \in 1..appends \ damaged :
            appends - n < MaxLedger => \E i \in readable : ledger[i] = n
      /\ \A i, j \in readable : i < j => ledger[i] < ledger[j]

=============================================================================
