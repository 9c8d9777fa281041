------------------------------- MODULE Selection -------------------------------
(***************************************************************************)
(* Picking entries of an array by index: the loops of the monitor that     *)
(* splice or compact an array (src/src/monitor/scan-queue.js,              *)
(* src/src/monitor/spill.js, src/src/monitor/deferred-sandbox.js), and the *)
(* one of the pipeline that collects one finding per file.                 *)
(***************************************************************************)
EXTENDS Naturals, Sequences, FiniteSets, SequencesExt

Smaller(a, b) == IF a <= b THEN a ELSE b

\* The place of index j among those of a set.
Place(S, j) == Cardinality({i \in S : i <= j})

\* The first n members of a set of indices.
FirstOf(S, n) == {k \in S : Place(S, k) <= n}

\* The subsequence of q at the indices in S.
KeepAt(q, S) == [k \in 1..Cardinality(S) |-> q[CHOOSE j \in S : Place(S, j) = k]]

\* The entries of q that are in S, in their order: what a filter of the array returns.
Filtered(q, S) ==
  LET kept[k \in 0..Len(q)] ==
        IF k = 0 THEN <<>>
        ELSE IF q[k] \in S THEN Append(kept[k - 1], q[k]) ELSE kept[k - 1]
  IN  kept[Len(q)]

\* Mutant: strict FIFO, the behaviour the two-pass selection replaced.
MarkedFifo(q, n, Kept) == FirstOf(DOMAIN q, n)

\* The n entries that go first: the oldest outside Kept, and only if there are
\* not enough of those the oldest of the others.
Marked(q, n, Kept) ==
  LET loose == FirstOf({k \in DOMAIN q : q[k] \notin Kept}, n)
  IN  loose \cup FirstOf(DOMAIN q \ loose, n - Cardinality(loose))

\* What a bulk eviction and a compaction promise: n entries (or all) go, those outside
\* Kept before the others, and the older before the newer in each class.
EvictsLooseThenOldest(q, n, Kept) ==
  LET out == Marked(q, n, Kept)
      Loose(k) == q[k] \notin Kept
  IN  /\ Cardinality(out) = Smaller(n, Len(q))
      /\ \A i \in out, j \in DOMAIN q \ out :
           (Loose(i) /\ ~Loose(j)) \/ ((Loose(i) <=> Loose(j)) /\ i < j)

=============================================================================
