------------------------ MODULE DeferredSandboxProofs ------------------------
(***************************************************************************)
(* Proofs about DeferredSandbox, for every set of keys, every score and    *)
(* every capacity.  Two things carry them: Sorted permutes a queue into    *)
(* the order of the ranks (SortedFacts), and puts one entry more into a    *)
(* sorted queue without moving the others among themselves (InsertFacts).  *)
(* The inductive invariant adds Slotted to the properties: a slot is taken *)
(* exactly by a run in flight, and a process that is down holds nothing.   *)
(*                                                                         *)
(* Then about Alerts, whose follow-ups the deferred sandbox sends, for     *)
(* every set of names, scopes and rules: the inductive invariant says what *)
(* the groups and the calls in flight hold, and what they refer to.        *)
(***************************************************************************)
EXTENDS DeferredSandbox, Alerts, SelectionProofs

-----------------------------------------------------------------------------
(* The order of the queue *)

\* Outranks is a strict weak order.
LEMMA Outranking ==
  ASSUME NEW a \in Entry, NEW b \in Entry, NEW c \in Entry
  PROVE  /\ ~Outranks(a, a)
         /\ Outranks(a, b) => ~Outranks(b, a)
         /\ Outranks(a, b) /\ ~Outranks(c, b) => Outranks(a, c)
         /\ ~Outranks(b, a) /\ Outranks(b, c) => Outranks(a, c)
         /\ ~Outranks(b, a) /\ ~Outranks(c, b) => ~Outranks(c, a)
<1>1. Score[a.key] \in Nat /\ Score[b.key] \in Nat /\ Score[c.key] \in Nat
  BY DeferredAssumption DEF Entry
<1> QED
  BY <1>1 DEF Outranks

\* With ties broken by the index it is a total order of the indices.
LEMMA BeforeFacts ==
  ASSUME NEW q \in Seq(Entry)
  PROVE  /\ \A i \in DOMAIN q : ~Before(q, i, i)
         /\ \A i, j, k \in DOMAIN q : Before(q, i, j) /\ Before(q, j, k) => Before(q, i, k)
         /\ \A i, j \in DOMAIN q : i = j \/ Before(q, i, j) \/ Before(q, j, i)
         /\ \A i, j \in DOMAIN q : Before(q, i, j) => ~Before(q, j, i)
<1>1. \A i \in DOMAIN q : i \in Nat /\ q[i] \in Entry
  OBVIOUS
<1>2. ASSUME NEW i \in DOMAIN q, NEW j \in DOMAIN q, NEW k \in DOMAIN q,
             Before(q, i, j), Before(q, j, k)
      PROVE  Before(q, i, k)
  <2>1. CASE Outranks(q[i], q[j])
    <3>1. ~Outranks(q[k], q[j])
      BY <1>1, <1>2, Outranking DEF Before
    <3> QED
      BY <1>1, <2>1, <3>1, Outranking DEF Before
  <2>2. CASE i < j /\ ~Outranks(q[j], q[i])
    <3>1. CASE Outranks(q[j], q[k])
      BY <1>1, <2>2, <3>1, Outranking DEF Before
    <3>2. CASE j < k /\ ~Outranks(q[k], q[j])
      <4>1. i < k
        BY <1>1, <2>2, <3>2
      <4>2. ~Outranks(q[k], q[i])
        BY <1>1, <2>2, <3>2, Outranking
      <4> QED
        BY <4>1, <4>2 DEF Before
    <3> QED
      BY <1>2, <3>1, <3>2 DEF Before
  <2> QED
    BY <1>2, <2>1, <2>2 DEF Before
<1>3. \A i \in DOMAIN q : ~Before(q, i, i)
  BY <1>1, Outranking DEF Before
<1>4. ASSUME NEW i \in DOMAIN q, NEW j \in DOMAIN q
      PROVE  i = j \/ Before(q, i, j) \/ Before(q, j, i)
  BY <1>1, Outranking DEF Before
<1> QED
  BY <1>2, <1>3, <1>4

\* Sorted moves each entry to its rank, and the ranks follow the order.
LEMMA SortedFacts ==
  ASSUME NEW q \in Seq(Entry)
  PROVE  /\ Sorted(q) \in Seq(Entry) /\ Len(Sorted(q)) = Len(q)
         /\ \A i \in DOMAIN q : Rank(q, i) \in DOMAIN q /\ Sorted(q)[Rank(q, i)] = q[i]
         /\ \A i, j \in DOMAIN q : Rank(q, i) < Rank(q, j) <=> Before(q, i, j)
         /\ \A i, j \in DOMAIN q : Rank(q, i) = Rank(q, j) => i = j
         /\ \A p \in DOMAIN q : \E i \in DOMAIN q : Rank(q, i) = p /\ Sorted(q)[p] = q[i]
<1> DEFINE D == DOMAIN q
           Below(i) == {j \in D : Before(q, j, i)}
           below == [i \in D |-> Below(i)]
           rank == [i \in D |-> Rank(q, i)]
<1>1. Len(q) \in Nat /\ D = 1..Len(q) /\ IsFiniteSet(D) /\ Cardinality(D) = Len(q)
  <2>1. Len(q) \in Nat /\ D = 1..Len(q)
    OBVIOUS
  <2> QED
    BY <2>1, IntervalSize
<1>2. \A i \in D : Below(i) \in SUBSET D /\ \A j \in D : j \in Below(i) <=> Before(q, j, i)
  OBVIOUS
<1>3. \A i \in D : Rank(q, i) = Cardinality(Below(i)) + 1
  BY DEF Rank
<1> HIDE DEF Below
<1>4. /\ below \in [D -> SUBSET D]
      /\ \A i, j \in D : i \in below[j] <=> Before(q, i, j)
      /\ \A i \in D : Rank(q, i) = Cardinality(below[i]) + 1
  BY <1>2, <1>3
<1> HIDE DEF below
<1>5. rank \in [D -> Int] /\ \A i \in D : rank[i] = Cardinality(below[i]) + 1
  <2>1. \A i \in D : IsFiniteSet(below[i])
    BY <1>1, <1>4, FS_Subset
  <2>2. \A i \in D : Cardinality(below[i]) \in Nat
    BY <2>1, FS_CardinalityType
  <2> QED
    BY <1>4, <2>2
<1>6. \A i \in D : Rank(q, i) = rank[i]
  OBVIOUS
<1> HIDE DEF rank
<1>7. Ranked(D, below, rank)
  <2>1. ASSUME NEW i \in D, NEW j \in D, i \in below[j] PROVE below[i] \subseteq below[j]
    BY <1>4, <2>1, BeforeFacts
  <2> QED
    BY <1>1, <1>4, <1>5, <2>1, BeforeFacts DEF Ranked
<1>8. /\ rank \in [D -> D]
      /\ \A i, j \in D : rank[i] < rank[j] <=> i \in below[j]
      /\ \A i, j \in D : rank[i] = rank[j] => i = j
      /\ \A k \in D : \E i \in D : rank[i] = k
  BY <1>1, <1>7, Ranks
<1> DEFINE At(p) == CHOOSE i \in D : Rank(q, i) = p
<1>9. \A p \in D : At(p) \in D /\ Rank(q, At(p)) = p
  BY <1>6, <1>8
<1>10. Sorted(q) = [p \in D |-> q[At(p)]]
  BY DEF Sorted
<1> HIDE DEF At
<1>11. /\ Sorted(q) \in Seq(Entry) /\ Len(Sorted(q)) = Len(q)
       /\ \A p \in D : Sorted(q)[p] = q[At(p)]
  BY <1>1, <1>9, <1>10
<1>12. ASSUME NEW i \in D PROVE Rank(q, i) \in D /\ Sorted(q)[Rank(q, i)] = q[i]
  <2>1. Rank(q, i) \in D /\ At(Rank(q, i)) = i
    BY <1>6, <1>8, <1>9
  <2> QED
    BY <1>11, <2>1
<1>13. ASSUME NEW i \in D, NEW j \in D
       PROVE  /\ Rank(q, i) < Rank(q, j) <=> Before(q, i, j)
              /\ Rank(q, i) = Rank(q, j) => i = j
  <2>1. rank[i] < rank[j] <=> Before(q, i, j)
    BY <1>4, <1>8
  <2>2. rank[i] = rank[j] => i = j
    BY <1>8
  <2> QED
    BY <1>6, <2>1, <2>2
<1>14. \A p \in D : \E i \in D : Rank(q, i) = p /\ Sorted(q)[p] = q[i]
  BY <1>9, <1>11
<1> QED
  BY <1>11, <1>12, <1>13, <1>14

\* What QueueSorted says of the queue, for any.
Ordered(q) == \A i, j \in DOMAIN q : Outranks(q[i], q[j]) => i < j

\* Sorting orders the entries and neither drops nor adds any.
LEMMA SortedOrdered ==
  ASSUME NEW q \in Seq(Entry)
  PROVE  Ordered(Sorted(q)) /\ Range(Sorted(q)) = Range(q)
<1>1. /\ Sorted(q) \in Seq(Entry) /\ DOMAIN Sorted(q) = DOMAIN q
      /\ \A i \in DOMAIN q : Rank(q, i) \in DOMAIN q /\ Sorted(q)[Rank(q, i)] = q[i]
      /\ \A i, j \in DOMAIN q : Rank(q, i) < Rank(q, j) <=> Before(q, i, j)
      /\ \A p \in DOMAIN q : \E i \in DOMAIN q : Rank(q, i) = p /\ Sorted(q)[p] = q[i]
  BY SortedFacts
<1>2. ASSUME NEW k \in DOMAIN q, NEW l \in DOMAIN q, Outranks(Sorted(q)[k], Sorted(q)[l])
      PROVE  k < l
  <2>1. PICK i \in DOMAIN q : Rank(q, i) = k /\ Sorted(q)[k] = q[i]
    BY <1>1
  <2>2. PICK j \in DOMAIN q : Rank(q, j) = l /\ Sorted(q)[l] = q[j]
    BY <1>1
  <2>3. Before(q, i, j)
    BY <1>2, <2>1, <2>2 DEF Before
  <2> QED
    BY <1>1, <2>1, <2>2, <2>3
<1>3. \A x : x \in Range(Sorted(q)) <=> x \in Range(q)
  <2>1. \A x : x \in Range(q) <=> \E i \in DOMAIN q : q[i] = x
    BY RangeFacts
  <2>2. \A x : x \in Range(Sorted(q)) <=> \E i \in DOMAIN q : Sorted(q)[i] = x
    BY <1>1, RangeFacts
  <2> QED
    BY <1>1, <2>1, <2>2
<1> QED
  BY <1>1, <1>2, <1>3 DEF Ordered

\* A selection from an ordered queue is ordered, ...
LEMMA OrderedKeepAt ==
  ASSUME NEW q \in Seq(Entry), Ordered(q), NEW S \in SUBSET DOMAIN q
  PROVE  Ordered(KeepAt(q, S))
<1> DEFINE u == KeepAt(q, S)
<1>1. \A k \in DOMAIN u : \E j \in S : Place(S, j) = k /\ u[k] = q[j]
  BY KeepAtFacts
<1>2. \A i, j \in S : Place(S, i) < Place(S, j) <=> i < j
  <2>1. Len(q) \in Nat /\ S \in SUBSET (1..Len(q))
    OBVIOUS
  <2> QED
    BY <2>1, Places
<1> HIDE DEF u
<1>3. ASSUME NEW k \in DOMAIN u, NEW l \in DOMAIN u, Outranks(u[k], u[l]) PROVE k < l
  <2>1. PICK i \in S : Place(S, i) = k /\ u[k] = q[i]
    BY <1>1
  <2>2. PICK j \in S : Place(S, j) = l /\ u[l] = q[j]
    BY <1>1
  <2>3. i < j
    BY <1>3, <2>1, <2>2 DEF Ordered
  <2> QED
    BY <1>2, <2>1, <2>2, <2>3
<1> QED
  BY <1>3 DEF Ordered, u

\* ... and so is what a batch from its head leaves.
LEMMA OrderedTail ==
  ASSUME NEW q \in Seq(Entry), Ordered(q), NEW n \in 0..Len(q)
  PROVE  Ordered(SubSeq(q, n + 1, Len(q)))
<1> DEFINE u == SubSeq(q, n + 1, Len(q))
<1>1. /\ u \in Seq(Entry) /\ Len(u) = Len(q) - n /\ Len(q) \in Nat
      /\ \A k \in 1..(Len(q) - n) : u[k] = q[n + k] /\ n + k \in DOMAIN q
  OBVIOUS
<1> HIDE DEF u
<1>2. ASSUME NEW k \in DOMAIN u, NEW l \in DOMAIN u, Outranks(u[k], u[l]) PROVE k < l
  <2>1. k \in 1..(Len(q) - n) /\ l \in 1..(Len(q) - n)
    BY <1>1
  <2>2. n + k < n + l
    BY <1>1, <1>2, <2>1 DEF Ordered
  <2> QED
    BY <1>1, <2>1, <2>2
<1> QED
  BY <1>2 DEF Ordered, u

\* A newcomer takes its place in an ordered queue, and the others keep their order.
LEMMA InsertFacts ==
  ASSUME NEW q \in Seq(Entry), Ordered(q), NEW new \in Entry
  PROVE  /\ Sorted(Append(q, new)) \in Seq(Entry)
         /\ Len(Sorted(Append(q, new))) = Len(q) + 1
         /\ \E j \in DOMAIN Sorted(Append(q, new)) :
              /\ Sorted(Append(q, new))[j] = new
              /\ RemoveAt(Sorted(Append(q, new)), j) = q
<1> DEFINE m == Len(q)
           t == Append(q, new)
           S == Sorted(t)
           j == Rank(t, m + 1)
<1>1. /\ m \in Nat /\ t \in Seq(Entry) /\ Len(t) = m + 1 /\ DOMAIN t = 1..(m + 1)
      /\ DOMAIN q = 1..m /\ \A i \in 1..m : t[i] = q[i] /\ q[i] \in Entry
      /\ t[m + 1] = new
  OBVIOUS
<1> HIDE DEF t, m
<1>2. /\ S \in Seq(Entry) /\ Len(S) = m + 1
      /\ \A i \in 1..(m + 1) : Rank(t, i) \in 1..(m + 1) /\ S[Rank(t, i)] = t[i]
      /\ \A i, k \in 1..(m + 1) : Rank(t, i) < Rank(t, k) <=> Before(t, i, k)
  BY <1>1, SortedFacts
<1> HIDE DEF S
<1>3. \A i, k \in 1..m : Before(t, k, i) <=> k < i
  <2>1. ASSUME NEW i \in 1..m, NEW k \in 1..m, Before(t, k, i) PROVE k < i
    BY <1>1, <2>1 DEF Before, Ordered
  <2>2. ASSUME NEW i \in 1..m, NEW k \in 1..m, k < i PROVE Before(t, k, i)
    <3>1. ~Outranks(t[i], t[k])
      BY <1>1, <2>2 DEF Ordered
    <3> QED
      BY <2>2, <3>1 DEF Before
  <2> QED
    BY <2>1, <2>2
<1>4. ASSUME NEW i \in 1..m
      PROVE  Rank(t, i) = IF Before(t, m + 1, i) THEN i + 1 ELSE i
  <2> DEFINE B == {k \in DOMAIN t : Before(t, k, i)}
  <2>1. Rank(t, i) = Cardinality(B) + 1
    BY DEF Rank
  <2>2. /\ i - 1 \in Nat /\ IsFiniteSet(1..(i - 1)) /\ Cardinality(1..(i - 1)) = i - 1
    <3>1. i - 1 \in Nat
      BY <1>1
    <3> QED
      BY <3>1, IntervalSize
  <2>3. \A k : k \in B <=> (k \in 1..(m + 1) /\ Before(t, k, i))
    BY <1>1
  <2> HIDE DEF B
  <2>4. \A k : k \in 1..(m + 1) <=> k \in 1..m \/ k = m + 1
    BY <1>1
  <2>5. \A k : k \in 1..(i - 1) <=> k \in 1..m /\ k < i
    BY <1>1
  <2>6. CASE Before(t, m + 1, i)
    <3>1. B = 1..(i - 1) \cup {m + 1} /\ m + 1 \notin 1..(i - 1)
      BY <1>1, <1>3, <2>3, <2>4, <2>5, <2>6
    <3>2. Cardinality(B) = (i - 1) + 1
      BY <2>2, <3>1, FS_AddElement
    <3> QED
      BY <2>1, <2>6, <3>2
  <2>7. CASE ~Before(t, m + 1, i)
    <3>1. B = 1..(i - 1)
      BY <1>3, <2>3, <2>4, <2>5, <2>7
    <3> QED
      BY <2>1, <2>2, <2>7, <3>1
  <2> QED
    BY <2>6, <2>7
<1>5. j \in 1..(m + 1) /\ S[j] = new /\ \A i \in 1..m : j < Rank(t, i) <=> Before(t, m + 1, i)
  <2>1. m + 1 \in 1..(m + 1) /\ \A i \in 1..m : i \in 1..(m + 1)
    BY <1>1
  <2> QED
    BY <1>1, <1>2, <2>1
<1>6. /\ RemoveAt(S, j) \in Seq(Entry) /\ Len(RemoveAt(S, j)) = m
      /\ \A i \in 1..m : RemoveAt(S, j)[i] = IF i < j THEN S[i] ELSE S[i + 1]
  <2>1. j \in DOMAIN S
    BY <1>2, <1>5
  <2>2. /\ RemoveAt(S, j) \in Seq(Entry) /\ Len(RemoveAt(S, j)) = Len(S) - 1
        /\ \A i \in DOMAIN RemoveAt(S, j) :
             RemoveAt(S, j)[i] = IF i < j THEN S[i] ELSE S[i + 1]
    BY <1>2, <2>1, RemoveAtFacts
  <2>3. Len(S) - 1 = m
    BY <1>1, <1>2
  <2> QED
    BY <2>2, <2>3
<1>7. ASSUME NEW i \in 1..m PROVE RemoveAt(S, j)[i] = q[i]
  <2>1. Rank(t, i) = (IF j < Rank(t, i) THEN i + 1 ELSE i) /\ S[Rank(t, i)] = q[i]
    <3>1. i \in 1..(m + 1)
      BY <1>1
    <3> QED
      BY <1>1, <1>2, <1>4, <1>5, <3>1
  <2>2. Rank(t, i) # j
    <3>1. i \in 1..(m + 1) /\ m + 1 \in 1..(m + 1) /\ i # m + 1
      BY <1>1
    <3> QED
      BY <1>1, <3>1, SortedFacts
  <2>3. CASE j < Rank(t, i)
    <3>1. ~(i < j) /\ S[i + 1] = q[i]
      BY <1>1, <1>5, <2>1, <2>3
    <3> QED
      BY <1>6, <3>1
  <2>4. CASE ~(j < Rank(t, i))
    <3>1. i < j /\ S[i] = q[i]
      BY <1>1, <1>5, <2>1, <2>2, <2>4
    <3> QED
      BY <1>6, <3>1
  <2> QED
    BY <2>3, <2>4
<1>8. RemoveAt(S, j) = q
  BY <1>1, <1>6, <1>7
<1>9. j \in DOMAIN S
  BY <1>2, <1>5
<1> QED
  BY <1>2, <1>5, <1>8, <1>9 DEF S, t, m

-----------------------------------------------------------------------------
(* The keys and the retries of a queue *)

\* What RetriesBounded says of one queue.
Bounded(q) == \A e \in Range(q) : e.retries < MaxRetries

\* A queue holds the keys of its entries.
LEMMA KeysFacts ==
  ASSUME NEW q \in Seq(Entry)
  PROVE  /\ KeysOf(q) \in SUBSET Keys
         /\ \A x : x \in KeysOf(q) <=> \E e \in Range(q) : e.key = x
<1>1. DOMAIN q = 1..Len(q) /\ \A i \in DOMAIN q : q[i] \in Entry
  OBVIOUS
<1>2. \A x : x \in KeysOf(q) <=> \E i \in DOMAIN q : q[i].key = x
  BY DEF KeysOf
<1>3. \A e : e \in Range(q) <=> \E i \in DOMAIN q : q[i] = e
  BY RangeFacts
<1>4. \A x : x \in KeysOf(q) <=> \E e \in Range(q) : e.key = x
  BY <1>2, <1>3
<1>5. \A i \in DOMAIN q : q[i].key \in Keys
  BY <1>1 DEF Entry
<1> QED
  BY <1>2, <1>4, <1>5

\* Nothing is in an empty queue.
LEMMA EmptyFacts ==
  <<>> \in Seq(Entry) /\ Ordered(<<>>) /\ Bounded(<<>>) /\ KeysOf(<<>>) = {}
<1>1. <<>> \in Seq(Entry) /\ DOMAIN <<>> = {}
  OBVIOUS
<1>2. \A e : e \notin Range(<<>>)
  BY <1>1, RangeFacts
<1> QED
  BY <1>1, <1>2, KeysFacts DEF Ordered, Bounded

\* The bound on the retries, queue by queue.
LEMMA RetriesFacts ==
  ASSUME queue \in Seq(Entry), running \in Seq(Entry), disk \in Seq(Entry)
  PROVE  RetriesBounded <=> Bounded(queue) /\ Bounded(running) /\ Bounded(disk)
<1>1. ASSUME NEW q \in Seq(Entry)
      PROVE  (\A i \in DOMAIN q : q[i].retries < MaxRetries) <=> Bounded(q)
  BY RangeFacts DEF Bounded
<1> QED
  BY <1>1 DEF RetriesBounded

\* At the cap the last entry makes room; the others stay as they were.
LEMMA FrontFacts ==
  ASSUME NEW q \in Seq(Entry), Ordered(q), Len(q) # 0
  PROVE  /\ Front(q) \in Seq(Entry) /\ Ordered(Front(q)) /\ Len(Front(q)) = Len(q) - 1
         /\ Len(q) \in DOMAIN q /\ Last(q) = q[Len(q)] /\ Last(q) \in Entry
         /\ RemoveAt(q, Len(q)) = Front(q)
         /\ Range(q) = Range(Front(q)) \cup {Last(q)}
         /\ \A k \in DOMAIN q : ~Outranks(Last(q), q[k])
<1> DEFINE m == Len(q)
           u == Front(q)
<1>1. m \in Nat /\ m \in DOMAIN q /\ Last(q) = q[m] /\ q[m] \in Entry /\ DOMAIN q = 1..m
  BY DEF Last
<1>2. /\ u \in Seq(Entry) /\ Len(u) = m - 1 /\ \A k \in 1..(m - 1) : u[k] = q[k]
  <2>1. u = SubSeq(q, 1, m - 1) /\ m - 1 \in 0..m
    BY <1>1 DEF Front
  <2> QED
    BY <1>1, <2>1
<1>3. RemoveAt(q, m) = u
  BY <1>1, <1>2 DEF RemoveAt, Front
<1>4. Range(q) = Range(u) \cup {q[m]}
  BY <1>1, <1>3, RangeRemoveAt
<1>5. Ordered(u)
  <2>1. DOMAIN u = 1..(m - 1) /\ \A k \in DOMAIN u : k \in DOMAIN q /\ u[k] = q[k]
    BY <1>1, <1>2
  <2> QED
    BY <2>1 DEF Ordered
<1>6. \A k \in DOMAIN q : ~Outranks(q[m], q[k])
  BY <1>1 DEF Ordered
<1> QED
  BY <1>1, <1>2, <1>3, <1>4, <1>5, <1>6

\* A newcomer in an ordered queue, by its entries.
LEMMA InsertKeeps ==
  ASSUME NEW q \in Seq(Entry), NEW new \in Entry
  PROVE  /\ Sorted(Append(q, new)) \in Seq(Entry)
         /\ Ordered(Sorted(Append(q, new)))
         /\ Range(Sorted(Append(q, new))) = Range(q) \cup {new}
<1>1. Append(q, new) \in Seq(Entry) /\ Range(Append(q, new)) = Range(q) \cup {new}
  BY RangeAppend
<1> QED
  BY <1>1, SortedFacts, SortedOrdered

\* A batch from the head of a list and what it leaves are all of the list.
LEMMA SplitFacts ==
  ASSUME NEW q \in Seq(Entry), Ordered(q), NEW n \in 0..Len(q)
  PROVE  /\ SubSeq(q, 1, n) \in Seq(Entry) /\ Len(SubSeq(q, 1, n)) = n
         /\ SubSeq(q, n + 1, Len(q)) \in Seq(Entry) /\ Ordered(SubSeq(q, n + 1, Len(q)))
         /\ Range(q) = Range(SubSeq(q, 1, n)) \cup Range(SubSeq(q, n + 1, Len(q)))
<1> DEFINE a == SubSeq(q, 1, n)
           b == SubSeq(q, n + 1, Len(q))
<1>1. Len(q) \in Nat /\ Len(q) \in 0..Len(q) /\ n \in Nat /\ n + 1 \in Nat \ {0}
  OBVIOUS
<1>2. /\ a \in Seq(Entry) /\ Len(a) = n /\ Range(a) \in SUBSET Range(q)
      /\ \A k \in 1..n : q[k] \in Range(a)
  <2>1. (IF 1 <= n THEN n - 1 + 1 ELSE 0) = n
    BY <1>1
  <2> QED
    BY <1>1, <2>1, RangeSubSeq
<1>3. /\ b \in Seq(Entry) /\ Range(b) \in SUBSET Range(q)
      /\ \A k \in (n + 1)..Len(q) : q[k] \in Range(b)
  BY <1>1, RangeSubSeq
<1>4. Ordered(b)
  BY OrderedTail
<1> HIDE DEF a, b
<1>5. ASSUME NEW x \in Range(q) PROVE x \in Range(a) \/ x \in Range(b)
  <2>1. PICK k \in 1..Len(q) : q[k] = x
    BY RangeFacts
  <2>2. k \in 1..n \/ k \in (n + 1)..Len(q)
    BY <1>1
  <2> QED
    BY <1>2, <1>3, <2>1, <2>2
<1> QED
  BY <1>2, <1>3, <1>4, <1>5 DEF a, b

\* A restore takes back every key the snapshot holds outside the expired entries.
LEMMA RestorableFacts ==
  ASSUME NEW q \in Seq(Entry), NEW expired \in SUBSET DOMAIN q
  PROVE  /\ Restorable(q, expired) \in Seq(Entry)
         /\ Range(Restorable(q, expired)) \in SUBSET Range(q)
         /\ \A i \in DOMAIN q \ expired : q[i].key \in KeysOf(Restorable(q, expired))
<1> DEFINE S == {i \in DOMAIN q \ expired :
                   \A j \in (1..(i - 1)) \ expired : q[j].key # q[i].key}
           u == KeepAt(q, S)
<1>1. Restorable(q, expired) = u
  BY DEF Restorable
<1>2. /\ S \in SUBSET DOMAIN q
      /\ \A i \in DOMAIN q \ expired :
           (\A j \in (1..(i - 1)) \ expired : q[j].key # q[i].key) => i \in S
  OBVIOUS
<1> HIDE DEF S
<1>3. /\ u \in Seq(Entry)
      /\ \A x : x \in Range(u) <=> \E i \in S : q[i] = x
  BY <1>2, RangeKeepAt
<1> HIDE DEF u
<1>4. Range(u) \in SUBSET Range(q)
  BY <1>2, <1>3, RangeFacts
<1>5. ASSUME NEW i \in DOMAIN q \ expired PROVE q[i].key \in KeysOf(u)
  <2> DEFINE T == {j \in DOMAIN q \ expired : q[j].key = q[i].key}
  <2>1. T \in SUBSET Nat /\ T # {}
    OBVIOUS
  <2>2. PICK m \in T : \A j \in T : m <= j
    BY <2>1, LeastMember
  <2>3. m \in S
    <3>1. m \in 1..Len(q) /\ Len(q) \in Nat /\ DOMAIN q = 1..Len(q)
      OBVIOUS
    <3>2. ASSUME NEW j \in (1..(m - 1)) \ expired PROVE q[j].key # q[m].key
      BY <2>2, <3>1
    <3> QED
      BY <1>2, <3>2
  <2> QED
    BY <1>3, <2>3, KeysFacts
<1> QED
  BY <1>1, <1>3, <1>4, <1>5

-----------------------------------------------------------------------------
(* The invariants *)

\* Every slot taken is a run in flight, and a process that is down holds nothing.
Slotted == IF up THEN active = Len(running) ELSE running = <<>> /\ queue = <<>>

\* The inductive invariant.
IInv ==
  /\ TypeOK
  /\ Slotted
  /\ Ordered(queue)
  /\ SeenIsQueued
  /\ Bounded(queue) /\ Bounded(running) /\ Bounded(disk)
  /\ SavedIsKept

\* enqueueDeferred keeps the invariant, an eviction at the cap included.
LEMMA EnqueueKeeps ==
  ASSUME IInv, NEW k \in Keys, Enqueue(k)
  PROVE  IInv'
<1> USE DEF IInv
<1> DEFINE new == [key |-> k, retries |-> 0]
           full == Len(queue) >= QueueMax
           kept == IF full THEN Front(queue) ELSE queue
           q == Sorted(Append(kept, new))
<1>1. /\ new \in Entry /\ new.key = k /\ new.retries < MaxRetries
      /\ queue \in Seq(Entry) /\ Len(queue) \in Nat
  BY DeferredAssumption DEF Entry, TypeOK
<1>2. full => Len(queue) # 0
  BY <1>1, DeferredAssumption
<1>3. /\ kept \in Seq(Entry) /\ Range(kept) \in SUBSET Range(queue)
      /\ full => Range(queue) = Range(kept) \cup {Last(queue)}
      /\ ~full => kept = queue
  BY <1>1, <1>2, FrontFacts
<1>4. /\ queue' = q /\ up
      /\ seen' = (IF full THEN seen \ {Last(queue).key} ELSE seen) \cup {k}
      /\ durable' = durable \cap KeysOf(kept)
      /\ UNCHANGED <<running, active, disk, up>>
  BY DEF Enqueue
<1> HIDE DEF new, kept, full, q
<1>5. q \in Seq(Entry) /\ Ordered(q) /\ Range(q) = Range(kept) \cup {new}
  BY <1>1, <1>3, InsertKeeps DEF q
<1>6. TypeOK'
  <2>1. seen \in SUBSET Keys /\ seen' \in SUBSET Keys
    BY <1>4 DEF TypeOK
  <2> QED
    BY <1>4, <1>5, <2>1 DEF TypeOK
<1>7. ASSUME NEW x \in seen' PROVE x \in KeysOf(q)
  <2>1. CASE x = k
    BY <1>1, <1>5, <2>1, KeysFacts
  <2>2. CASE x \in seen /\ (full => x # Last(queue).key)
    <3>1. PICK e \in Range(queue) : e.key = x
      BY <1>1, <1>4, <2>2, KeysFacts DEF SeenIsQueued
    <3>2. e \in Range(kept)
      BY <1>3, <2>2, <3>1
    <3> QED
      BY <1>5, <3>1, <3>2, KeysFacts
  <2> QED
    BY <1>4, <2>1, <2>2
<1>8. Bounded(q)
  BY <1>1, <1>3, <1>5 DEF Bounded
<1>9. SavedIsKept'
  <2>1. KeysOf(kept) \in SUBSET KeysOf(q)
    BY <1>3, <1>5, KeysFacts
  <2> QED
    BY <1>4, <2>1 DEF SavedIsKept
<1> QED
  BY <1>4, <1>5, <1>6, <1>7, <1>8, <1>9 DEF Slotted, SeenIsQueued

\* So does a worker tick: what expired or was started leaves the queue and the dedup
\* set together, and each run takes a slot that was free.
LEMMA TickKeeps ==
  ASSUME IInv, Tick
  PROVE  IInv'
<1> USE DEF IInv
<1>1. PICK expired \in SUBSET DOMAIN queue :
        LET live == KeepAt(queue, DOMAIN queue \ expired)
            n == Launchable(live)
        IN  /\ queue' = SubSeq(live, n + 1, Len(live))
            /\ running' = running \o SubSeq(live, 1, n)
            /\ active' = active + n
            /\ seen' = seen \ (KeysOf(SubSeq(live, 1, n)) \cup
                                 {queue[i].key : i \in expired})
            /\ durable' = durable \cap KeysOf(queue')
  BY DEF Tick
<1> DEFINE S == DOMAIN queue \ expired
           live == KeepAt(queue, S)
           n == Launchable(live)
           a == SubSeq(live, 1, n)
           b == SubSeq(live, n + 1, Len(live))
           gone == {queue[i].key : i \in expired}
<1>2. /\ queue' = b /\ running' = running \o a /\ active' = active + n
      /\ seen' = seen \ (KeysOf(a) \cup gone)
      /\ durable' = durable \cap KeysOf(queue')
      /\ up /\ disk' = disk /\ up' = up
  BY <1>1 DEF Tick
<1>3. /\ queue \in Seq(Entry) /\ running \in Seq(Entry) /\ S \in SUBSET DOMAIN queue
      /\ active \in 0..Slots /\ Slots \in Nat /\ active = Len(running)
  BY <1>2, DeferredAssumption DEF TypeOK, Slotted
<1>4. /\ live \in Seq(Entry) /\ Ordered(live)
      /\ \A x : x \in Range(live) <=> \E i \in S : queue[i] = x
  BY <1>3, OrderedKeepAt, RangeKeepAt
<1>5. \A x : x \in gone <=> \E i \in expired : queue[i].key = x
  OBVIOUS
<1>6. \A i \in DOMAIN queue : i \in S \/ i \in expired
  OBVIOUS
<1> HIDE DEF S, live, gone
<1>7. n \in 0..Len(live) /\ n <= Slots - active
  <2>1. Len(live) \in Nat
    BY <1>4
  <2> QED
    BY <1>3, <2>1 DEF Launchable, Smaller
<1> HIDE DEF n
<1>8. /\ a \in Seq(Entry) /\ Len(a) = n
      /\ b \in Seq(Entry) /\ Ordered(b)
      /\ Range(live) = Range(a) \cup Range(b)
  BY <1>4, <1>7, SplitFacts
<1> HIDE DEF a, b
<1>9. /\ running \o a \in Seq(Entry) /\ Len(running \o a) = Len(running) + n
      /\ Range(running \o a) = Range(running) \cup Range(a)
  <2>1. \A s, t \in Seq(Entry) :
          /\ s \o t \in Seq(Entry) /\ Len(s \o t) = Len(s) + Len(t)
          /\ Range(s \o t) = Range(s) \cup Range(t)
    BY RangeConcat
  <2> QED
    BY <1>3, <1>8, <2>1
<1>10. Range(live) \in SUBSET Range(queue)
  BY <1>3, <1>4, RangeFacts
<1>11. TypeOK'
  <2>1. active + n \in 0..Slots
    BY <1>3, <1>7
  <2>2. seen' \in SUBSET Keys /\ durable' \in SUBSET Keys
    BY <1>2 DEF TypeOK
  <2> QED
    BY <1>2, <1>8, <1>9, <2>1, <2>2 DEF TypeOK
<1>12. ASSUME NEW x \in seen' PROVE x \in KeysOf(b)
  <2>1. x \in seen /\ x \notin KeysOf(a) /\ x \notin gone
    BY <1>2
  <2>2. PICK e \in Range(queue) : e.key = x
    BY <1>2, <1>3, <2>1, KeysFacts DEF SeenIsQueued
  <2>3. PICK i \in DOMAIN queue : queue[i] = e
    BY <1>3, RangeFacts
  <2>4. e \in Range(live)
    BY <1>4, <1>5, <1>6, <2>1, <2>2, <2>3
  <2> QED
    BY <1>8, <2>1, <2>2, <2>4, KeysFacts
<1>13. Bounded(b) /\ Bounded(running \o a)
  BY <1>8, <1>9, <1>10 DEF Bounded
<1>14. Slotted' /\ SeenIsQueued' /\ SavedIsKept'
  BY <1>2, <1>3, <1>9, <1>12 DEF Slotted, SeenIsQueued, SavedIsKept
<1> QED
  BY <1>2, <1>8, <1>11, <1>13, <1>14

\* The return of a run frees the slot it held.
LEMMA ReturnFacts ==
  ASSUME IInv, up, NEW i \in DOMAIN running
  PROVE  /\ RemoveAt(running, i) \in Seq(Entry)
         /\ active - 1 \in 0..Slots /\ active - 1 = Len(RemoveAt(running, i))
         /\ Bounded(RemoveAt(running, i))
         /\ running[i] \in Entry
<1>1. /\ running \in Seq(Entry) /\ active = Len(running) /\ active \in 0..Slots
      /\ Slots \in Nat /\ Bounded(running)
  BY DeferredAssumption DEF IInv, TypeOK, Slotted
<1>2. /\ RemoveAt(running, i) \in Seq(Entry)
      /\ Len(RemoveAt(running, i)) = Len(running) - 1
      /\ Range(running) = Range(RemoveAt(running, i)) \cup {running[i]}
  BY <1>1, RangeRemoveAt
<1>3. i \in 1..Len(running) /\ Len(running) \in Nat /\ running[i] \in Entry
  BY <1>1
<1>4. active - 1 \in 0..Slots
  BY <1>1, <1>3
<1> QED
  BY <1>1, <1>2, <1>3, <1>4 DEF Bounded

\* A run that succeeds changes nothing else.
LEMMA SucceedKeeps ==
  ASSUME IInv, NEW i \in DOMAIN running, Succeed(i)
  PROVE  IInv'
<1>1. up /\ running' = RemoveAt(running, i) /\ active' = active - 1
  BY DEF Succeed
<1>2. UNCHANGED <<queue, seen, disk, up, durable>>
  BY DEF Succeed
<1> QED
  BY <1>1, <1>2, ReturnFacts DEF IInv, TypeOK, Slotted, SeenIsQueued, SavedIsKept

\* A failed run goes back into the queue in its place, with one retry fewer to go.
LEMMA FailKeeps ==
  ASSUME IInv, NEW i \in DOMAIN running, Fail(i)
  PROVE  IInv'
<1> USE DEF IInv
<1> DEFINE again == [running[i] EXCEPT !.retries = @ + 1]
           retry == again.retries < MaxRetries
           q == Sorted(Append(queue, again))
<1>1. /\ up /\ running' = RemoveAt(running, i) /\ active' = active - 1
      /\ queue' = IF retry THEN q ELSE queue
      /\ seen' = IF retry THEN seen \cup {again.key} ELSE seen
      /\ UNCHANGED <<disk, up, durable>>
  BY DEF Fail
<1>2. again \in Entry /\ again.key \in Keys
  BY <1>1, ReturnFacts DEF Entry
<1>3. retry => again.retries < MaxRetries
  OBVIOUS
<1>4. queue \in Seq(Entry)
  BY DEF TypeOK
<1> HIDE DEF again, retry, q
<1>5. q \in Seq(Entry) /\ Ordered(q) /\ Range(q) = Range(queue) \cup {again}
  BY <1>2, <1>4, InsertKeeps DEF q
<1>6. queue' \in Seq(Entry) /\ Ordered(queue') /\ Bounded(queue')
  BY <1>1, <1>3, <1>4, <1>5 DEF Bounded
<1>7. KeysOf(queue) \in SUBSET KeysOf(queue') /\ (retry => again.key \in KeysOf(queue'))
  BY <1>1, <1>4, <1>5, KeysFacts
<1>8. TypeOK'
  BY <1>1, <1>2, <1>6, ReturnFacts DEF TypeOK
<1>9. Slotted' /\ SeenIsQueued' /\ SavedIsKept'
  BY <1>1, <1>7, ReturnFacts DEF Slotted, SeenIsQueued, SavedIsKept
<1> QED
  BY <1>1, <1>6, <1>8, <1>9, ReturnFacts

\* A restart takes the snapshot back: whatever was saved and has not expired is queued.
LEMMA StartKeeps ==
  ASSUME IInv, Start
  PROVE  IInv'
<1> USE DEF IInv
<1>1. PICK expired \in SUBSET DOMAIN disk :
        /\ queue' = Sorted(Restorable(disk, expired))
        /\ durable' = durable \ ({disk[i].key : i \in expired} \ KeysOf(queue'))
  BY DEF Start
<1>2. /\ ~up /\ up' = TRUE /\ seen' = KeysOf(queue') /\ active' = 0 /\ disk' = <<>>
      /\ running' = running /\ running = <<>> /\ disk \in Seq(Entry)
  BY DEF Start, TypeOK, Slotted
<1> DEFINE r == Restorable(disk, expired)
           q == Sorted(r)
           gone == {disk[i].key : i \in expired}
<1>3. \A x : x \in gone <=> \E i \in expired : disk[i].key = x
  OBVIOUS
<1>4. queue' = q /\ durable' = durable \ (gone \ KeysOf(q))
  BY <1>1
<1>5. /\ r \in Seq(Entry) /\ Range(r) \in SUBSET Range(disk)
      /\ \A i \in DOMAIN disk \ expired : disk[i].key \in KeysOf(r)
  BY <1>2, RestorableFacts
<1> HIDE DEF r, gone
<1>6. q \in Seq(Entry) /\ Ordered(q) /\ Range(q) = Range(r)
  BY <1>5, SortedFacts, SortedOrdered
<1> HIDE DEF q
<1>7. KeysOf(q) = KeysOf(r) /\ KeysOf(q) \in SUBSET Keys
  BY <1>5, <1>6, KeysFacts
<1>8. ASSUME NEW x \in durable' PROVE x \in KeysOf(q)
  <2>1. x \in KeysOf(disk) /\ ~(x \in gone /\ x \notin KeysOf(q))
    BY <1>2, <1>4 DEF SavedIsKept
  <2>2. PICK i \in DOMAIN disk : disk[i].key = x
    BY <2>1 DEF KeysOf
  <2> QED
    BY <1>3, <1>5, <1>7, <2>1, <2>2
<1>9. Bounded(q)
  BY <1>5, <1>6 DEF Bounded
<1>10. TypeOK'
  <2>1. durable' \in SUBSET Keys /\ 0 \in 0..Slots
    BY <1>4, DeferredAssumption DEF TypeOK
  <2> QED
    BY <1>2, <1>4, <1>6, <1>7, <2>1, EmptyFacts DEF TypeOK
<1>11. Slotted' /\ SeenIsQueued' /\ SavedIsKept'
  <2>1. Len(<<>>) = 0
    OBVIOUS
  <2> QED
    BY <1>2, <1>4, <1>8, <2>1 DEF Slotted, SeenIsQueued, SavedIsKept
<1> QED
  BY <1>2, <1>4, <1>6, <1>9, <1>10, <1>11, EmptyFacts

\* The steps that empty the queue, save it or lose it with the process.
LEMMA ResetKeeps ==
  ASSUME IInv, Clear \/ Persist \/ Shutdown \/ Crash
  PROVE  IInv'
<1> USE DEF IInv
<1>1. /\ queue \in Seq(Entry) /\ running \in Seq(Entry) /\ disk \in Seq(Entry)
      /\ seen \in SUBSET Keys /\ durable \in SUBSET Keys /\ active \in 0..Slots
      /\ up \in BOOLEAN
  BY DEF TypeOK
<1>2. KeysOf(queue) \in SUBSET Keys
  BY <1>1, KeysFacts
<1>3. CASE Clear
  <2>1. TypeOK' /\ Slotted'
    BY <1>1, <1>3, EmptyFacts DEF Clear, TypeOK, Slotted
  <2> QED
    BY <1>3, <2>1, EmptyFacts DEF Clear, SeenIsQueued, SavedIsKept
<1>4. CASE Persist
  BY <1>1, <1>2, <1>4 DEF Persist, TypeOK, Slotted, SeenIsQueued, SavedIsKept
<1>5. CASE Shutdown
  <2>1. TypeOK' /\ Slotted'
    BY <1>1, <1>2, <1>5, EmptyFacts DEF Shutdown, TypeOK, Slotted
  <2> QED
    BY <1>5, <2>1, EmptyFacts DEF Shutdown, SeenIsQueued, SavedIsKept
<1>6. CASE Crash
  <2>1. TypeOK' /\ Slotted'
    BY <1>1, <1>6, EmptyFacts DEF Crash, TypeOK, Slotted
  <2> QED
    BY <1>6, <2>1, EmptyFacts DEF Crash, SeenIsQueued, SavedIsKept
<1> QED
  BY <1>3, <1>4, <1>5, <1>6

\* No step breaks it.
LEMMA Inductive == Spec => []IInv
<1>1. Init => IInv
  BY DeferredAssumption, EmptyFacts
  DEF Init, IInv, TypeOK, Slotted, SeenIsQueued, SavedIsKept
<1>2. IInv /\ [Next]_vars => IInv'
  <2> SUFFICES ASSUME IInv, [Next]_vars PROVE IInv'
    OBVIOUS
  <2>1. CASE UNCHANGED vars
    BY <2>1
    DEF vars, IInv, TypeOK, Slotted, Ordered, SeenIsQueued, Bounded, SavedIsKept
  <2>2. CASE Next
    BY <2>2, EnqueueKeeps, TickKeeps, SucceedKeeps, FailKeeps, StartKeeps, ResetKeeps
    DEF Next
  <2> QED
    BY <2>1, <2>2
<1> QED
  BY <1>1, <1>2, PTL DEF Spec

\* The deferred queue stays well formed: its types, and with them a slot count between
\* zero and the slots there are.
THEOREM DeferredTypes == Spec => []TypeOK
<1>1. IInv => TypeOK
  BY DEF IInv
<1> QED
  BY <1>1, Inductive, PTL

\* Whatever enqueues, ticks, retries, clears and restarts come, the queue is in the
\* order of the priorities, every dedup entry belongs to a queued item, and no item is
\* queued, run or saved after its last retry.
THEOREM DeferredConsistent == Spec => []QueueConsistent
<1>1. IInv => QueueConsistent
  BY RetriesFacts DEF IInv, TypeOK, QueueConsistent, QueueSorted, Ordered
<1> QED
  BY <1>1, Inductive, PTL

\* An item that was saved and not taken out since is in the queue, or in the snapshot
\* while the process is down.
THEOREM SavedKept == Spec => []SavedIsKept
<1>1. IInv => SavedIsKept
  BY DEF IInv
<1> QED
  BY <1>1, Inductive, PTL

-----------------------------------------------------------------------------
(* What makes room *)

\* One item displaced by another, which outranks it, where it outranked no other.
Displaces ==
  \E i \in DOMAIN queue, j \in DOMAIN queue' :
    /\ RemoveAt(queue, i) = RemoveAt(queue', j)
    /\ Outranks(queue'[j], queue[i])
    /\ \A k \in DOMAIN queue : ~Outranks(queue[i], queue[k])

\* At the cap the newcomer outranks the last item and takes its own place among the others.
LEMMA EnqueueDisplaces ==
  ASSUME IInv, NEW k \in Keys, Enqueue(k), Len(queue') = Len(queue)
  PROVE  Displaces
<1> DEFINE new == [key |-> k, retries |-> 0]
           full == Len(queue) >= QueueMax
           kept == IF full THEN Front(queue) ELSE queue
           q == Sorted(Append(kept, new))
<1>1. /\ queue \in Seq(Entry) /\ Ordered(queue) /\ Len(queue) \in Nat /\ new \in Entry
  BY DEF IInv, TypeOK, Entry
<1>2. full => Len(queue) # 0
  BY <1>1, DeferredAssumption
<1>3. queue' = q /\ (full => Outranks(new, Last(queue)))
  BY DEF Enqueue
<1>4. /\ ~full => kept = queue
      /\ full => kept = Front(queue)
  OBVIOUS
<1> HIDE DEF new, kept, full, q
<1>5. kept \in Seq(Entry) /\ Ordered(kept)
  BY <1>1, <1>2, <1>4, FrontFacts
<1>6. Len(q) = Len(kept) + 1 /\ \E j \in DOMAIN q : q[j] = new /\ RemoveAt(q, j) = kept
  BY <1>1, <1>5, InsertFacts DEF q
<1>7. full
  BY <1>1, <1>3, <1>4, <1>6
<1>8. PICK j \in DOMAIN q : q[j] = new /\ RemoveAt(q, j) = kept
  BY <1>6
<1>9. /\ Len(queue) \in DOMAIN queue /\ RemoveAt(queue, Len(queue)) = kept
      /\ queue[Len(queue)] = Last(queue)
      /\ \A l \in DOMAIN queue : ~Outranks(queue[Len(queue)], queue[l])
  BY <1>1, <1>2, <1>4, <1>7, FrontFacts
<1> QED
  BY <1>3, <1>7, <1>8, <1>9 DEF Displaces

\* A tick that starts nothing and leaves as many items as there were changes nothing.
LEMMA TickDisplacesNothing ==
  ASSUME IInv, Tick, running' = running, Len(queue') = Len(queue)
  PROVE  queue' = queue
<1>1. PICK expired \in SUBSET DOMAIN queue :
        LET live == KeepAt(queue, DOMAIN queue \ expired)
            n == Launchable(live)
        IN  /\ queue' = SubSeq(live, n + 1, Len(live))
            /\ running' = running \o SubSeq(live, 1, n)
  BY DEF Tick
<1> DEFINE S == DOMAIN queue \ expired
           live == KeepAt(queue, S)
           n == Launchable(live)
           a == SubSeq(live, 1, n)
<1>2. queue' = SubSeq(live, n + 1, Len(live)) /\ running' = running \o a /\ up
  BY <1>1 DEF Tick
<1>3. /\ queue \in Seq(Entry) /\ running \in Seq(Entry) /\ Ordered(queue)
      /\ S \in SUBSET DOMAIN queue /\ Len(queue) \in Nat /\ DOMAIN queue = 1..Len(queue)
      /\ active \in 0..Slots /\ Slots \in Nat
  BY DeferredAssumption DEF IInv, TypeOK
<1> HIDE DEF S
<1>4. /\ live \in Seq(Entry) /\ Ordered(live) /\ Len(live) \in Nat
      /\ Len(live) = Cardinality(S)
      /\ \A k \in S : live[Place(S, k)] = queue[k]
  <2>1. \A l \in Seq(Entry) : Len(l) \in Nat
    OBVIOUS
  <2> QED
    BY <1>3, <2>1, OrderedKeepAt, KeepAtFacts
<1> HIDE DEF live
<1>5. n \in 0..Len(live)
  BY <1>3, <1>4 DEF Launchable, Smaller
<1> HIDE DEF n
<1>6. a \in Seq(Entry) /\ Len(a) = n
  BY <1>4, <1>5, SplitFacts
<1> HIDE DEF a
<1>7. n = 0
  <2>1. \A s, t \in Seq(Entry) : Len(s \o t) = Len(s) + Len(t) /\ Len(s) \in Nat
    OBVIOUS
  <2> QED
    BY <1>2, <1>3, <1>5, <1>6, <2>1
<1>8. queue' = live
  <2>1. SubSeq(live, 1, Len(live)) = live
    BY <1>4
  <2> QED
    BY <1>2, <1>7, <2>1
<1>9. S = DOMAIN queue
  <2>1. IsFiniteSet(DOMAIN queue) /\ Cardinality(DOMAIN queue) = Len(queue)
    BY <1>3, IntervalSize
  <2> QED
    BY <1>3, <1>4, <1>8, <2>1, FS_Subset
<1>10. ASSUME NEW k \in DOMAIN queue PROVE Place(S, k) = k
  <2>1. k \in Nat /\ \A l : l \in 1..k <=> l \in S /\ l <= k
    BY <1>3, <1>9
  <2>2. {l \in S : l <= k} = 1..k
    BY <2>1
  <2> QED
    BY <2>1, <2>2, IntervalSize DEF Place
<1>11. live = queue
  <2>1. Len(live) = Len(queue) /\ \A k \in 1..Len(queue) : live[k] = queue[k]
    BY <1>3, <1>4, <1>8, <1>9, <1>10
  <2> QED
    BY <1>3, <1>4, <2>1
<1> QED
  BY <1>8, <1>11

\* A newcomer to the full queue displaces the item that everything else precedes, and
\* only if it precedes that one; no other step replaces an item of the queue.
THEOREM LowestEvicted == Spec => EvictsLowest
<1>1. IInv /\ [Next]_vars
        => [(running' = running /\ up' = up /\ queue' # queue /\ Len(queue') = Len(queue))
              => Displaces]_vars
  <2> SUFFICES ASSUME IInv, Next, running' = running, up' = up, queue' # queue,
                      Len(queue') = Len(queue)
               PROVE  Displaces
    BY DEF vars
  <2>1. CASE \E k \in Keys : Enqueue(k)
    BY <2>1, EnqueueDisplaces
  <2>2. ~Tick
    BY TickDisplacesNothing
  <2>3. ASSUME NEW i \in DOMAIN running, Succeed(i) \/ Fail(i) PROVE FALSE
    <3>1. running \in Seq(Entry) /\ i \in DOMAIN running
      BY <2>3 DEF IInv, TypeOK
    <3>2. Len(RemoveAt(running, i)) = Len(running) - 1 /\ Len(running) \in Nat
      BY <3>1, RangeRemoveAt
    <3> QED
      BY <2>3, <3>2 DEF Succeed, Fail
  <2>4. ~Clear
    <3>1. ASSUME Clear PROVE FALSE
      <4>1. queue' = <<>> /\ Len(queue) = 0 /\ queue \in Seq(Entry)
        BY <3>1 DEF Clear, IInv, TypeOK
      <4> QED
        BY <4>1
    <3> QED
      BY <3>1
  <2>5. ~Persist /\ ~Shutdown /\ ~Crash /\ ~Start
    BY DEF Persist, Shutdown, Crash, Start
  <2> QED
    BY <2>1, <2>2, <2>3, <2>4, <2>5 DEF Next
<1>2. [][(running' = running /\ up' = up /\ queue' # queue /\ Len(queue') = Len(queue))
           => Displaces]_vars <=> EvictsLowest
  BY DEF EvictsLowest, Displaces
<1> QED
  BY <1>1, <1>2, Inductive, PTL DEF Spec

-----------------------------------------------------------------------------
(* The notifications *)

SendType == [ids : SUBSET Ids, ref : Refs, awaited : BOOLEAN]

\* Which notifications are in a webhook call, and which are buffered with a scope.
Carried(S, i) == \E c \in S : i \in c.ids
Buffered(g, i) == \E s \in Scopes : i \in g[s]

\* No notification is in two calls.
Separate(S) == \A c, d \in S : c # d => c.ids \cap d.ids = {}

\* A group holds open alerts of its scope.
GroupsFilled ==
  \A s \in Scopes : \A i \in groups[s] :
    i \in DOMAIN notes /\ notes[i].outcome = "open" /\ notes[i].kind = "alert"

\* A call carries open notifications, a follow-up on its own; an entry it refers to
\* as live is in the map.
SendsMade ==
  \A c \in sends : c.ids # {} /\ \A i \in c.ids :
    /\ i \in DOMAIN notes /\ notes[i].outcome = "open"
    /\ notes[i].kind = "followup" => c.ids = {i}
    /\ c.ref = "live" => tracked[notes[i].name] # Untracked

Apart ==
  /\ Separate(sends)
  /\ \A i : ~(Carried(sends, i) /\ Buffered(groups, i))

\* An open notification is in a call or in a group.
Homed ==
  \A i \in DOMAIN notes : notes[i].outcome = "open" => Carried(sends, i) \/ Buffered(groups, i)

AlertsInv ==
  AlertsTypeOK /\ TrackedWasAlerted /\ GroupsFilled /\ SendsMade /\ Apart /\ Homed

\* What became of a settled notification does not change.
OutcomesFinal ==
  \A i \in DOMAIN notes : notes[i].outcome # "open" => notes'[i] = notes[i]
-----------------------------------------------------------------------------

\* Settling changes outcomes only, and only those of I.
LEMMA SettledFacts ==
  ASSUME notes \in Seq(Note), NEW I, NEW outcome \in Outcomes
  PROVE  /\ Settled(I, outcome) \in Seq(Note)
         /\ Len(Settled(I, outcome)) = Len(notes)
         /\ DOMAIN Settled(I, outcome) = DOMAIN notes
         /\ \A i \in DOMAIN notes :
              LET note == Settled(I, outcome)[i]
              IN  /\ note.kind = notes[i].kind /\ note.name = notes[i].name
                  /\ note.rules = notes[i].rules
                  /\ note.outcome = IF i \in I THEN outcome ELSE notes[i].outcome
                  /\ i \notin I => note = notes[i]
<1> DEFINE t == Settled(I, outcome)
<1>1. /\ t = [i \in 1..Len(notes) |->
                IF i \in I THEN [notes[i] EXCEPT !.outcome = outcome] ELSE notes[i]]
      /\ Len(notes) \in Nat /\ DOMAIN notes = 1..Len(notes)
  BY DEF Settled
<1>2. \A i \in 1..Len(notes) : notes[i] \in Note
  BY <1>1
<1>3. \A i \in 1..Len(notes) :
        /\ t[i] \in Note
        /\ t[i].kind = notes[i].kind /\ t[i].name = notes[i].name
        /\ t[i].rules = notes[i].rules
        /\ t[i].outcome = IF i \in I THEN outcome ELSE notes[i].outcome
        /\ i \notin I => t[i] = notes[i]
  BY <1>1, <1>2 DEF Note
<1>4. t \in [1..Len(notes) -> Note]
  BY <1>1, <1>3
<1>5. t \in Seq(Note) /\ Len(t) = Len(notes) /\ DOMAIN t = DOMAIN notes
  BY <1>1, <1>4
<1> QED
  BY <1>1, <1>3, <1>5

\* A notification that passed the dedup joins the history.
LEMMA NotedFacts ==
  ASSUME notes \in Seq(Note), NEW e \in Note, NEW id, id = Len(notes) + 1
  PROVE  /\ Append(notes, e) \in Seq(Note) /\ Len(Append(notes, e)) = id
         /\ DOMAIN Append(notes, e) = DOMAIN notes \cup {id} /\ id \notin DOMAIN notes
         /\ Append(notes, e)[id] = e
         /\ \A i \in DOMAIN notes : Append(notes, e)[i] = notes[i]
<1>1. Len(notes) \in Nat /\ DOMAIN notes = 1..Len(notes)
  OBVIOUS
<1> QED
  BY <1>1

\* The references that dangle leave the calls where they are.
LEMMA OrphanedFacts ==
  ASSUME NEW S \in SUBSET SendType, NEW N
  PROVE  /\ Orphaned(S, N) \in SUBSET SendType
         /\ \A x \in Orphaned(S, N) : \E c \in S :
              /\ x.ids = c.ids
              /\ x.ref = "live" => c.ref = "live" /\ \A i \in c.ids : notes[i].name \notin N
         /\ \A i : Carried(Orphaned(S, N), i) <=> Carried(S, i)
         /\ Separate(S) => Separate(Orphaned(S, N))
<1> DEFINE Hit(c) == \E i \in c.ids : notes[i].name \in N
           O(c) == [c EXCEPT !.ref = IF @ = "live" /\ Hit(c) THEN "orphan" ELSE @]
<1>1. \A x : x \in Orphaned(S, N) <=> \E c \in S : x = O(c)
  BY DEF Orphaned
<1>2. ASSUME NEW c \in S
      PROVE  /\ O(c) \in SendType /\ O(c).ids = c.ids
             /\ O(c).ref = "live" => c.ref = "live" /\ ~Hit(c)
  <2> HIDE DEF Hit
  <2> QED
    BY DEF SendType, Refs
<1> HIDE DEF O
<1>3. \A i : Carried(Orphaned(S, N), i) <=> Carried(S, i)
  BY <1>1, <1>2 DEF Carried
<1>4. Separate(S) => Separate(Orphaned(S, N))
  <2> SUFFICES ASSUME Separate(S), NEW x \in Orphaned(S, N), NEW y \in Orphaned(S, N), x # y
               PROVE  x.ids \cap y.ids = {}
    BY DEF Separate
  <2>1. PICK c \in S, d \in S : x = O(c) /\ y = O(d)
    BY <1>1
  <2> QED
    BY <2>1, <1>2 DEF Separate
<1>5. Orphaned(S, N) \in SUBSET SendType
  BY <1>1, <1>2
<1> QED
  BY <1>1, <1>2, <1>3, <1>4, <1>5

-----------------------------------------------------------------------------

\* At first nothing is tracked, buffered or sent.
LEMMA AlertsStarted ==
  ASSUME AlertsInit
  PROVE  AlertsInv
<1>1. AlertsTypeOK
  <2>1. <<>> \in Seq(Note) /\ Len(<<>>) <= MaxNotes
    BY AlertsAssumption
  <2> QED
    BY <2>1 DEF AlertsInit, AlertsTypeOK
<1>2. TrackedWasAlerted
  BY DEF AlertsInit, TrackedWasAlerted
<1>3. GroupsFilled /\ SendsMade /\ Apart /\ Homed
  BY DEF AlertsInit, GroupsFilled, SendsMade, Apart, Homed, Separate, Carried, Buffered
<1> QED
  BY <1>1, <1>2, <1>3 DEF AlertsInv

\* What is in one place at a time is in exactly one, or in none.
LEMMA PlacesCounted ==
  ASSUME AlertsInv
  PROVE  InOnePlace
<1> SUFFICES ASSUME NEW i \in DOMAIN notes
             PROVE  Cardinality({s \in Scopes : i \in groups[s]})
                      + Cardinality({c \in sends : i \in c.ids})
                      = IF notes[i].outcome = "open" THEN 1 ELSE 0
  BY DEF InOnePlace
<1> DEFINE G == {s \in Scopes : i \in groups[s]}
           C == {c \in sends : i \in c.ids}
<1>1. \A s, t \in G : s = t
  BY DEF AlertsInv, AlertsTypeOK
<1>2. \A c, d \in C : c = d
  BY DEF AlertsInv, Apart, Separate
<1>3. G = {} \/ C = {}
  BY DEF AlertsInv, Apart, Carried, Buffered
<1>4. notes[i].outcome = "open" <=> G # {} \/ C # {}
  BY DEF AlertsInv, Homed, Carried, Buffered, GroupsFilled, SendsMade
<1> HIDE DEF G, C
<1>5. ASSUME NEW S, \A s, t \in S : s = t
      PROVE  Cardinality(S) = IF S = {} THEN 0 ELSE 1
  <2>1. CASE S = {}
    BY <2>1, FS_EmptySet
  <2>2. CASE S # {}
    <3>1. PICK s : S = {s}
      BY <2>2, <1>5
    <3> QED
      BY <3>1, FS_Singleton
  <2> QED
    BY <2>1, <2>2
<1>6. Cardinality(G) = (IF G = {} THEN 0 ELSE 1) /\ Cardinality(C) = (IF C = {} THEN 0 ELSE 1)
  BY <1>1, <1>2, <1>5
<1>7. Cardinality(G) + Cardinality(C) = IF notes[i].outcome = "open" THEN 1 ELSE 0
  BY <1>3, <1>4, <1>6
<1> QED
  BY <1>7 DEF G, C

\* An alert is in the map and in its one place at once.
LEMMA AlertKeeps ==
  ASSUME AlertsInv, NEW n \in Names, NEW R \in (SUBSET Rules) \ {{}},
         Alert(n, R)
  PROVE  AlertsInv' /\ OutcomesFinal
<1> DEFINE id == Len(notes) + 1
           e == [kind |-> "alert", name |-> n, rules |-> R, outcome |-> "open"]
           All == SUBSET (Rules \cup FollowUps)
           call == [ids |-> {id}, ref |-> "none", awaited |-> FALSE]
<1>1. PICK N \in Evictable(n) :
        /\ tracked' = [Forgotten(tracked, N, Untracked) EXCEPT ![n] = Known(n, R)]
        /\ alerted' = [Forgotten(alerted, N, {}) EXCEPT ![n] = @ \cup R]
        /\ IF ScopeOf[n] = Unscoped
           THEN /\ sends' = Orphaned(sends, N) \cup {call}
                /\ UNCHANGED groups
           ELSE /\ groups' = [groups EXCEPT ![ScopeOf[n]] = @ \cup {id}]
                /\ sends' = Orphaned(sends, N)
  BY DEF Alert
<1>2. /\ Len(notes) < MaxNotes /\ notes' = Append(notes, e) /\ UNCHANGED phase
  BY DEF Alert
<1>3. N \in SUBSET Names /\ n \notin N
  BY DEF Evictable
<1>4. /\ notes \in Seq(Note) /\ sends \in SUBSET SendType /\ groups \in [Scopes -> SUBSET Ids]
      /\ tracked \in [Names -> All \cup {Untracked}] /\ alerted \in [Names -> All]
      /\ R \in All /\ MaxNotes \in Nat /\ Len(notes) \in Nat /\ DOMAIN notes = 1..Len(notes)
      /\ \A T \in All : T # Untracked
      /\ ScopeOf[n] \in Scopes \cup {Unscoped} /\ Unscoped \notin Scopes
  BY AlertsAssumption DEF AlertsInv, AlertsTypeOK, SendType
<1>5. id \in Ids /\ id \in Nat /\ e \in Note /\ call \in SendType
  BY <1>2, <1>4 DEF Ids, Note, SendType, Refs, Outcomes
<1> HIDE DEF id, e, call
<1>6. /\ notes' \in Seq(Note) /\ Len(notes') = id /\ Len(notes') <= MaxNotes
      /\ DOMAIN notes' = DOMAIN notes \cup {id} /\ id \notin DOMAIN notes
      /\ notes'[id] = e /\ \A i \in DOMAIN notes : notes'[i] = notes[i]
  BY <1>2, <1>4, <1>5, NotedFacts DEF id
<1>7. /\ e.kind = "alert" /\ e.name = n /\ e.outcome = "open"
      /\ call.ids = {id} /\ call.ref = "none"
  BY DEF e, call
<1>8. /\ Orphaned(sends, N) \in SUBSET SendType
      /\ \A x \in Orphaned(sends, N) : \E c \in sends :
           /\ x.ids = c.ids
           /\ x.ref = "live" => c.ref = "live" /\ \A i \in c.ids : notes[i].name \notin N
      /\ \A i : Carried(Orphaned(sends, N), i) <=> Carried(sends, i)
      /\ Separate(Orphaned(sends, N))
  BY <1>4, OrphanedFacts DEF AlertsInv, Apart
<1>9. \A m \in Names : /\ tracked'[m] = IF m = n THEN Known(n, R)
                                        ELSE IF m \in N THEN Untracked ELSE tracked[m]
                       /\ alerted'[m] = IF m = n THEN alerted[n] \cup R
                                        ELSE IF m \in N THEN {} ELSE alerted[m]
  BY <1>1, <1>3 DEF Forgotten
<1>10. Known(n, R) \in All /\ (tracked[n] # Untracked => tracked[n] \in All)
  BY <1>4 DEF Known
<1>11. tracked' \in [Names -> All \cup {Untracked}] /\ alerted' \in [Names -> All]
  <2>1. tracked' = [m \in Names |-> tracked'[m]] /\ alerted' = [m \in Names |-> alerted'[m]]
    BY <1>1 DEF Forgotten
  <2>2. \A m \in Names : tracked'[m] \in All \cup {Untracked} /\ alerted'[m] \in All
    BY <1>4, <1>9, <1>10
  <2> QED
    BY <2>1, <2>2
<1>12. TrackedWasAlerted'
  BY <1>9, <1>3 DEF AlertsInv, TrackedWasAlerted, Known
<1>13. \A i : /\ Carried(sends, i) => i \in DOMAIN notes
              /\ Buffered(groups, i) => i \in DOMAIN notes
  BY DEF AlertsInv, SendsMade, GroupsFilled, Carried, Buffered
<1>14. \A x \in Orphaned(sends, N) :
         x.ids # {} /\ \A i \in x.ids :
           /\ i \in DOMAIN notes' /\ notes'[i].outcome = "open"
           /\ notes'[i].kind = "followup" => x.ids = {i}
           /\ x.ref = "live" => tracked'[notes'[i].name] # Untracked
  <2> SUFFICES ASSUME NEW x \in Orphaned(sends, N)
               PROVE  x.ids # {} /\ \A i \in x.ids :
                        /\ i \in DOMAIN notes' /\ notes'[i].outcome = "open"
                        /\ notes'[i].kind = "followup" => x.ids = {i}
                        /\ x.ref = "live" => tracked'[notes'[i].name] # Untracked
    OBVIOUS
  <2>1. PICK c \in sends :
          /\ x.ids = c.ids
          /\ x.ref = "live" => c.ref = "live" /\ \A i \in c.ids : notes[i].name \notin N
    BY <1>8
  <2>2. c.ids # {} /\ \A i \in c.ids :
          /\ i \in DOMAIN notes /\ notes[i].outcome = "open"
          /\ notes[i].kind = "followup" => c.ids = {i}
          /\ c.ref = "live" => tracked[notes[i].name] # Untracked
    BY DEF AlertsInv, SendsMade
  <2>3. \A i \in DOMAIN notes : notes[i].name \in Names
    <3>1. \A i \in DOMAIN notes : notes[i] \in Note
      BY <1>4
    <3> QED
      BY <3>1 DEF Note
  <2> QED
    BY <2>1, <2>2, <2>3, <1>4, <1>6, <1>9, <1>10
<1>15. CASE ScopeOf[n] = Unscoped
  <2>1. sends' = Orphaned(sends, N) \cup {call} /\ groups' = groups
    BY <1>1, <1>15
  <2>2. AlertsTypeOK'
    <3>1. \A s \in Scopes : \A i \in groups'[s] : ScopeOf[notes'[i].name] = s
      BY <2>1, <1>6 DEF AlertsInv, AlertsTypeOK, GroupsFilled
    <3> QED
      BY <3>1, <2>1, <1>2, <1>4, <1>5, <1>6, <1>8, <1>11
      DEF AlertsInv, AlertsTypeOK, SendType
  <2>3. GroupsFilled'
    BY <2>1, <1>6 DEF AlertsInv, GroupsFilled
  <2>4. SendsMade'
    <3>1. /\ call.ids # {}
          /\ \A i \in call.ids : /\ i \in DOMAIN notes' /\ notes'[i].outcome = "open"
                                 /\ notes'[i].kind # "followup"
          /\ call.ref # "live"
      BY <1>6, <1>7
    <3> QED
      BY <3>1, <2>1, <1>14 DEF SendsMade
  <2>5. Apart'
    <3>1. \A i : Carried(sends', i) <=> Carried(sends, i) \/ i = id
      BY <2>1, <1>7, <1>8 DEF Carried
    <3>2. Separate(sends')
      <4>1. \A c \in Orphaned(sends, N) : c.ids \cap call.ids = {}
        BY <1>6, <1>7, <1>8, <1>13 DEF Carried
      <4> QED
        BY <4>1, <2>1, <1>8 DEF Separate
    <3> QED
      BY <3>1, <3>2, <2>1, <1>6, <1>13 DEF AlertsInv, Apart, Carried, Buffered
  <2>6. Homed'
    <3>1. \A i : Carried(sends', i) <=> Carried(sends, i) \/ i = id
      BY <2>1, <1>7, <1>8 DEF Carried
    <3> QED
      BY <3>1, <2>1, <1>6 DEF AlertsInv, Homed, Carried, Buffered
  <2> QED
    BY <2>2, <2>3, <2>4, <2>5, <2>6, <1>6, <1>12 DEF AlertsInv, OutcomesFinal
<1>16. CASE ScopeOf[n] # Unscoped
  <2> DEFINE s == ScopeOf[n]
  <2>1. /\ s \in Scopes /\ sends' = Orphaned(sends, N)
        /\ groups' \in [Scopes -> SUBSET Ids]
        /\ \A t \in Scopes : groups'[t] = IF t = s THEN groups[s] \cup {id} ELSE groups[t]
    BY <1>1, <1>4, <1>5, <1>16
  <2>2. \A i : /\ Carried(sends', i) <=> Carried(sends, i)
               /\ Buffered(groups', i) <=> Buffered(groups, i) \/ i = id
    BY <2>1, <1>8 DEF Buffered
  <2>3. AlertsTypeOK'
    <3>1. \A t \in Scopes : \A i \in groups'[t] : ScopeOf[notes'[i].name] = t
      BY <2>1, <1>6, <1>7 DEF AlertsInv, AlertsTypeOK, GroupsFilled
    <3> QED
      BY <3>1, <2>1, <1>2, <1>4, <1>5, <1>6, <1>8, <1>11
      DEF AlertsInv, AlertsTypeOK, SendType
  <2>4. GroupsFilled'
    BY <2>1, <1>6, <1>7 DEF AlertsInv, GroupsFilled
  <2>5. SendsMade'
    BY <2>1, <1>14 DEF SendsMade
  <2>6. Apart'
    BY <2>1, <2>2, <1>6, <1>8, <1>13 DEF AlertsInv, Apart, Carried, Buffered
  <2>7. Homed'
    BY <2>2, <1>6 DEF AlertsInv, Homed, Carried, Buffered
  <2> QED
    BY <2>3, <2>4, <2>5, <2>6, <2>7, <1>6, <1>12 DEF AlertsInv, OutcomesFinal
<1> QED
  BY <1>15, <1>16

\* A follow-up leaves in a call of its own, with the entry it read.
LEMMA FollowUpKeeps ==
  ASSUME AlertsInv, NEW n \in Names, NEW f \in FollowUps, FollowUp(n, f)
  PROVE  AlertsInv' /\ OutcomesFinal
<1> DEFINE id == Len(notes) + 1
           e == [kind |-> "followup", name |-> n, rules |-> {f}, outcome |-> "open"]
           call == [ids |-> {id}, awaited |-> FALSE,
                    ref |-> IF tracked[n] = Untracked THEN "none" ELSE "live"]
<1>1. /\ Len(notes) < MaxNotes /\ notes' = Append(notes, e) /\ sends' = sends \cup {call}
      /\ UNCHANGED <<tracked, groups, alerted, phase>>
  BY DEF FollowUp
<1>2. /\ notes \in Seq(Note) /\ sends \in SUBSET SendType /\ MaxNotes \in Nat
      /\ Len(notes) \in Nat /\ DOMAIN notes = 1..Len(notes)
  BY AlertsAssumption DEF AlertsInv, AlertsTypeOK, SendType
<1>3. id \in Ids /\ id \in Nat /\ e \in Note /\ call \in SendType
  BY <1>1, <1>2 DEF Ids, Note, SendType, Refs, Outcomes
<1>4. /\ e.kind = "followup" /\ e.name = n /\ e.outcome = "open" /\ call.ids = {id}
      /\ call.ref = "live" => tracked[n] # Untracked
  OBVIOUS
<1> HIDE DEF id, e, call
<1>5. /\ notes' \in Seq(Note) /\ Len(notes') = id /\ Len(notes') <= MaxNotes
      /\ DOMAIN notes' = DOMAIN notes \cup {id} /\ id \notin DOMAIN notes
      /\ notes'[id] = e /\ \A i \in DOMAIN notes : notes'[i] = notes[i]
  BY <1>1, <1>2, <1>3, NotedFacts DEF id
<1>6. /\ \A i : Carried(sends, i) => i \in DOMAIN notes
      /\ \A i : Buffered(groups, i) => i \in DOMAIN notes
      /\ \A i : Carried(sends', i) <=> Carried(sends, i) \/ i = id
  BY <1>1, <1>4 DEF AlertsInv, SendsMade, GroupsFilled, Carried, Buffered
<1>7. AlertsTypeOK'
  <2>1. \A s \in Scopes : \A i \in groups'[s] : ScopeOf[notes'[i].name] = s
    BY <1>1, <1>5 DEF AlertsInv, AlertsTypeOK, GroupsFilled
  <2> QED
    BY <2>1, <1>1, <1>3, <1>5 DEF AlertsInv, AlertsTypeOK, SendType
<1>8. TrackedWasAlerted' /\ GroupsFilled'
  BY <1>1, <1>5 DEF AlertsInv, TrackedWasAlerted, GroupsFilled
<1>9. SendsMade'
  BY <1>1, <1>4, <1>5 DEF AlertsInv, SendsMade
<1>10. Apart'
  <2>1. \A c \in sends : c.ids \cap call.ids = {}
    BY <1>4, <1>5, <1>6 DEF Carried
  <2>2. Separate(sends')
    BY <2>1, <1>1 DEF AlertsInv, Apart, Separate
  <2> QED
    BY <2>2, <1>1, <1>5, <1>6 DEF AlertsInv, Apart
<1>11. Homed'
  BY <1>1, <1>5, <1>6 DEF AlertsInv, Homed
<1> QED
  BY <1>5, <1>7, <1>8, <1>9, <1>10, <1>11 DEF AlertsInv, OutcomesFinal

\* A flush moves a group into one call.
LEMMA FlushKeeps ==
  ASSUME AlertsInv, NEW s \in Scopes, NEW awaited \in BOOLEAN, Flush(s, awaited),
         UNCHANGED phase
  PROVE  AlertsInv' /\ OutcomesFinal
<1> DEFINE call == [ids |-> groups[s], ref |-> "none", awaited |-> awaited]
<1>1. /\ groups[s] # {} /\ groups' = [groups EXCEPT ![s] = {}] /\ sends' = sends \cup {call}
      /\ UNCHANGED <<tracked, notes, alerted, phase>>
  BY DEF Flush
<1>2. groups \in [Scopes -> SUBSET Ids] /\ sends \in SUBSET SendType
  BY DEF AlertsInv, AlertsTypeOK, SendType
<1>3. call \in SendType /\ call.ids = groups[s] /\ call.ref = "none"
  BY <1>2 DEF SendType, Refs
<1> HIDE DEF call
<1>4. /\ groups' \in [Scopes -> SUBSET Ids]
      /\ \A t \in Scopes : groups'[t] = IF t = s THEN {} ELSE groups[t]
  BY <1>1, <1>2
<1>5. \A t \in Scopes : t # s => groups[t] \cap groups[s] = {}
  BY DEF AlertsInv, AlertsTypeOK
<1>6. /\ \A i : Carried(sends', i) <=> Carried(sends, i) \/ i \in groups[s]
      /\ \A i : Buffered(groups', i) <=> Buffered(groups, i) /\ i \notin groups[s]
      /\ \A i \in groups[s] : Buffered(groups, i)
  BY <1>1, <1>3, <1>4, <1>5 DEF Carried, Buffered
<1>7. AlertsTypeOK'
  BY <1>1, <1>2, <1>3, <1>4 DEF AlertsInv, AlertsTypeOK, SendType
<1>8. TrackedWasAlerted' /\ GroupsFilled'
  BY <1>1, <1>4 DEF AlertsInv, TrackedWasAlerted, GroupsFilled
<1>9. SendsMade'
  <2>1. \A i \in groups[s] : /\ i \in DOMAIN notes /\ notes[i].outcome = "open"
                             /\ notes[i].kind # "followup"
    BY DEF AlertsInv, GroupsFilled
  <2> QED
    BY <2>1, <1>1, <1>3 DEF AlertsInv, SendsMade
<1>10. Apart'
  <2>1. \A c \in sends : c.ids \cap call.ids = {}
    BY <1>3, <1>6 DEF AlertsInv, Apart, Carried
  <2>2. Separate(sends')
    BY <2>1, <1>1 DEF AlertsInv, Apart, Separate
  <2> QED
    BY <2>2, <1>6 DEF AlertsInv, Apart
<1>11. Homed'
  BY <1>1, <1>6 DEF AlertsInv, Homed
<1> QED
  BY <1>1, <1>7, <1>8, <1>9, <1>10, <1>11 DEF AlertsInv, OutcomesFinal

\* The step of the notifications in I, which leave their places for good: the calls
\* that remain are those they were, and refer to live entries only if there are.
LEMMA EndsKept ==
  ASSUME AlertsInv, NEW I, NEW outcome \in Outcomes \ {"open"},
         \/ I = {} /\ UNCHANGED notes
         \/ notes' = Settled(I, outcome),
         \A i \in I : Carried(sends, i) \/ Buffered(groups, i),
         groups' \in [Scopes -> SUBSET Ids], \A s \in Scopes : groups'[s] \subseteq groups[s],
         \A i : Buffered(groups', i) <=> Buffered(groups, i) /\ i \notin I,
         sends' \in SUBSET SendType, Separate(sends'),
         \A i : Carried(sends', i) <=> Carried(sends, i) /\ i \notin I,
         \A x \in sends' : \E c \in sends :
           /\ x.ids = c.ids
           /\ x.ref = "live" =>
                c.ref = "live" /\ \A i \in c.ids : tracked'[notes[i].name] # Untracked,
         tracked' \in [Names -> (SUBSET (Rules \cup FollowUps)) \cup {Untracked}],
         alerted' \in [Names -> SUBSET (Rules \cup FollowUps)],
         TrackedWasAlerted', phase' \in {"running", "exiting"}
  PROVE  AlertsInv' /\ OutcomesFinal
<1>1. notes \in Seq(Note) /\ Len(notes) <= MaxNotes
  BY DEF AlertsInv, AlertsTypeOK
<1>2. /\ notes' \in Seq(Note) /\ Len(notes') = Len(notes) /\ DOMAIN notes' = DOMAIN notes
      /\ \A i \in DOMAIN notes :
           /\ notes'[i].name = notes[i].name
           /\ notes'[i].outcome = IF i \in I THEN outcome ELSE notes[i].outcome
           /\ i \notin I => notes'[i] = notes[i]
  BY <1>1, SettledFacts
<1>3. GroupsFilled'
  <2> SUFFICES ASSUME NEW s \in Scopes, NEW i \in groups'[s]
               PROVE  /\ i \in DOMAIN notes' /\ notes'[i].outcome = "open"
                      /\ notes'[i].kind = "alert"
    BY DEF GroupsFilled
  <2>1. i \in groups[s] /\ i \notin I
    BY DEF Buffered
  <2> QED
    BY <2>1, <1>2 DEF AlertsInv, GroupsFilled
<1>4. AlertsTypeOK'
  <2>1. \A s \in Scopes : \A i \in groups'[s] : ScopeOf[notes'[i].name] = s
    BY <1>2 DEF AlertsInv, AlertsTypeOK, GroupsFilled
  <2> QED
    BY <2>1, <1>1, <1>2 DEF AlertsTypeOK, SendType
<1>5. SendsMade'
  <2> SUFFICES ASSUME NEW x \in sends'
               PROVE  x.ids # {} /\ \A i \in x.ids :
                        /\ i \in DOMAIN notes' /\ notes'[i].outcome = "open"
                        /\ notes'[i].kind = "followup" => x.ids = {i}
                        /\ x.ref = "live" => tracked'[notes'[i].name] # Untracked
    BY DEF SendsMade
  <2>1. PICK c \in sends :
          /\ x.ids = c.ids
          /\ x.ref = "live" =>
               c.ref = "live" /\ \A i \in c.ids : tracked'[notes[i].name] # Untracked
    OBVIOUS
  <2>2. \A i \in x.ids : i \notin I
    BY DEF Carried
  <2>3. c.ids # {} /\ \A i \in c.ids : /\ i \in DOMAIN notes /\ notes[i].outcome = "open"
                                       /\ notes[i].kind = "followup" => c.ids = {i}
    BY DEF AlertsInv, SendsMade
  <2> QED
    BY <2>1, <2>2, <2>3, <1>2
<1>6. Apart'
  BY DEF AlertsInv, Apart
<1>7. Homed' /\ OutcomesFinal
  <2>1. ASSUME NEW i \in DOMAIN notes, i \in I PROVE notes[i].outcome = "open"
    BY <2>1 DEF AlertsInv, SendsMade, GroupsFilled, Carried, Buffered
  <2> QED
    BY <2>1, <1>2 DEF AlertsInv, Homed, OutcomesFinal
<1> QED
  BY <1>3, <1>4, <1>5, <1>6, <1>7 DEF AlertsInv

\* A webhook call ends: the others do not carry what it carried.
LEMMA CallEnds ==
  ASSUME AlertsInv, NEW c \in sends
  PROVE  /\ sends \ {c} \in SUBSET SendType /\ Separate(sends \ {c})
         /\ c.ids # {} /\ \A i \in c.ids : Carried(sends, i)
         /\ \A i : Carried(sends \ {c}, i) <=> Carried(sends, i) /\ i \notin c.ids
         /\ \A i : Buffered(groups, i) <=> Buffered(groups, i) /\ i \notin c.ids
         /\ \A i \in c.ids : i \in DOMAIN notes /\ notes[i] \in Note
<1>1. sends \in SUBSET SendType /\ notes \in Seq(Note)
  BY DEF AlertsInv, AlertsTypeOK, SendType
<1>2. c.ids # {} /\ \A i \in c.ids : i \in DOMAIN notes
  BY DEF AlertsInv, SendsMade
<1>3. \A i \in c.ids : Carried(sends, i)
  BY DEF Carried
<1>4. Separate(sends) /\ \A i : ~(Carried(sends, i) /\ Buffered(groups, i))
  BY DEF AlertsInv, Apart
<1>5. Separate(sends \ {c})
  BY <1>4 DEF Separate
<1>6. \A i : Carried(sends \ {c}, i) <=> Carried(sends, i) /\ i \notin c.ids
  BY <1>4 DEF Carried, Separate
<1>7. \A i : Buffered(groups, i) <=> Buffered(groups, i) /\ i \notin c.ids
  BY ONLY <1>3, <1>4
<1>8. \A i \in c.ids : notes[i] \in Note
  BY <1>1, <1>2
<1>9. sends \ {c} \in SUBSET SendType
  BY <1>1
<1> QED
  BY ONLY <1>2, <1>3, <1>5, <1>6, <1>7, <1>8, <1>9

\* A refused call changes no entry.
LEMMA DeclinedKeeps ==
  ASSUME AlertsInv, NEW c \in sends, Declined(c)
  PROVE  AlertsInv' /\ OutcomesFinal
<1>1. /\ notes' = Settled(c.ids, "failed") /\ sends' = sends \ {c}
      /\ UNCHANGED <<tracked, groups, alerted, phase>>
  BY DEF Declined
<1>2. /\ groups' \in [Scopes -> SUBSET Ids] /\ phase' \in {"running", "exiting"}
      /\ tracked' \in [Names -> (SUBSET (Rules \cup FollowUps)) \cup {Untracked}]
      /\ alerted' \in [Names -> SUBSET (Rules \cup FollowUps)]
      /\ TrackedWasAlerted'
  BY <1>1 DEF AlertsInv, AlertsTypeOK, TrackedWasAlerted
<1>3. \A x \in sends' : \E d \in sends :
        /\ x.ids = d.ids
        /\ x.ref = "live" =>
             d.ref = "live" /\ \A i \in d.ids : tracked'[notes[i].name] # Untracked
  BY <1>1 DEF AlertsInv, SendsMade
<1>4. "failed" \in Outcomes \ {"open"} /\ \A s \in Scopes : groups'[s] \subseteq groups[s]
  BY <1>1 DEF Outcomes
<1>5. /\ sends' \in SUBSET SendType /\ Separate(sends')
      /\ \A i \in c.ids : Carried(sends, i) \/ Buffered(groups, i)
      /\ \A i : Carried(sends', i) <=> Carried(sends, i) /\ i \notin c.ids
      /\ \A i : Buffered(groups', i) <=> Buffered(groups, i) /\ i \notin c.ids
  BY <1>1, CallEnds
<1>6. \/ c.ids = {} /\ UNCHANGED notes
      \/ notes' = Settled(c.ids, "failed")
  BY <1>1
<1> QED
  BY ONLY AlertsInv, <1>2, <1>3, <1>4, <1>5, <1>6, EndsKept

\* A follow-up is recorded in the entry that was read, if the map still has it.
LEMMA DeliveredKeeps ==
  ASSUME AlertsInv, NEW c \in sends, Delivered(c)
  PROVE  AlertsInv' /\ OutcomesFinal
<1> DEFINE All == SUBSET (Rules \cup FollowUps)
<1>1. notes' = Settled(c.ids, "sent") /\ UNCHANGED <<groups, phase>>
  BY DEF Delivered
<1>2. /\ sends \in SUBSET SendType /\ groups \in [Scopes -> SUBSET Ids]
      /\ tracked \in [Names -> All \cup {Untracked}] /\ alerted \in [Names -> All]
      /\ TrackedWasAlerted /\ phase \in {"running", "exiting"}
      /\ \A T \in All : T # Untracked
  BY AlertsAssumption DEF AlertsInv, AlertsTypeOK, SendType
<1>3. /\ sends \ {c} \in SUBSET SendType /\ Separate(sends \ {c})
      /\ c.ids # {} /\ \A i \in c.ids : Carried(sends, i)
      /\ \A i : Carried(sends \ {c}, i) <=> Carried(sends, i) /\ i \notin c.ids
      /\ \A i : Buffered(groups, i) <=> Buffered(groups, i) /\ i \notin c.ids
      /\ \A i \in c.ids : i \in DOMAIN notes /\ notes[i] \in Note
  BY CallEnds
<1>4. \A d \in sends : \A i \in d.ids : d.ref = "live" => tracked[notes[i].name] # Untracked
  BY DEF AlertsInv, SendsMade
<1>5. /\ sends' \in SUBSET SendType /\ Separate(sends')
      /\ \A i : Carried(sends', i) <=> Carried(sends \ {c}, i)
      /\ \A x \in sends' : \E d \in sends :
           /\ x.ids = d.ids
           /\ x.ref = "live" =>
                d.ref = "live" /\ \A i \in d.ids : tracked'[notes[i].name] # Untracked
      /\ tracked' \in [Names -> All \cup {Untracked}] /\ alerted' \in [Names -> All]
      /\ TrackedWasAlerted'
  <2>1. CASE ~\E i \in c.ids : notes[i].kind = "followup"
    <3>1. sends' = sends \ {c} /\ tracked' = tracked /\ alerted' = alerted
      BY <2>1 DEF Delivered
    <3> QED
      BY <3>1, <1>2, <1>3, <1>4 DEF TrackedWasAlerted
  <2>2. CASE \E i \in c.ids : notes[i].kind = "followup"
    <3>1. PICK i \in c.ids : notes[i].kind = "followup"
      BY <2>2
    <3>2. c.ids = {i}
      BY <3>1 DEF AlertsInv, SendsMade
    <3>3. (CHOOSE j \in c.ids : TRUE) = i
      BY <3>2
    <3> DEFINE n == notes[i].name
               R == notes[i].rules
    <3>4. n \in Names /\ R \in All
      BY <1>3 DEF Note
    <3>5. /\ tracked' = CASE c.ref = "none" -> [tracked EXCEPT ![n] = R]
                          [] c.ref = "live" -> [tracked EXCEPT ![n] = @ \cup R]
                          [] c.ref = "orphan" -> tracked
          /\ alerted' = IF c.ref = "orphan" THEN alerted ELSE [alerted EXCEPT ![n] = @ \cup R]
          /\ sends' = IF c.ref = "none" THEN Orphaned(sends \ {c}, {n}) ELSE sends \ {c}
      BY <2>2, <3>3 DEF Delivered
    <3> HIDE DEF n, R
    <3>6. c.ref \in {"none", "live", "orphan"}
      BY <1>2 DEF SendType, Refs
    <3>7. c.ref = "live" => tracked[n] \in All
      BY <1>2, <1>4, <3>4 DEF n
    <3>8. CASE c.ref = "none"
      <4>1. /\ sends' = Orphaned(sends \ {c}, {n}) /\ tracked' = [tracked EXCEPT ![n] = R]
            /\ alerted' = [alerted EXCEPT ![n] = @ \cup R]
        BY <3>5, <3>8
      <4>2. /\ sends' \in SUBSET SendType /\ Separate(sends')
            /\ \A j : Carried(sends', j) <=> Carried(sends \ {c}, j)
            /\ \A x \in sends' : \E d \in sends \ {c} :
                 /\ x.ids = d.ids
                 /\ x.ref = "live" =>
                      d.ref = "live" /\ \A j \in d.ids : notes[j].name \notin {n}
        BY <4>1, <1>3, OrphanedFacts
      <4>3. tracked' \in [Names -> All \cup {Untracked}] /\ alerted' \in [Names -> All]
        BY <4>1, <1>2, <3>4
      <4>4. TrackedWasAlerted'
        BY <4>1, <1>2, <3>4 DEF TrackedWasAlerted
      <4>5. \A m : m # n => tracked'[m] = tracked[m]
        BY <4>1, <1>2
      <4>6. \A x \in sends' : \E d \in sends :
              /\ x.ids = d.ids
              /\ x.ref = "live" =>
                   d.ref = "live" /\ \A j \in d.ids : tracked'[notes[j].name] # Untracked
        BY <4>2, <4>5, <1>4
      <4> QED
        BY <4>2, <4>3, <4>4, <4>6
    <3>9. CASE c.ref = "live"
      <4>1. /\ sends' = sends \ {c} /\ tracked' = [tracked EXCEPT ![n] = @ \cup R]
            /\ alerted' = [alerted EXCEPT ![n] = @ \cup R]
        BY <3>5, <3>9
      <4>2. tracked' \in [Names -> All \cup {Untracked}] /\ alerted' \in [Names -> All]
        BY <4>1, <1>2, <3>4, <3>7, <3>9
      <4>3. TrackedWasAlerted'
        BY <4>1, <1>2, <3>4, <3>7, <3>9 DEF TrackedWasAlerted
      <4>4. \A m : tracked[m] # Untracked => tracked'[m] # Untracked
        BY <4>1, <1>2, <3>4, <3>7, <3>9
      <4> QED
        BY <4>1, <4>2, <4>3, <4>4, <1>3, <1>4
    <3>10. CASE c.ref = "orphan"
      <4>1. sends' = sends \ {c} /\ tracked' = tracked /\ alerted' = alerted
        BY <3>5, <3>10
      <4> QED
        BY <4>1, <1>2, <1>3, <1>4 DEF TrackedWasAlerted
    <3> QED
      BY <3>6, <3>8, <3>9, <3>10
  <2> QED
    BY <2>1, <2>2
<1>6. /\ groups' \in [Scopes -> SUBSET Ids] /\ phase' \in {"running", "exiting"}
      /\ \A s \in Scopes : groups'[s] \subseteq groups[s]
      /\ "sent" \in Outcomes \ {"open"}
  BY <1>1, <1>2 DEF Outcomes
<1>7. /\ \A i \in c.ids : Carried(sends, i) \/ Buffered(groups, i)
      /\ \A i : Carried(sends', i) <=> Carried(sends, i) /\ i \notin c.ids
      /\ \A i : Buffered(groups', i) <=> Buffered(groups, i) /\ i \notin c.ids
  BY <1>1, <1>3, <1>5
<1>8. \/ c.ids = {} /\ UNCHANGED notes
      \/ notes' = Settled(c.ids, "sent")
  BY <1>1
<1> QED
  BY ONLY AlertsInv, <1>5, <1>6, <1>7, <1>8, EndsKept

-----------------------------------------------------------------------------

\* Without its entries the map suppresses nothing, and every live reference dangles.
LEMMA Forgets ==
  ASSUME AlertsInv, ForgetAll
  PROVE  /\ tracked' \in [Names -> (SUBSET (Rules \cup FollowUps)) \cup {Untracked}]
         /\ alerted' \in [Names -> SUBSET (Rules \cup FollowUps)]
         /\ TrackedWasAlerted'
         /\ sends' \in SUBSET SendType /\ Separate(sends')
         /\ \A i : Carried(sends', i) <=> Carried(sends, i)
         /\ \A x \in sends' : \E c \in sends : x.ids = c.ids /\ x.ref # "live"
<1>1. /\ tracked' = [n \in Names |-> Untracked] /\ alerted' = [n \in Names |-> {}]
      /\ sends' = Orphaned(sends, Names)
  BY DEF ForgetAll
<1>2. sends \in SUBSET SendType /\ Separate(sends)
  BY DEF AlertsInv, AlertsTypeOK, Apart, SendType
<1>3. /\ sends' \in SUBSET SendType /\ Separate(sends')
      /\ \A i : Carried(sends', i) <=> Carried(sends, i)
      /\ \A x \in sends' : \E c \in sends :
           /\ x.ids = c.ids
           /\ x.ref = "live" => c.ref = "live" /\ \A i \in c.ids : notes[i].name \notin Names
  BY <1>1, <1>2, OrphanedFacts
<1>4. \A c \in sends : \E i \in c.ids : notes[i].name \in Names
  <2>1. \A c \in sends : \E i \in c.ids : i \in DOMAIN notes
    BY DEF AlertsInv, SendsMade
  <2>2. \A i \in DOMAIN notes : notes[i] \in Note
    BY DEF AlertsInv, AlertsTypeOK
  <2> QED
    BY <2>1, <2>2 DEF Note
<1>5. \A x \in sends' : \E c \in sends : x.ids = c.ids /\ x.ref # "live"
  BY <1>3, <1>4
<1>6. TrackedWasAlerted'
  BY <1>1 DEF TrackedWasAlerted
<1> QED
  BY <1>1, <1>3, <1>5, <1>6

\* Pruning ends no notification.
LEMMA PruneKeeps ==
  ASSUME AlertsInv, Prune
  PROVE  AlertsInv' /\ OutcomesFinal
<1>1. ForgetAll /\ UNCHANGED <<groups, notes, phase>>
  BY DEF Prune
<1> DEFINE I == {}
<1>2. /\ \A i : i \notin I
      /\ groups' \in [Scopes -> SUBSET Ids] /\ \A s \in Scopes : groups'[s] \subseteq groups[s]
      /\ phase' \in {"running", "exiting"} /\ "shed" \in Outcomes \ {"open"}
      /\ \/ I = {} /\ UNCHANGED notes
         \/ notes' = Settled(I, "shed")
  BY <1>1 DEF AlertsInv, AlertsTypeOK, Outcomes
<1> HIDE DEF I
<1>3. /\ \A i \in I : Carried(sends, i) \/ Buffered(groups, i)
      /\ \A i : Carried(sends', i) <=> Carried(sends, i) /\ i \notin I
      /\ \A i : Buffered(groups', i) <=> Buffered(groups, i) /\ i \notin I
      /\ \A x \in sends' : \E c \in sends :
           /\ x.ids = c.ids
           /\ x.ref = "live" =>
                c.ref = "live" /\ \A i \in c.ids : tracked'[notes[i].name] # Untracked
  BY <1>1, <1>2, Forgets
<1>4. /\ tracked' \in [Names -> (SUBSET (Rules \cup FollowUps)) \cup {Untracked}]
      /\ alerted' \in [Names -> SUBSET (Rules \cup FollowUps)]
      /\ TrackedWasAlerted' /\ sends' \in SUBSET SendType /\ Separate(sends')
  BY <1>1, Forgets
<1> QED
  BY ONLY AlertsInv, <1>2, <1>3, <1>4, EndsKept

\* Shed and DailyReset.
LEMMA ClearKeeps ==
  ASSUME AlertsInv, NEW outcome \in Outcomes \ {"open"}, ForgetAll, ClearGroups(outcome),
         UNCHANGED phase
  PROVE  AlertsInv' /\ OutcomesFinal
<1> DEFINE I == UNION {groups[s] : s \in Scopes}
<1>1. groups' = [s \in Scopes |-> {}] /\ notes' = Settled(I, outcome)
  BY DEF ClearGroups
<1>2. \A i : i \in I <=> Buffered(groups, i)
  BY DEF Buffered
<1> HIDE DEF I
<1>3. /\ groups' \in [Scopes -> SUBSET Ids] /\ \A s \in Scopes : groups'[s] \subseteq groups[s]
      /\ phase' \in {"running", "exiting"} /\ \A i : ~Buffered(groups', i)
      /\ \/ I = {} /\ UNCHANGED notes
         \/ notes' = Settled(I, outcome)
  BY <1>1 DEF AlertsInv, AlertsTypeOK, Buffered
<1>4. \A i : ~(Carried(sends, i) /\ Buffered(groups, i))
  BY DEF AlertsInv, Apart
<1>5. /\ \A i \in I : Carried(sends, i) \/ Buffered(groups, i)
      /\ \A i : Carried(sends', i) <=> Carried(sends, i) /\ i \notin I
      /\ \A i : Buffered(groups', i) <=> Buffered(groups, i) /\ i \notin I
      /\ \A x \in sends' : \E c \in sends :
           /\ x.ids = c.ids
           /\ x.ref = "live" =>
                c.ref = "live" /\ \A i \in c.ids : tracked'[notes[i].name] # Untracked
  BY <1>2, <1>3, <1>4, Forgets
<1>6. /\ tracked' \in [Names -> (SUBSET (Rules \cup FollowUps)) \cup {Untracked}]
      /\ alerted' \in [Names -> SUBSET (Rules \cup FollowUps)]
      /\ TrackedWasAlerted' /\ sends' \in SUBSET SendType /\ Separate(sends')
  BY Forgets
<1> QED
  BY ONLY AlertsInv, outcome \in Outcomes \ {"open"}, <1>3, <1>5, <1>6, EndsKept

\* The exit waits for the groups; it takes the calls nobody awaits.
LEMMA ExitKeeps ==
  ASSUME AlertsInv, Exit
  PROVE  AlertsInv' /\ OutcomesFinal
<1> DEFINE I == UNION {c.ids : c \in sends}
<1>1. /\ \A s \in Scopes : groups[s] = {}
      /\ tracked' = [n \in Names |-> Untracked] /\ alerted' = [n \in Names |-> {}]
      /\ notes' = Settled(I, "killed") /\ sends' = {} /\ phase' = "running"
      /\ UNCHANGED groups
  BY DEF Exit
<1>2. \A i : i \in I <=> Carried(sends, i)
  BY DEF Carried
<1> HIDE DEF I
<1>3. /\ groups' \in [Scopes -> SUBSET Ids] /\ \A s \in Scopes : groups'[s] \subseteq groups[s]
      /\ phase' \in {"running", "exiting"} /\ "killed" \in Outcomes \ {"open"}
      /\ \A i : ~Buffered(groups, i) /\ (Buffered(groups', i) <=> Buffered(groups, i))
      /\ \/ I = {} /\ UNCHANGED notes
         \/ notes' = Settled(I, "killed")
  BY <1>1 DEF AlertsInv, AlertsTypeOK, Buffered, Outcomes
<1>4. /\ \A i \in I : Carried(sends, i) \/ Buffered(groups, i)
      /\ \A i : Carried(sends', i) <=> Carried(sends, i) /\ i \notin I
      /\ \A i : Buffered(groups', i) <=> Buffered(groups, i) /\ i \notin I
      /\ \A x \in sends' : \E c \in sends :
           /\ x.ids = c.ids
           /\ x.ref = "live" =>
                c.ref = "live" /\ \A i \in c.ids : tracked'[notes[i].name] # Untracked
  BY <1>1, <1>2, <1>3 DEF Carried
<1>5. /\ tracked' \in [Names -> (SUBSET (Rules \cup FollowUps)) \cup {Untracked}]
      /\ alerted' \in [Names -> SUBSET (Rules \cup FollowUps)]
      /\ TrackedWasAlerted' /\ sends' \in SUBSET SendType /\ Separate(sends')
  BY <1>1 DEF TrackedWasAlerted, Separate
<1> QED
  BY ONLY AlertsInv, <1>3, <1>4, <1>5, EndsKept

\* Every step.
LEMMA AlertsStepKeeps ==
  ASSUME AlertsInv, [AlertsNext]_alertVars
  PROVE  AlertsInv' /\ OutcomesFinal
<1>1. ASSUME NEW n \in Names, NEW R \in (SUBSET Rules) \ {{}}, Alert(n, R)
      PROVE  AlertsInv' /\ OutcomesFinal
  BY <1>1, AlertKeeps
<1>2. ASSUME NEW n \in Names, NEW f \in FollowUps, FollowUp(n, f)
      PROVE  AlertsInv' /\ OutcomesFinal
  BY <1>2, FollowUpKeeps
<1>3. ASSUME NEW s \in Scopes, Timer(s) \/ ExitFlush(s)
      PROVE  AlertsInv' /\ OutcomesFinal
  <2>1. PICK awaited \in BOOLEAN : Flush(s, awaited) /\ UNCHANGED phase
    BY <1>3 DEF Timer, ExitFlush
  <2> QED
    BY <2>1, FlushKeeps
<1>4. ASSUME NEW c \in sends, Delivered(c) \/ Declined(c)
      PROVE  AlertsInv' /\ OutcomesFinal
  BY <1>4, DeliveredKeeps, DeclinedKeeps
<1>5. CASE Prune
  BY <1>5, PruneKeeps
<1>6. CASE Shed \/ DailyReset
  <2>1. PICK outcome \in Outcomes \ {"open"} :
          ForgetAll /\ ClearGroups(outcome) /\ UNCHANGED phase
    BY <1>6 DEF Shed, DailyReset, Outcomes
  <2> QED
    BY <2>1, ClearKeeps
<1>7. CASE BeginExit
  <2>1. phase' = "exiting" /\ UNCHANGED <<tracked, groups, sends, notes, alerted>>
    BY <1>7 DEF BeginExit
  <2> QED
    BY <2>1 DEF AlertsInv, AlertsTypeOK, TrackedWasAlerted, GroupsFilled, SendsMade, Apart,
                Separate, Carried, Buffered, Homed, OutcomesFinal
<1>8. CASE Exit
  BY <1>8, ExitKeeps
<1>9. CASE UNCHANGED alertVars
  BY <1>9 DEF alertVars, AlertsInv, AlertsTypeOK, TrackedWasAlerted, GroupsFilled, SendsMade,
              Apart, Separate, Carried, Buffered, Homed, OutcomesFinal
<1> QED
  BY <1>1, <1>2, <1>3, <1>4, <1>5, <1>6, <1>7, <1>8, <1>9 DEF AlertsNext

\* NotificationsAccounted: whatever is in flight when the map forgets, when a group is
\* flushed or when the process exits, only what was told is suppressed, and an open
\* notification is in exactly one group or call.
THEOREM NotificationsKept ==
  AlertsSpec => []NotificationsAccounted
<1>1. AlertsInit => AlertsInv
  BY AlertsStarted
<1>2. AlertsInv /\ [AlertsNext]_alertVars => AlertsInv'
  BY AlertsStepKeeps
<1>3. AlertsInv => NotificationsAccounted
  BY PlacesCounted DEF NotificationsAccounted, AlertsInv
<1> QED
  BY <1>1, <1>2, <1>3, PTL DEF AlertsSpec

\* What became of a notification is final: nothing settled is sent, refused or dropped
\* again.
THEOREM SettledOnce ==
  AlertsSpec => [][OutcomesFinal]_alertVars
<1>1. AlertsInit => AlertsInv
  BY AlertsStarted
<1>2. AlertsInv /\ [AlertsNext]_alertVars => AlertsInv' /\ OutcomesFinal
  BY AlertsStepKeeps
<1> QED
  BY <1>1, <1>2, PTL DEF AlertsSpec

=============================================================================
