---------------------------- MODULE SelectionProofs ----------------------------
(***************************************************************************)
(* What the array loops of the monitor select, for every array and every   *)
(* batch size.  The indices of a set are ranked by how many of them lie    *)
(* below (Ranks, Places); the selections of Selection are stated in those  *)
(* ranks, and MarkedFacts concludes what an eviction promises.             *)
(***************************************************************************)
EXTENDS Selection, FiniteSetTheorems, SequenceTheorems,
        WellFoundedInduction, TLAPS

-----------------------------------------------------------------------------
(* Ranks *)

\* An interval from 1 has as many members as its upper end.
LEMMA IntervalSize ==
  ASSUME NEW n \in Nat
  PROVE  IsFiniteSet(1..n) /\ Cardinality(1..n) = n
<1> QED
  BY FS_Interval

\* The minimum principle: what a step never breaks first is never broken.
LEMMA LeastMember ==
  ASSUME NEW T \in SUBSET Nat, T # {}
  PROVE  \E m \in T : \A k \in T : m <= k
<1>1. \E m \in T : \A k \in T : <<k, m>> \notin OpToRel(<, Nat)
  BY NatLessThanWellFounded, WFMin
<1>2. \A k, m \in Nat : <<k, m>> \notin OpToRel(<, Nat) => m <= k
  BY DEF OpToRel
<1> QED
  BY <1>1, <1>2

\* A strict total order on S, given by what is below each member, and its ranks.
Ranked(S, below, rank) ==
  /\ IsFiniteSet(S)
  /\ below \in [S -> SUBSET S]
  /\ \A i \in S : i \notin below[i]
  /\ \A i, j \in S : i \in below[j] => below[i] \subseteq below[j]
  /\ \A i, j \in S : i = j \/ i \in below[j] \/ j \in below[i]
  /\ rank \in [S -> Int]
  /\ \A i \in S : rank[i] = Cardinality(below[i]) + 1

\* The ranks are 1, 2, ... without a gap, in that order.
LEMMA Ranks ==
  ASSUME NEW S, NEW below, NEW rank, Ranked(S, below, rank)
  PROVE  /\ Cardinality(S) \in Nat
         /\ rank \in [S -> 1..Cardinality(S)]
         /\ \A i, j \in S : rank[i] < rank[j] <=> i \in below[j]
         /\ \A i, j \in S : rank[i] = rank[j] => i = j
         /\ \A k \in 1..Cardinality(S) : \E i \in S : rank[i] = k
<1> USE DEF Ranked
<1> DEFINE n == Cardinality(S)
<1>1. \A i \in S : rank[i] = Cardinality(below[i]) + 1
  OBVIOUS
<1>2. n \in Nat
  BY FS_CardinalityType
<1> HIDE DEF n
<1>3. ASSUME NEW i \in S
      PROVE  /\ IsFiniteSet(below[i]) /\ Cardinality(below[i]) \in Nat
             /\ Cardinality(below[i]) < n
  <2>1. below[i] \in SUBSET S /\ below[i] # S
    OBVIOUS
  <2>2. /\ IsFiniteSet(below[i]) /\ Cardinality(below[i]) <= n
        /\ Cardinality(below[i]) # n
    BY <2>1, FS_Subset DEF n
  <2>3. Cardinality(below[i]) \in Nat
    BY <2>2, FS_CardinalityType
  <2> QED
    BY <1>2, <2>2, <2>3
<1>4. ASSUME NEW i \in S, NEW j \in S, i \in below[j]
      PROVE  Cardinality(below[i]) < Cardinality(below[j])
  <2>1. /\ below[i] \in SUBSET below[j] /\ below[i] # below[j]
        /\ IsFiniteSet(below[j])
    BY <1>3, <1>4
  <2>2. /\ Cardinality(below[i]) <= Cardinality(below[j])
        /\ Cardinality(below[i]) # Cardinality(below[j])
    BY <2>1, FS_Subset
  <2> QED
    BY <1>3, <2>2
<1>5. rank \in [S -> 1..n]
  <2>1. \A i \in S : Cardinality(below[i]) + 1 \in 1..n
    BY <1>2, <1>3
  <2> QED
    BY <2>1
<1>6. ASSUME NEW i \in S, NEW j \in S PROVE rank[i] < rank[j] <=> i \in below[j]
  <2>1. rank[i] \in Nat /\ rank[j] \in Nat
    BY <1>1, <1>3
  <2>2. i \in below[j] => rank[i] < rank[j]
    BY <1>1, <1>3, <1>4
  <2>3. j \in below[i] => rank[j] < rank[i]
    BY <1>1, <1>3, <1>4
  <2>4. i = j \/ i \in below[j] \/ j \in below[i]
    OBVIOUS
  <2> QED
    BY <2>1, <2>2, <2>3, <2>4
<1>7. ASSUME NEW i \in S, NEW j \in S, rank[i] = rank[j] PROVE i = j
  <2>1. rank[i] \in Nat /\ ~(rank[i] < rank[j]) /\ ~(rank[j] < rank[i])
    BY <1>5, <1>7
  <2> QED
    BY <1>6, <2>1
<1>8. ASSUME NEW k \in 1..n, \A i \in S : rank[i] # k PROVE FALSE
  <2> DEFINE T == (1..n) \ {k}
  <2>1. IsFiniteSet(1..n) /\ Cardinality(1..n) = n
    BY <1>2, FS_Interval
  <2>2. IsFiniteSet(T) /\ Cardinality(T) = n - 1
    BY <2>1, FS_RemoveElement
  <2>3. rank \in [S -> T]
    BY <1>5, <1>8
  <2> HIDE DEF T
  <2>4. Cardinality(T) < Cardinality(S)
    BY <1>2, <2>2 DEF n
  <2>5. \E i, j \in S : i # j /\ rank[i] = rank[j]
    BY <2>2, <2>3, <2>4, FS_PigeonHole
  <2> QED
    BY <1>7, <2>5
<1> QED
  BY <1>2, <1>5, <1>6, <1>7, <1>8 DEF n

\* So are those of a set of indices, in their own order.
LEMMA Places ==
  ASSUME NEW m \in Nat, NEW S \in SUBSET (1..m)
  PROVE  /\ IsFiniteSet(S) /\ Cardinality(S) \in Nat
         /\ \A j \in S : Place(S, j) \in 1..Cardinality(S)
         /\ \A i, j \in S : Place(S, i) < Place(S, j) <=> i < j
         /\ \A i, j \in S : Place(S, i) = Place(S, j) => i = j
         /\ \A k \in 1..Cardinality(S) : \E j \in S : Place(S, j) = k
<1> DEFINE Below(j) == {i \in S : i < j}
<1>1. IsFiniteSet(S)
  <2>1. IsFiniteSet(1..m)
    BY FS_Interval
  <2> QED
    BY <2>1, FS_Subset
<1>2. ASSUME NEW j \in S PROVE Below(j) \in SUBSET S /\ \A i \in S : i \in Below(j) <=> i < j
  OBVIOUS
<1>3. ASSUME NEW j \in S PROVE {i \in S : i <= j} = Below(j) \cup {j}
  <2>1. \A i \in S : i <= j <=> i < j \/ i = j
    OBVIOUS
  <2> QED
    BY <2>1
<1> HIDE DEF Below
<1> DEFINE below == [j \in S |-> Below(j)]
<1>4. below \in [S -> SUBSET S] /\ \A i, j \in S : i \in below[j] <=> i < j
  BY <1>2
<1>5. \A j \in S : {i \in S : i <= j} = below[j] \cup {j}
  BY <1>3
<1> HIDE DEF below
<1>6. /\ \A i \in S : i \notin below[i]
      /\ \A i, j \in S : i \in below[j] => below[i] \subseteq below[j]
      /\ \A i, j \in S : i = j \/ i \in below[j] \/ j \in below[i]
  <2>1. \A i \in S : i \in Nat
    OBVIOUS
  <2>2. \A i, j, k \in S : i < j /\ j < k => i < k
    BY <2>1
  <2>3. \A i, j \in S : i = j \/ i < j \/ j < i
    BY <2>1
  <2>4. \A i \in S : ~(i < i)
    BY <2>1
  <2>5. ASSUME NEW i \in S, NEW j \in S, i \in below[j] PROVE below[i] \subseteq below[j]
    <3>1. \A k \in below[i] : k \in S /\ k \in below[j]
      BY <1>4, <2>2, <2>5
    <3> QED
      BY <3>1
  <2> QED
    BY <1>4, <2>3, <2>4, <2>5
<1>7. ASSUME NEW j \in S PROVE Place(S, j) = Cardinality(below[j]) + 1
  <2>1. IsFiniteSet(below[j]) /\ j \notin below[j]
    BY <1>1, <1>4, <1>6, FS_Subset
  <2>2. Cardinality(below[j] \cup {j}) = Cardinality(below[j]) + 1
    BY <2>1, FS_AddElement
  <2> QED
    BY <1>5, <2>2 DEF Place
<1> DEFINE rank == [j \in S |-> Place(S, j)]
<1>8. rank \in [S -> Int] /\ \A j \in S : rank[j] = Cardinality(below[j]) + 1
  <2>1. \A j \in S : IsFiniteSet(below[j])
    BY <1>1, <1>4, FS_Subset
  <2>2. \A j \in S : Cardinality(below[j]) \in Nat
    BY <2>1, FS_CardinalityType
  <2> QED
    BY <1>7, <2>2
<1>9. \A j \in S : Place(S, j) = rank[j]
  OBVIOUS
<1> HIDE DEF rank
<1>10. /\ Cardinality(S) \in Nat
       /\ rank \in [S -> 1..Cardinality(S)]
       /\ \A i, j \in S : rank[i] < rank[j] <=> i \in below[j]
       /\ \A i, j \in S : rank[i] = rank[j] => i = j
       /\ \A k \in 1..Cardinality(S) : \E i \in S : rank[i] = k
  <2>1. Ranked(S, below, rank)
    BY <1>1, <1>4, <1>6, <1>8 DEF Ranked
  <2> QED
    BY <2>1, Ranks
<1> QED
  BY <1>1, <1>4, <1>9, <1>10

-----------------------------------------------------------------------------
(* Selections *)

\* KeepAt lists the entries at the indices of S, each once and in their order.
LEMMA KeepAtFacts ==
  ASSUME NEW T, NEW q \in Seq(T), NEW S \in SUBSET DOMAIN q
  PROVE  /\ KeepAt(q, S) \in Seq(T)
         /\ Len(KeepAt(q, S)) = Cardinality(S)
         /\ DOMAIN KeepAt(q, S) = 1..Cardinality(S)
         /\ \A j \in S : /\ Place(S, j) \in DOMAIN KeepAt(q, S)
                         /\ KeepAt(q, S)[Place(S, j)] = q[j]
         /\ \A k \in DOMAIN KeepAt(q, S) : \E j \in S : /\ Place(S, j) = k
                                                        /\ KeepAt(q, S)[k] = q[j]
<1> DEFINE n == Cardinality(S)
           At(k) == CHOOSE j \in S : Place(S, j) = k
<1>1. Len(q) \in Nat /\ DOMAIN q = 1..Len(q) /\ S \in SUBSET (1..Len(q))
  OBVIOUS
<1>2. /\ n \in Nat
      /\ \A j \in S : Place(S, j) \in 1..n
      /\ \A i, j \in S : Place(S, i) = Place(S, j) => i = j
      /\ \A k \in 1..n : \E j \in S : Place(S, j) = k
  BY <1>1, Places
<1>3. ASSUME NEW k \in 1..n PROVE At(k) \in S /\ Place(S, At(k)) = k
  BY <1>2
<1>4. KeepAt(q, S) = [k \in 1..n |-> q[At(k)]]
  BY DEF KeepAt
<1> HIDE DEF n, At
<1>5. \A k \in 1..n : q[At(k)] \in T
  BY <1>1, <1>3
<1>6. KeepAt(q, S) \in Seq(T) /\ Len(KeepAt(q, S)) = n /\ DOMAIN KeepAt(q, S) = 1..n
  BY <1>2, <1>4, <1>5
<1>7. ASSUME NEW j \in S PROVE KeepAt(q, S)[Place(S, j)] = q[j]
  <2>1. Place(S, j) \in 1..n /\ At(Place(S, j)) = j
    BY <1>2, <1>3
  <2> QED
    BY <1>4, <2>1
<1>8. \A k \in 1..n : KeepAt(q, S)[k] = q[At(k)]
  BY <1>4
<1> QED
  BY <1>2, <1>3, <1>6, <1>7, <1>8 DEF n

\* FirstOf(S, n) is n members of S (or all) below the others.
LEMMA FirstOfFacts ==
  ASSUME NEW m \in Nat, NEW S \in SUBSET (1..m), NEW n \in Int
  PROVE  /\ FirstOf(S, n) \in SUBSET S
         /\ \A i \in FirstOf(S, n), j \in S \ FirstOf(S, n) : i < j
         /\ n \in Nat => Cardinality(FirstOf(S, n)) = Smaller(n, Cardinality(S))
<1> DEFINE c == Cardinality(S)
           F == FirstOf(S, n)
<1>1. /\ c \in Nat /\ IsFiniteSet(S)
      /\ \A j \in S : Place(S, j) \in 1..c
      /\ \A i, j \in S : Place(S, i) < Place(S, j) <=> i < j
      /\ \A i, j \in S : Place(S, i) = Place(S, j) => i = j
      /\ \A k \in 1..c : \E j \in S : Place(S, j) = k
  BY Places
<1>2. F \in SUBSET S /\ \A j \in S : j \in F <=> Place(S, j) <= n
  BY DEF FirstOf
<1> HIDE DEF c, F
<1>3. ASSUME NEW i \in F, NEW j \in S \ F PROVE i < j
  <2>1. i \in S /\ Place(S, i) \in Nat /\ Place(S, j) \in Nat
    BY <1>1, <1>2
  <2>2. Place(S, i) <= n /\ ~(Place(S, j) <= n)
    BY <1>2
  <2> QED
    BY <1>1, <2>1, <2>2
<1>4. ASSUME n \in Nat PROVE Cardinality(F) = Smaller(n, c)
  <2> DEFINE l == Smaller(n, c)
             f == [j \in F |-> Place(S, j)]
             At(k) == CHOOSE j \in S : Place(S, j) = k
             g == [k \in 1..l |-> At(k)]
  <2>1. l \in Nat /\ l <= n /\ l <= c
    BY <1>1, <1>4 DEF Smaller
  <2>2. \A k \in 1..c : k <= n => k \in 1..l
    BY <1>1, <1>4 DEF Smaller
  <2>3. IsFiniteSet(F) /\ Cardinality(F) \in Nat
    BY <1>1, <1>2, FS_Subset, FS_CardinalityType
  <2>4. f \in [F -> 1..l]
    BY <1>1, <1>2, <2>2
  <2>5. \A i, j \in F : f[i] = f[j] => i = j
    BY <1>1, <1>2
  <2>6. ASSUME NEW k \in 1..l PROVE Place(S, At(k)) = k /\ At(k) \in F
    <3>1. k \in 1..c /\ k <= n
      BY <1>1, <1>4, <2>1
    <3>2. At(k) \in S /\ Place(S, At(k)) = k
      BY <1>1, <3>1
    <3> QED
      BY <1>2, <3>1, <3>2
  <2> HIDE DEF f, l, At
  <2>7. g \in [1..l -> F] /\ \A j, k \in 1..l : g[j] = g[k] => j = k
    BY <2>6
  <2> HIDE DEF g
  <2> DEFINE I == 1..l
  <2>8. IsFiniteSet(I) /\ Cardinality(I) = l /\ f \in [F -> I] /\ g \in [I -> F]
    BY <2>1, <2>4, <2>7, FS_Interval
  <2>9. \A j, k \in I : g[j] = g[k] => j = k
    BY <2>7
  <2> HIDE DEF I
  <2>10. ~(l < Cardinality(F))
    BY <2>3, <2>5, <2>8, FS_PigeonHole
  <2>11. ~(Cardinality(F) < l)
    BY <2>3, <2>8, <2>9, FS_PigeonHole
  <2> QED
    BY <2>1, <2>3, <2>10, <2>11 DEF l
<1> QED
  BY <1>2, <1>3, <1>4 DEF c, F

\* Marked(q, n, Kept) is n entries of q (or all): no entry of Kept before every other,
\* and the older before the newer among those of Kept and among the others.
THEOREM MarkedFacts ==
  ASSUME NEW T, NEW q \in Seq(T), NEW n \in Nat, NEW Kept
  PROVE  /\ Marked(q, n, Kept) \in SUBSET DOMAIN q
         /\ EvictsLooseThenOldest(q, n, Kept)
<1> DEFINE m == Len(q)
           L == {k \in DOMAIN q : q[k] \notin Kept}
           loose == FirstOf(L, n)
           rest == FirstOf(DOMAIN q \ loose, n - Cardinality(loose))
<1>1. m \in Nat /\ DOMAIN q = 1..m /\ L \in SUBSET (1..m)
  OBVIOUS
<1>2. \A k \in DOMAIN q : k \in L <=> q[k] \notin Kept
  OBVIOUS
<1>3. Marked(q, n, Kept) = loose \cup rest
  BY DEF Marked
<1>4. n \in Int /\ loose = FirstOf(L, n)
  OBVIOUS
<1> HIDE DEF L, m, loose
<1>5. /\ loose \in SUBSET L
      /\ \A i \in loose, j \in L \ loose : i < j
      /\ Cardinality(loose) = Smaller(n, Cardinality(L))
  BY <1>1, <1>4, FirstOfFacts
<1>6. /\ IsFiniteSet(DOMAIN q) /\ Cardinality(DOMAIN q) = m
      /\ IsFiniteSet(L) /\ IsFiniteSet(loose)
      /\ Cardinality(L) \in Nat /\ Cardinality(loose) \in Nat
  <2>1. IsFiniteSet(DOMAIN q) /\ Cardinality(DOMAIN q) = m
    BY <1>1, FS_Interval
  <2>2. IsFiniteSet(L) /\ IsFiniteSet(loose)
    BY <1>1, <1>5, <2>1, FS_Subset
  <2> QED
    BY <2>1, <2>2, FS_CardinalityType
<1> DEFINE others == DOMAIN q \ loose
           left == n - Cardinality(loose)
<1>7. IsFiniteSet(others) /\ Cardinality(others) = m - Cardinality(loose)
  <2>1. DOMAIN q \cap loose = loose
    BY <1>1, <1>5
  <2> QED
    BY <1>6, <2>1, FS_Difference
<1>8. left \in Nat /\ others \in SUBSET (1..m)
  BY <1>1, <1>5, <1>6 DEF Smaller
<1>9. rest = FirstOf(others, left) /\ left \in Int
  BY <1>8
<1> HIDE DEF others, left, rest
<1>10. /\ rest \in SUBSET others
       /\ \A i \in rest, j \in others \ rest : i < j
       /\ Cardinality(rest) = Smaller(left, Cardinality(others))
  BY <1>1, <1>8, <1>9, FirstOfFacts
<1>11. loose \cap rest = {}
  BY <1>10 DEF others
<1>12. IsFiniteSet(rest) /\ Cardinality(rest) \in Nat
  BY <1>7, <1>10, FS_Subset, FS_CardinalityType
<1>13. Cardinality(loose \cup rest) = Smaller(n, m)
  <2>1. Cardinality(loose \cup rest) = Cardinality(loose) + Cardinality(rest)
    <3>1. Cardinality(loose \cup rest)
            = Cardinality(loose) + Cardinality(rest) - Cardinality(loose \cap rest)
      BY <1>6, <1>12, FS_Union
    <3>2. Cardinality(loose \cap rest) = 0
      BY <1>11, FS_EmptySet
    <3> QED
      BY <1>6, <1>12, <3>1, <3>2
  <2>2. ASSUME NEW l \in Nat PROVE l + Smaller(n - l, m - l) = Smaller(n, m)
    BY <1>1 DEF Smaller
  <2> QED
    BY <1>6, <1>7, <1>10, <2>1, <2>2 DEF left
<1>14. ASSUME NEW i \in loose \cup rest, NEW j \in DOMAIN q \ (loose \cup rest)
       PROVE  (i \in L /\ j \notin L) \/ ((i \in L <=> j \in L) /\ i < j)
  <2>1. j \in others \ rest
    BY <1>14 DEF others
  <2>2. CASE i \in loose
    BY <1>5, <1>14, <2>2
  <2>3. CASE i \in rest
    <3>1. i < j
      BY <1>10, <2>1, <2>3
    <3>2. left # 0
      <4>1. Cardinality(rest) # 0
        BY <1>12, <2>3, FS_EmptySet
      <4>2. Cardinality(others) \in Nat
        BY <1>7, FS_CardinalityType
      <4>3. \A c \in Nat : Smaller(0, c) = 0
        BY DEF Smaller
      <4> QED
        BY <1>10, <4>1, <4>2, <4>3
    <3>3. loose = L
      BY <1>5, <1>6, <3>2, FS_Subset DEF left, Smaller
    <3>4. i \notin L /\ j \notin L
      BY <1>10, <1>14, <2>3, <3>3 DEF others
    <3> QED
      BY <3>1, <3>4
  <2> QED
    BY <1>14, <2>2, <2>3
<1>15. loose \cup rest \in SUBSET DOMAIN q
  BY <1>1, <1>5, <1>10 DEF others
<1> QED
  BY <1>2, <1>3, <1>13, <1>14, <1>15 DEF EvictsLooseThenOldest, m

-----------------------------------------------------------------------------
(* Sequences as sets of entries *)

\* The entries of a sequence are the values at its indices.
LEMMA RangeFacts ==
  ASSUME NEW T, NEW s \in Seq(T)
  PROVE  /\ Range(s) \in SUBSET T
         /\ Len(s) \in Nat /\ DOMAIN s = 1..Len(s)
         /\ \A x : x \in Range(s) <=> \E k \in DOMAIN s : s[k] = x
<1>1. \A x : x \in Range(s) <=> \E k \in DOMAIN s : s[k] = x
  BY DEF Range
<1>2. Len(s) \in Nat /\ DOMAIN s = 1..Len(s) /\ \A k \in DOMAIN s : s[k] \in T
  OBVIOUS
<1>3. ASSUME NEW x \in Range(s) PROVE x \in T
  <2>1. PICK k \in DOMAIN s : s[k] = x
    BY <1>1
  <2> QED
    BY <1>2, <2>1
<1> QED
  BY <1>1, <1>2, <1>3

\* An append adds one entry, ...
LEMMA RangeAppend ==
  ASSUME NEW T, NEW s \in Seq(T), NEW x \in T
  PROVE  /\ Append(s, x) \in Seq(T)
         /\ Len(Append(s, x)) = Len(s) + 1
         /\ Range(Append(s, x)) = Range(s) \cup {x}
<1> DEFINE t == Append(s, x)
<1>1. /\ t \in Seq(T) /\ Len(t) = Len(s) + 1 /\ Len(s) \in Nat
      /\ \A k \in 1..Len(s) : t[k] = s[k]
      /\ t[Len(s) + 1] = x
  OBVIOUS
<1> HIDE DEF t
<1>2. ASSUME NEW y PROVE y \in Range(t) <=> y \in Range(s) \/ y = x
  <2>1. y \in Range(s) => y \in Range(t)
    BY <1>1 DEF Range
  <2>2. x \in Range(t)
    BY <1>1 DEF Range
  <2>3. y \in Range(t) => y \in Range(s) \/ y = x
    BY <1>1 DEF Range
  <2> QED
    BY <2>1, <2>2, <2>3
<1> QED
  BY <1>1, <1>2 DEF t

\* ... a concatenation those of both, ...
LEMMA RangeConcat ==
  ASSUME NEW T, NEW s \in Seq(T), NEW t \in Seq(T)
  PROVE  /\ s \o t \in Seq(T)
         /\ Len(s \o t) = Len(s) + Len(t)
         /\ Range(s \o t) = Range(s) \cup Range(t)
<1> DEFINE u == s \o t
<1>1. /\ u \in Seq(T) /\ Len(u) = Len(s) + Len(t) /\ Len(s) \in Nat /\ Len(t) \in Nat
      /\ \A k \in 1..Len(s) : u[k] = s[k]
      /\ \A k \in 1..Len(t) : u[Len(s) + k] = t[k]
      /\ \A k \in 1..Len(u) : k > Len(s) => k - Len(s) \in 1..Len(t) /\ u[k] = t[k - Len(s)]
  OBVIOUS
<1> HIDE DEF u
<1>2. ASSUME NEW y \in Range(s) PROVE y \in Range(u)
  <2>1. PICK k \in 1..Len(s) : s[k] = y
    BY DEF Range
  <2>2. k \in 1..Len(u) /\ u[k] = y
    BY <1>1, <2>1
  <2> QED
    BY <1>1, <2>2 DEF Range
<1>3. ASSUME NEW y \in Range(t) PROVE y \in Range(u)
  <2>1. PICK k \in 1..Len(t) : t[k] = y
    BY DEF Range
  <2>2. Len(s) + k \in 1..Len(u) /\ u[Len(s) + k] = y
    BY <1>1, <2>1
  <2> QED
    BY <1>1, <2>2 DEF Range
<1>4. ASSUME NEW y \in Range(u) PROVE y \in Range(s) \/ y \in Range(t)
  <2>1. PICK k \in 1..Len(u) : u[k] = y
    BY <1>1, <1>4 DEF Range
  <2>2. CASE k \in 1..Len(s)
    BY <1>1, <2>1, <2>2 DEF Range
  <2>3. CASE k > Len(s)
    <3>1. k - Len(s) \in 1..Len(t) /\ t[k - Len(s)] = y
      BY <1>1, <2>1, <2>3
    <3> QED
      BY <3>1 DEF Range
  <2> QED
    BY <1>1, <2>1, <2>2, <2>3
<1> QED
  BY <1>1, <1>2, <1>3, <1>4 DEF u

\* ... and a slice has those of its indices.
LEMMA RangeSubSeq ==
  ASSUME NEW T, NEW s \in Seq(T), NEW a \in Nat \ {0}, NEW b \in 0..Len(s)
  PROVE  /\ SubSeq(s, a, b) \in Seq(T)
         /\ Len(SubSeq(s, a, b)) = IF a <= b THEN b - a + 1 ELSE 0
         /\ \A k \in a..b : s[k] \in Range(SubSeq(s, a, b))
         /\ Range(SubSeq(s, a, b)) \in SUBSET Range(s)
<1> DEFINE u == SubSeq(s, a, b)
           l == IF a <= b THEN b - a + 1 ELSE 0
<1>1. /\ u \in Seq(T) /\ Len(u) = l /\ Len(s) \in Nat /\ l \in Nat
      /\ \A k \in 1..l : u[k] = s[a + k - 1] /\ a + k - 1 \in 1..Len(s)
      /\ \A k \in a..b : k - a + 1 \in 1..l
  OBVIOUS
<1> HIDE DEF u, l
<1>2. ASSUME NEW k \in a..b PROVE s[k] \in Range(u)
  <2>1. k - a + 1 \in 1..Len(u) /\ a + (k - a + 1) - 1 = k
    BY <1>1
  <2>2. u[k - a + 1] = s[k]
    BY <1>1, <2>1
  <2> QED
    BY <1>1, <2>1, <2>2, RangeFacts
<1>3. ASSUME NEW y \in Range(u) PROVE y \in Range(s)
  <2>1. PICK k \in 1..Len(u) : u[k] = y
    BY <1>1, <1>3, RangeFacts
  <2>2. a + k - 1 \in 1..Len(s) /\ s[a + k - 1] = y
    BY <1>1, <2>1
  <2> QED
    BY <2>2, RangeFacts
<1> QED
  BY <1>1, <1>2, <1>3 DEF u, l

\* Removing an index leaves every entry but the one there.
LEMMA RangeRemoveAt ==
  ASSUME NEW T, NEW s \in Seq(T), NEW i \in DOMAIN s
  PROVE  /\ RemoveAt(s, i) \in Seq(T)
         /\ Len(RemoveAt(s, i)) = Len(s) - 1
         /\ Range(s) = Range(RemoveAt(s, i)) \cup {s[i]}
<1> DEFINE a == SubSeq(s, 1, i - 1)
           b == SubSeq(s, i + 1, Len(s))
<1>1. i \in 1..Len(s) /\ Len(s) \in Nat /\ s[i] \in Range(s)
  BY DEF Range
<1>2. RemoveAt(s, i) = a \o b
  BY DEF RemoveAt
<1>3. /\ a \in Seq(T) /\ Len(a) = i - 1 /\ Range(a) \in SUBSET Range(s)
      /\ \A k \in 1..(i - 1) : s[k] \in Range(a)
  <2>1. 1 \in Nat \ {0} /\ i - 1 \in 0..Len(s)
    BY <1>1
  <2> QED
    BY <1>1, <2>1, RangeSubSeq
<1>4. /\ b \in Seq(T) /\ Len(b) = Len(s) - i /\ Range(b) \in SUBSET Range(s)
      /\ \A k \in (i + 1)..Len(s) : s[k] \in Range(b)
  <2>1. i + 1 \in Nat \ {0} /\ Len(s) \in 0..Len(s)
    BY <1>1
  <2> QED
    BY <1>1, <2>1, RangeSubSeq
<1> HIDE DEF a, b
<1>5. /\ a \o b \in Seq(T) /\ Len(a \o b) = Len(s) - 1
      /\ Range(a \o b) = Range(a) \cup Range(b)
  BY <1>1, <1>3, <1>4, RangeConcat
<1>6. ASSUME NEW y \in Range(s) PROVE y \in Range(a) \/ y \in Range(b) \/ y = s[i]
  <2>1. PICK k \in 1..Len(s) : s[k] = y
    BY DEF Range
  <2>2. k \in 1..(i - 1) \/ k = i \/ k \in (i + 1)..Len(s)
    BY <1>1
  <2> QED
    BY <1>3, <1>4, <2>1, <2>2
<1> QED
  BY <1>1, <1>2, <1>3, <1>4, <1>5, <1>6

\* Removing the element at i closes the gap and keeps the order of the rest.
LEMMA RemoveAtFacts ==
  ASSUME NEW S, NEW q \in Seq(S), NEW i \in DOMAIN q
  PROVE  /\ RemoveAt(q, i) \in Seq(S)
         /\ Len(RemoveAt(q, i)) = Len(q) - 1
         /\ \A j \in DOMAIN RemoveAt(q, i) :
              RemoveAt(q, i)[j] = IF j < i THEN q[j] ELSE q[j + 1]
<1> DEFINE a == SubSeq(q, 1, i - 1)
           b == SubSeq(q, i + 1, Len(q))
<1>1. i \in 1..Len(q) /\ Len(q) \in Nat
  OBVIOUS
<1>2. /\ a \in Seq(S) /\ Len(a) = i - 1
      /\ \A j \in 1..(i - 1) : a[j] = q[j]
  BY <1>1
<1>3. /\ b \in Seq(S) /\ Len(b) = Len(q) - i
      /\ \A j \in 1..(Len(q) - i) : b[j] = q[i + j]
  BY <1>1
<1>4. RemoveAt(q, i) = a \o b
  BY DEF RemoveAt
<1> HIDE DEF a, b
<1>5. /\ a \o b \in Seq(S)
      /\ Len(a \o b) = Len(q) - 1
      /\ \A j \in 1..(Len(q) - 1) :
           (a \o b)[j] = IF j < i THEN q[j] ELSE q[j + 1]
  BY <1>1, <1>2, <1>3
<1>6. DOMAIN (a \o b) = 1..(Len(q) - 1)
  BY <1>1, <1>5
<1> QED
  BY <1>4, <1>5, <1>6

\* The head and the tail have all entries.
LEMMA RangeHeadTail ==
  ASSUME NEW T, NEW s \in Seq(T), s # <<>>
  PROVE  /\ Head(s) \in T /\ Tail(s) \in Seq(T)
         /\ Range(s) = {Head(s)} \cup Range(Tail(s))
<1> DEFINE t == Tail(s)
<1>1. /\ Head(s) = s[1] /\ s[1] \in T /\ t \in Seq(T) /\ Len(s) \in Nat /\ Len(s) # 0
      /\ Len(t) = Len(s) - 1 /\ \A k \in 1..Len(t) : t[k] = s[k + 1]
  OBVIOUS
<1> HIDE DEF t
<1>2. ASSUME NEW y \in Range(s) PROVE y = s[1] \/ y \in Range(t)
  <2>1. PICK k \in 1..Len(s) : s[k] = y
    BY DEF Range
  <2>2. CASE k # 1
    <3>1. k - 1 \in 1..Len(t) /\ (k - 1) + 1 = k
      BY <1>1, <2>2
    <3>2. t[k - 1] = y
      BY <1>1, <2>1, <3>1
    <3> QED
      BY <1>1, <3>1, <3>2 DEF Range
  <2> QED
    BY <2>1, <2>2
<1>3. ASSUME NEW y \in Range(t) PROVE y \in Range(s)
  <2>1. PICK k \in 1..Len(t) : t[k] = y
    BY <1>1, <1>3 DEF Range
  <2>2. k + 1 \in 1..Len(s) /\ s[k + 1] = y
    BY <1>1, <2>1
  <2> QED
    BY <2>2 DEF Range
<1>4. s[1] \in Range(s)
  BY <1>1 DEF Range
<1> QED
  BY <1>1, <1>2, <1>3, <1>4 DEF t

\* A selection has the entries at the indices selected.
LEMMA RangeKeepAt ==
  ASSUME NEW T, NEW q \in Seq(T), NEW S \in SUBSET DOMAIN q
  PROVE  /\ KeepAt(q, S) \in Seq(T)
         /\ Len(KeepAt(q, S)) = Cardinality(S)
         /\ \A x : x \in Range(KeepAt(q, S)) <=> \E k \in S : q[k] = x
<1> DEFINE u == KeepAt(q, S)
<1>1. /\ u \in Seq(T) /\ Len(u) = Cardinality(S)
      /\ \A j \in S : Place(S, j) \in DOMAIN u /\ u[Place(S, j)] = q[j]
      /\ \A k \in DOMAIN u : \E j \in S : u[k] = q[j]
  BY KeepAtFacts
<1> HIDE DEF u
<1> QED
  BY <1>1 DEF u, Range

-----------------------------------------------------------------------------
(* Recursion *)

\* The course of a loop of N turns over states in T.
Turns(step, N, T) == step \in [1..N -> [T -> T]]

Course(f, T, base, N, step) ==
  /\ f \in [0..N -> T] /\ f[0] = base
  /\ \A n \in 1..N : f[n] = step[n][f[n - 1]]

\* Every loop has one: were there a first number of turns without one, the course up to the
\* turn before could be extended.
LEMMA Courses ==
  ASSUME NEW T, NEW base \in T, NEW N \in Nat, NEW step, Turns(step, N, T)
  PROVE  \E f : Course(f, T, base, N, step)
<1> DEFINE Without == {m \in 0..N : \A f : ~Course(f, T, base, m, step)}
<1>1. SUFFICES ASSUME Without # {} PROVE FALSE
  <2>1. N \in 0..N
    OBVIOUS
  <2>2. N \notin Without => \E f : Course(f, T, base, N, step)
    BY <2>1
  <2> QED
    BY <2>2
<1>2. PICK m \in Without : \A k \in Without : m <= k
  <2>1. Without \in SUBSET Nat
    OBVIOUS
  <2> HIDE DEF Without
  <2> QED
    BY <1>1, <2>1, LeastMember
<1>3. m \in 0..N /\ \A f : ~Course(f, T, base, m, step)
  BY <1>2
<1>4. CASE m = 0
  <2>1. Course([n \in 0..0 |-> base], T, base, 0, step)
    BY DEF Course
  <2> QED
    BY <1>3, <1>4, <2>1
<1>5. ASSUME m # 0 PROVE \E f : Course(f, T, base, m - 1, step)
  <2>1. m - 1 \in 0..N /\ ~(m <= m - 1)
    BY <1>3, <1>5
  <2>2. m - 1 \notin Without
    BY <1>2, <2>1
  <2> QED
    BY <2>1, <2>2
<1>6. CASE m # 0
  <2>1. PICK f : Course(f, T, base, m - 1, step)
    BY <1>5, <1>6
  <2> DEFINE g == [n \in 0..m |-> IF n = m THEN step[m][f[m - 1]] ELSE f[n]]
  <2>2. m \in 1..N /\ m - 1 \in 0..(m - 1) /\ 0 \in 0..(m - 1)
    BY <1>3, <1>6
  <2>3. step[m][f[m - 1]] \in T
    BY <2>1, <2>2 DEF Course, Turns
  <2>4. /\ \A n \in 0..(m - 1) : g[n] = f[n] /\ n \in 0..m
        /\ g[m] = step[m][f[m - 1]]
        /\ \A n \in 0..m : n # m => n \in 0..(m - 1)
        /\ \A n \in 1..m : n - 1 \in 0..(m - 1) /\ (n # m => n \in 1..(m - 1))
    BY <2>2
  <2>5. g \in [0..m -> T]
    BY <2>1, <2>3, <2>4 DEF Course
  <2> HIDE DEF g
  <2>6. ASSUME NEW n \in 1..m PROVE g[n] = step[n][g[n - 1]]
    <3>1. CASE n = m
      BY <2>4, <3>1
    <3>2. CASE n # m
      BY <2>1, <2>4, <3>2 DEF Course
    <3> QED
      BY <3>1, <3>2
  <2>7. Course(g, T, base, m, step)
    BY <2>1, <2>2, <2>4, <2>5, <2>6 DEF Course
  <2> QED
    BY <1>3, <2>7
<1> QED
  BY <1>4, <1>6

-----------------------------------------------------------------------------
(* Selections as filters *)

\* A selection is the only sequence that has each selected entry at the place of its index.
LEMMA KeepAtIs ==
  ASSUME NEW T, NEW q \in Seq(T), NEW S \in SUBSET DOMAIN q, NEW u \in Seq(T),
         Len(u) = Cardinality(S), \A j \in S : u[Place(S, j)] = q[j]
  PROVE  u = KeepAt(q, S)
<1> DEFINE w == KeepAt(q, S)
<1>1. /\ w \in Seq(T) /\ Len(w) = Cardinality(S) /\ DOMAIN w = 1..Len(w)
      /\ \A k \in DOMAIN w : \E j \in S : Place(S, j) = k /\ w[k] = q[j]
  BY KeepAtFacts
<1> HIDE DEF w
<1>2. \A k \in 1..Len(w) : u[k] = w[k]
  BY <1>1
<1> QED
  BY <1>1, <1>2 DEF w

\* An index above the selected ones adds its entry at the end.
LEMMA KeepAtAppend ==
  ASSUME NEW T, NEW q \in Seq(T), NEW S \in SUBSET DOMAIN q, NEW m \in DOMAIN q,
         \A j \in S : j < m
  PROVE  KeepAt(q, S \cup {m}) = Append(KeepAt(q, S), q[m])
<1> DEFINE R == S \cup {m}
           w == KeepAt(q, S)
           u == Append(w, q[m])
           n == Cardinality(S)
<1>1. DOMAIN q = 1..Len(q) /\ Len(q) \in Nat /\ q[m] \in T /\ m \in 1..Len(q)
  OBVIOUS
<1>2. /\ w \in Seq(T) /\ Len(w) = n
      /\ \A j \in S : Place(S, j) \in 1..n /\ w[Place(S, j)] = q[j]
  BY KeepAtFacts
<1>3. IsFiniteSet(S) /\ n \in Nat
  BY <1>1, Places
<1>4. Cardinality(R) = n + 1
  <2>1. m \notin S
    BY <1>1
  <2> QED
    BY <1>3, <2>1, FS_AddElement
<1>5. ASSUME NEW j \in S PROVE Place(R, j) = Place(S, j)
  <2>1. {i \in R : i <= j} = {i \in S : i <= j}
    BY <1>1
  <2> QED
    BY <2>1 DEF Place
<1>6. Place(R, m) = n + 1
  <2>1. {i \in R : i <= m} = R
    BY <1>1
  <2> QED
    BY <1>4, <2>1 DEF Place
<1> HIDE DEF w, n
<1>7. /\ u \in Seq(T) /\ Len(u) = n + 1 /\ u[n + 1] = q[m]
      /\ \A k \in 1..n : u[k] = w[k]
  BY <1>1, <1>2
<1> HIDE DEF u
<1>8. \A j \in R : u[Place(R, j)] = q[j]
  BY <1>2, <1>5, <1>6, <1>7
<1>9. R \in SUBSET DOMAIN q
  OBVIOUS
<1> HIDE DEF R
<1>10. u = KeepAt(q, R)
  BY <1>4, <1>7, <1>8, <1>9, KeepAtIs
<1> QED
  BY <1>10 DEF u, w, R

\* Nothing is selected at no index.
LEMMA KeepAtNone ==
  ASSUME NEW T, NEW q \in Seq(T)
  PROVE  KeepAt(q, {}) = <<>>
<1>1. /\ KeepAt(q, {}) \in Seq(T) /\ Len(KeepAt(q, {})) = Cardinality({})
  BY KeepAtFacts
<1>2. Cardinality({}) = 0
  BY FS_EmptySet
<1> QED
  BY <1>1, <1>2

\* The first k selected entries.
LEMMA KeepAtFirst ==
  ASSUME NEW T, NEW q \in Seq(T), NEW S \in SUBSET DOMAIN q, NEW k \in Nat
  PROVE  KeepAt(q, FirstOf(S, k)) = SubSeq(KeepAt(q, S), 1, Smaller(k, Cardinality(S)))
<1> DEFINE F == FirstOf(S, k)
           w == KeepAt(q, S)
           n == Cardinality(S)
           l == Smaller(k, n)
           u == SubSeq(w, 1, l)
<1>1. Len(q) \in Nat /\ S \in SUBSET (1..Len(q)) /\ k \in Int
  OBVIOUS
<1>2. /\ n \in Nat
      /\ \A i, j \in S : Place(S, i) < Place(S, j) <=> i < j
      /\ \A j \in S : Place(S, j) \in 1..n
  BY <1>1, Places
<1>3. F \in SUBSET S /\ \A j \in S : j \in F <=> Place(S, j) <= k
  BY DEF FirstOf
<1>4. Cardinality(F) = l
  BY <1>1, FirstOfFacts
<1>5. /\ w \in Seq(T) /\ Len(w) = n /\ \A j \in S : w[Place(S, j)] = q[j]
  BY KeepAtFacts
<1>6. l \in 0..n /\ l <= k /\ \A i \in 1..n : i <= k => i <= l
  BY <1>2 DEF Smaller
<1> HIDE DEF F, w, n, l
<1>7. ASSUME NEW j \in F PROVE Place(F, j) = Place(S, j) /\ Place(S, j) \in 1..l
  <2>1. ASSUME NEW i \in S, i <= j PROVE i \in F
    <3>1. i \in Nat /\ j \in Nat /\ j \in S /\ ~(j < i)
      BY <1>1, <1>3, <2>1
    <3>2. ~(Place(S, j) < Place(S, i)) /\ Place(S, j) <= k
      BY <1>2, <1>3, <3>1
    <3>3. Place(S, i) \in Nat /\ Place(S, j) \in Nat
      BY <1>2, <3>1
    <3> QED
      BY <1>3, <3>2, <3>3
  <2>2. {i \in F : i <= j} = {i \in S : i <= j}
    BY <1>3, <2>1
  <2>3. Place(F, j) = Place(S, j)
    BY <2>2 DEF Place
  <2>4. Place(S, j) \in 1..n /\ Place(S, j) <= k
    BY <1>2, <1>3
  <2> QED
    BY <1>6, <2>3, <2>4
<1>8. u \in Seq(T) /\ Len(u) = l /\ \A i \in 1..l : u[i] = w[i]
  BY <1>2, <1>5, <1>6
<1> HIDE DEF u
<1>9. \A j \in F : u[Place(F, j)] = q[j]
  BY <1>3, <1>5, <1>7, <1>8
<1>10. F \in SUBSET DOMAIN q
  BY <1>3
<1>11. u = KeepAt(q, F)
  BY <1>4, <1>8, <1>9, <1>10, KeepAtIs
<1> QED
  BY <1>11 DEF u, w, l, n, F

\* A filter is the selection of the indices whose entries pass it.
LEMMA FilteredIsKeepAt ==
  ASSUME NEW T, NEW q \in Seq(T), NEW S
  PROVE  Filtered(q, S) = KeepAt(q, {k \in DOMAIN q : q[k] \in S})
<1> DEFINE N == Len(q)
           Q == Seq(T)
           One(s, k) == IF q[k] \in S THEN Append(s, q[k]) ELSE s
           step == [k \in 1..N |-> [s \in Q |-> One(s, k)]]
           Equation(f) == f = [k \in 0..N |-> IF k = 0 THEN <<>> ELSE One(f[k - 1], k)]
           h == CHOOSE f : Equation(f)
           Upto(k) == {j \in 1..k : q[j] \in S}
<1>1. N \in Nat /\ DOMAIN q = 1..N /\ \A k \in 1..N : q[k] \in T
  OBVIOUS
<1>2. <<>> \in Q
  OBVIOUS
<1>3. \A k \in 1..N : \A s \in Q : One(s, k) \in Q
  BY <1>1
<1>4. \E f : Equation(f)
  <2>1. step \in [1..N -> [Q -> Q]]
    BY <1>3
  <2>2. \A k \in 1..N : \A s \in Q : step[k][s] = One(s, k)
    OBVIOUS
  <2> HIDE DEF step, N, Q, One
  <2>3. PICK f : Course(f, Q, <<>>, N, step)
    BY <1>1, <1>2, <2>1, Courses DEF Turns
  <2>4. \A k \in 0..N : f[k] = IF k = 0 THEN <<>> ELSE One(f[k - 1], k)
    BY <1>1, <2>2, <2>3 DEF Course
  <2> QED
    BY <2>3, <2>4 DEF Course
<1>5. Equation(h)
  <2> HIDE DEF Equation
  <2> QED
    BY <1>4, Zenon
<1>6. Filtered(q, S) = h[N]
  BY Zenon DEF Filtered
<1> HIDE DEF h
<1>7. h[0] = <<>> /\ \A k \in 1..N : h[k] = One(h[k - 1], k)
  <2> HIDE DEF One
  <2>1. \A k \in 0..N : h[k] = IF k = 0 THEN <<>> ELSE One(h[k - 1], k)
    BY <1>5
  <2>2. 0 \in 0..N /\ \A k \in 1..N : k \in 0..N /\ k # 0
    BY <1>1
  <2> QED
    BY <2>1, <2>2
<1> DEFINE Bad == {k \in 0..N : h[k] # KeepAt(q, Upto(k))}
<1>8. ASSUME Bad # {} PROVE FALSE
  <2>1. PICK m \in Bad : \A k \in Bad : m <= k
    <3>1. Bad \in SUBSET Nat
      OBVIOUS
    <3> HIDE DEF Bad
    <3> QED
      BY <1>8, <3>1, LeastMember
  <2>2. m \in 0..N /\ h[m] # KeepAt(q, Upto(m))
    BY <2>1
  <2>3. CASE m = 0
    <3>1. Upto(0) = {}
      OBVIOUS
    <3> QED
      BY <1>7, <2>2, <2>3, <3>1, KeepAtNone
  <2>4. CASE m # 0
    <3>1. m \in 1..N /\ m - 1 \in 0..N /\ ~(m <= m - 1)
      BY <1>1, <2>2, <2>4
    <3>2. h[m - 1] = KeepAt(q, Upto(m - 1))
      BY <2>1, <3>1
    <3>3. h[m] = One(h[m - 1], m)
      BY <1>7, <3>1
    <3>4. CASE q[m] \in S
      <4>1. Upto(m) = Upto(m - 1) \cup {m}
        BY <3>1, <3>4
      <4>2. Upto(m - 1) \in SUBSET DOMAIN q /\ \A j \in Upto(m - 1) : j < m
        BY <1>1, <3>1
      <4> HIDE DEF Upto
      <4>3. KeepAt(q, Upto(m - 1) \cup {m}) = Append(KeepAt(q, Upto(m - 1)), q[m])
        BY <1>1, <3>1, <4>2, KeepAtAppend
      <4> QED
        BY <2>2, <3>2, <3>3, <3>4, <4>1, <4>3
    <3>5. CASE q[m] \notin S
      <4>1. Upto(m) = Upto(m - 1)
        BY <3>1, <3>5
      <4> HIDE DEF Upto
      <4> QED
        BY <2>2, <3>2, <3>3, <3>5, <4>1
    <3> QED
      BY <3>4, <3>5
  <2> QED
    BY <2>3, <2>4
<1>9. h[N] = KeepAt(q, Upto(N))
  <2>1. N \in 0..N
    BY <1>1
  <2>2. N \notin Bad
    BY <1>8
  <2> HIDE DEF N, Upto
  <2> QED
    BY <2>1, <2>2
<1>10. Upto(N) = {k \in DOMAIN q : q[k] \in S}
  BY <1>1
<1> QED
  BY <1>6, <1>9, <1>10

\* The first entries of two sequences in a row.
LEMMA OpeningOfBoth ==
  ASSUME NEW T, NEW s \in Seq(T), NEW t \in Seq(T), NEW n \in Nat,
         NEW l, l = Smaller(n, Len(s))
  PROVE  SubSeq(s, 1, l) \o SubSeq(t, 1, Smaller(n - l, Len(t)))
           = SubSeq(s \o t, 1, Smaller(n, Len(s) + Len(t)))
<1> DEFINE r == Smaller(n - l, Len(t))
           k == Smaller(n, Len(s) + Len(t))
           a == SubSeq(s, 1, l)
           b == SubSeq(t, 1, r)
           c == s \o t
           u == a \o b
           v == SubSeq(c, 1, k)
<1>1. Len(s) \in Nat /\ Len(t) \in Nat
  OBVIOUS
<1>2. /\ l \in 0..Len(s) /\ r \in 0..Len(t) /\ k = l + r /\ (r # 0 => l = Len(s))
  <2>1. ASSUME NEW x \in Nat, NEW y \in Nat
        PROVE  LET z == Smaller(n, x)
                   w == Smaller(n - z, y)
               IN  /\ z \in 0..x /\ w \in 0..y /\ Smaller(n, x + y) = z + w
                   /\ (w # 0 => z = x)
    BY DEF Smaller
  <2> QED
    BY <1>1, <2>1
<1> HIDE DEF r, k
<1>3. /\ a \in Seq(T) /\ Len(a) = l /\ \A i \in 1..l : a[i] = s[i]
      /\ b \in Seq(T) /\ Len(b) = r /\ \A i \in 1..r : b[i] = t[i]
  BY <1>1, <1>2
<1>4. /\ c \in Seq(T) /\ Len(c) = Len(s) + Len(t)
      /\ \A i \in 1..Len(s) : c[i] = s[i]
      /\ \A i \in 1..Len(t) : c[Len(s) + i] = t[i]
  BY <1>1
<1> HIDE DEF a, b, c
<1>5. /\ u \in Seq(T) /\ Len(u) = l + r
      /\ \A i \in 1..l : u[i] = a[i]
      /\ \A i \in 1..r : u[l + i] = b[i]
  <2>1. a \in Seq(T) /\ b \in Seq(T)
    BY <1>3
  <2>2. /\ u \in Seq(T) /\ Len(u) = Len(a) + Len(b)
        /\ \A i \in 1..Len(a) : u[i] = a[i]
        /\ \A i \in 1..Len(b) : u[Len(a) + i] = b[i]
    BY <2>1
  <2> QED
    BY <1>3, <2>2
<1>6. v \in Seq(T) /\ Len(v) = k /\ \A i \in 1..k : v[i] = c[i]
  BY <1>1, <1>2, <1>4
<1> HIDE DEF u, v
<1>7. ASSUME NEW i \in 1..(l + r) PROVE u[i] = v[i]
  <2>1. CASE i <= l
    <3>1. i \in 1..l /\ i \in 1..Len(s) /\ i \in 1..k
      BY <1>1, <1>2, <2>1
    <3> QED
      BY <1>3, <1>4, <1>5, <1>6, <3>1
  <2>2. CASE ~(i <= l)
    <3> DEFINE j == i - l
    <3>1. j \in 1..r /\ i = l + j /\ r # 0 /\ l = Len(s) /\ j \in 1..Len(t) /\ i \in 1..k
      BY <1>1, <1>2, <2>2
    <3> HIDE DEF j
    <3>2. u[l + j] = t[j] /\ c[Len(s) + j] = t[j]
      BY <1>3, <1>4, <1>5, <3>1
    <3> QED
      BY <1>6, <3>1, <3>2
  <2> QED
    BY <2>1, <2>2
<1>8. u = v
  BY <1>2, <1>5, <1>6, <1>7
<1> QED
  BY <1>8 DEF u, v, a, b, c, r, k

-----------------------------------------------------------------------------
(* Sequences without repetitions *)

\* A sequence without repetitions stays one when it gets a new member.
LEMMA InjectiveAppend ==
  ASSUME NEW T, NEW q \in Seq(T), NEW x \in T, x \notin Range(q), IsInjective(q)
  PROVE  IsInjective(Append(q, x))
<1>1. /\ Len(q) \in Nat /\ DOMAIN q = 1..Len(q) /\ \A i \in DOMAIN q : q[i] # x
      /\ DOMAIN Append(q, x) = 1..(Len(q) + 1)
      /\ \A i \in 1..Len(q) : Append(q, x)[i] = q[i]
      /\ Append(q, x)[Len(q) + 1] = x
  BY DEF Range
<1> QED
  BY <1>1 DEF IsInjective

\* And when it loses one.
LEMMA InjectiveRemoveAt ==
  ASSUME NEW T, NEW q \in Seq(T), NEW k \in DOMAIN q, IsInjective(q)
  PROVE  /\ RemoveAt(q, k) \in Seq(T) /\ IsInjective(RemoveAt(q, k))
         /\ Range(RemoveAt(q, k)) = Range(q) \ {q[k]}
<1> DEFINE r == RemoveAt(q, k)
<1>1. /\ r \in Seq(T) /\ Len(r) = Len(q) - 1 /\ Range(q) = Range(r) \cup {q[k]}
      /\ \A j \in DOMAIN r : r[j] = IF j < k THEN q[j] ELSE q[j + 1]
  BY RangeRemoveAt, RemoveAtFacts
<1> HIDE DEF r
<1>2. Len(q) \in Nat /\ DOMAIN q = 1..Len(q) /\ DOMAIN r = 1..(Len(q) - 1)
  BY <1>1
<1>3. \A i \in DOMAIN r : \E n \in DOMAIN q : n # k /\ r[i] = q[n] /\ n = IF i < k THEN i ELSE i + 1
  BY <1>1, <1>2
<1>4. IsInjective(r)
  BY <1>1, <1>2, <1>3 DEF IsInjective
<1>5. q[k] \notin Range(r)
  BY <1>3 DEF IsInjective, Range
<1> QED
  BY <1>1, <1>4, <1>5 DEF r

Opening(line, n) == {line[k] : k \in 1..n}

\* Its first n entries are n.
LEMMA InjectiveHead ==
  ASSUME NEW S, NEW line \in Seq(S), IsInjective(line), NEW n \in 0..Len(line)
  PROVE  Opening(line, n) \in SUBSET Range(line) /\ Cardinality(Opening(line, n)) = n
<1> DEFINE T == {line[k] : k \in 1..n}
           f == [k \in 1..n |-> line[k]]
<1>1. Len(line) \in Nat /\ DOMAIN line = 1..Len(line) /\ n \in Nat /\ 1..n \subseteq DOMAIN line
  OBVIOUS
<1>2. T \in SUBSET Range(line)
  BY <1>1 DEF Range
<1>3. f \in Surjection(1..n, T)
  BY DEF Surjection
<1>4. f \in Injection(1..n, T)
  BY <1>1 DEF Injection, IsInjective
<1>5. IsFiniteSet(1..n) /\ Cardinality(1..n) = n
  BY <1>1, IntervalSize
<1> HIDE DEF T, f
<1>6. Cardinality(T) = n
  BY <1>3, <1>4, <1>5, FS_Surjection
<1> QED
  BY <1>2, <1>6 DEF T, Opening

\* What follows them has none of them.
LEMMA InjectiveRest ==
  ASSUME NEW S, NEW line \in Seq(S), IsInjective(line), NEW n \in 0..Len(line),
         NEW rest, rest = SubSeq(line, n + 1, Len(line))
  PROVE  /\ rest \in Seq(S) /\ Len(rest) = Len(line) - n /\ IsInjective(rest)
         /\ Range(rest) = Range(line) \ Opening(line, n)
<1> DEFINE T == {line[k] : k \in 1..n}
<1>1. Len(line) \in Nat /\ DOMAIN line = 1..Len(line) /\ n \in Nat /\ n <= Len(line)
  OBVIOUS
<1>2. /\ rest \in Seq(S) /\ Len(rest) = Len(line) - n
      /\ \A k \in 1..(Len(line) - n) : rest[k] = line[k + n]
  <2>1. \A k \in (n + 1)..Len(line) : line[k] \in S
    BY <1>1
  <2>2. n + 1 \in Int /\ Len(line) \in Int
    BY <1>1
  <2>3. /\ rest \in Seq(S)
        /\ Len(rest) = IF n + 1 <= Len(line) THEN Len(line) - (n + 1) + 1 ELSE 0
        /\ \A k \in 1..(Len(line) - (n + 1) + 1) : rest[k] = line[(n + 1) + k - 1]
    BY <2>1, <2>2, SubSeqProperties
  <2>4. \A k \in 1..(Len(line) - n) :
          k \in 1..(Len(line) - (n + 1) + 1) /\ (n + 1) + k - 1 = k + n
    BY <1>1
  <2>5. Len(rest) = Len(line) - n
    <3>1. Len(rest) = IF n + 1 <= Len(line) THEN Len(line) - (n + 1) + 1 ELSE 0
      BY <2>3
    <3>2. \A a \in Nat : \A b \in 0..a : IF b + 1 <= a THEN a - (b + 1) + 1 = a - b ELSE 0 = a - b
      OBVIOUS
    <3> QED
      BY <1>1, <3>1, <3>2
  <2>6. \A k \in 1..(Len(line) - n) : rest[k] = line[k + n]
    BY ONLY <2>3, <2>4
  <2> QED
    BY <2>3, <2>5, <2>6
<1>3. DOMAIN rest = 1..(Len(line) - n)
  BY <1>2
<1>4. IsInjective(rest)
  <2>1. \A k \in 1..(Len(line) - n) : k + n \in 1..Len(line) /\ k \in Int
    BY ONLY <1>1
  <2>2. \A i, j \in 1..(Len(line) - n) : i + n = j + n => i = j
    BY ONLY <1>1
  <2>3. ASSUME NEW i \in 1..(Len(line) - n), NEW j \in 1..(Len(line) - n), rest[i] = rest[j]
        PROVE  i = j
    <3>1. line[i + n] = line[j + n]
      BY <1>2, <2>3
    <3>2. i + n = j + n
      BY <1>1, <2>1, <3>1 DEF IsInjective
    <3> QED
      BY <2>2, <3>2
  <2> QED
    BY <1>3, <2>3 DEF IsInjective
<1>5. ASSUME NEW x PROVE x \in Range(rest) <=> x \in Range(line) \ T
  <2>1. ASSUME x \in Range(rest) PROVE x \in Range(line) /\ x \notin T
    <3>1. PICK k \in 1..(Len(line) - n) : x = line[k + n]
      BY <1>2, <1>3, <2>1 DEF Range
    <3>2. k + n \in DOMAIN line /\ \A i \in 1..n : i \in DOMAIN line /\ i # k + n
      BY <1>1
    <3> QED
      BY <3>1, <3>2 DEF Range, IsInjective
  <2>2. ASSUME x \in Range(line), x \notin T PROVE x \in Range(rest)
    <3>1. PICK i \in 1..Len(line) : x = line[i]
      BY <1>1, <2>2 DEF Range
    <3>2. i \notin 1..n
      BY <2>2, <3>1
    <3>3. i - n \in 1..(Len(line) - n) /\ (i - n) + n = i
      BY <1>1, <3>2
    <3> QED
      BY <1>2, <1>3, <3>1, <3>3 DEF Range
  <2> QED
    BY <2>1, <2>2
<1> QED
  BY <1>2, <1>4, <1>5 DEF Opening

\* A queue without repetitions, once its head has left.
LEMMA InjectiveTail ==
  ASSUME NEW S, NEW line \in Seq(S), IsInjective(line), line # <<>>
  PROVE  /\ Tail(line) \in Seq(S) /\ IsInjective(Tail(line))
         /\ Head(line) \in Range(line) /\ Range(Tail(line)) = Range(line) \ {Head(line)}
<1>1. Len(line) \in Nat /\ 1 \in 0..Len(line) /\ 1 \in DOMAIN line /\ Head(line) = line[1]
  OBVIOUS
<1>2. Tail(line) = SubSeq(line, 1 + 1, Len(line))
  BY TailIsSubSeq
<1>3. /\ Tail(line) \in Seq(S) /\ IsInjective(Tail(line))
      /\ Range(Tail(line)) = Range(line) \ Opening(line, 1)
  BY <1>1, <1>2, InjectiveRest
<1>4. Opening(line, 1) = {line[1]}
  BY DEF Opening
<1> QED
  BY <1>1, <1>3, <1>4 DEF Range

=============================================================================
