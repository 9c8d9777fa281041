---------------------------- MODULE ResourceProofs ----------------------------
(***************************************************************************)
(* What ScanResources promises for all numbers of scans, sizes, budgets,   *)
(* threads and slots.  The invariant has a part per resource: each says    *)
(* that the resource's own books agree with where the scans are.  A step   *)
(* moves one scan (Moved), or one scan and the waiters that a pass has     *)
(* woken (MovedWoken), and every operation of a resource has a lemma that  *)
(* says how its part follows.  The pass over the waiters is a loop: its    *)
(* existence is Courses, what it has done after n turns PassedSoFar.       *)
(***************************************************************************)
EXTENDS ScanResources, SelectionProofs

-----------------------------------------------------------------------------
(* Tickets *)

Counters == [mb : Nat, heavyMb : Nat, count : Nat]

OfClass(H, c) == {s \in H : Weight[s] = c}
Sum(H, c) == Mb[c] * Cardinality(OfClass(H, c))

\* The counters are the sums over H.
Accounts(g, H) ==
  /\ g \in Counters
  /\ g.count = Cardinality(H)
  /\ g.mb = Sum(H, "light") + Sum(H, "medium") + Sum(H, "heavy")
  /\ g.heavyMb = Sum(H, "heavy")

\* Sizes are positive.
LEMMA Sizes ==
  ASSUME NEW s \in Scans
  PROVE  /\ Weight[s] \in Classes /\ Size(s) \in Nat /\ Size(s) = Mb[Weight[s]] /\ Size(s) # 0
         /\ HeavySize(s) \in Nat
         /\ Weight[s] = "heavy" => HeavySize(s) = Size(s)
         /\ Weight[s] # "heavy" => HeavySize(s) = 0
BY GovernorAssumption DEF Size, HeavySize

LEMMA OneMore ==
  ASSUME NEW m \in Nat, NEW k \in Nat
  PROVE  m * (k + 1) = m * k + m /\ m * k \in Nat /\ m * 0 = 0
OBVIOUS

\* One more scan of a class is one more ticket of its size, and none of another.
LEMMA SumAdds ==
  ASSUME NEW H \in SUBSET Scans, NEW s \in Scans \ H, NEW c \in Classes
  PROVE  /\ Sum(H, c) \in Nat
         /\ Sum(H \cup {s}, c) = Sum(H, c) + (IF Weight[s] = c THEN Size(s) ELSE 0)
<1>1. IsFiniteSet(OfClass(H, c)) /\ Cardinality(OfClass(H, c)) \in Nat
  <2>1. OfClass(H, c) \in SUBSET Scans
    BY DEF OfClass
  <2> QED
    BY <2>1, GovernorAssumption, FS_Subset, FS_CardinalityType
<1>2. Mb[c] \in Nat
  BY GovernorAssumption
<1>3. CASE Weight[s] = c
  <2>1. OfClass(H \cup {s}, c) = OfClass(H, c) \cup {s} /\ s \notin OfClass(H, c)
    BY <1>3 DEF OfClass
  <2>2. Cardinality(OfClass(H \cup {s}, c)) = Cardinality(OfClass(H, c)) + 1
    BY <1>1, <2>1, FS_AddElement
  <2> QED
    BY <1>1, <1>2, <1>3, <2>2, OneMore, Sizes DEF Sum
<1>4. CASE Weight[s] # c
  <2>1. OfClass(H \cup {s}, c) = OfClass(H, c)
    BY <1>4 DEF OfClass
  <2> QED
    BY <1>1, <1>2, <1>4, <2>1, OneMore DEF Sum
<1> QED
  BY <1>3, <1>4

LEMMA SizeAdds ==
  ASSUME NEW H \in SUBSET Scans, NEW s \in Scans \ H
  PROVE  Cardinality(H) \in Nat /\ Cardinality(H \cup {s}) = Cardinality(H) + 1
BY GovernorAssumption, FS_Subset, FS_CardinalityType, FS_AddElement

\* A grant accounts for one more, a release for one less, and its clamps do nothing.
LEMMA GrantAccounts ==
  ASSUME NEW g, NEW H \in SUBSET Scans, Accounts(g, H), NEW s \in Scans \ H
  PROVE  Accounts(Granted(g, s), H \cup {s})
<1>1. /\ \A c \in Classes : /\ Sum(H, c) \in Nat
                            /\ Sum(H \cup {s}, c)
                                 = Sum(H, c) + (IF Weight[s] = c THEN Size(s) ELSE 0)
      /\ Cardinality(H) \in Nat /\ Cardinality(H \cup {s}) = Cardinality(H) + 1
  BY SumAdds, SizeAdds
<1>2. "light" \in Classes /\ "medium" \in Classes /\ "heavy" \in Classes
  BY DEF Classes
<1>3. Weight[s] \in {"light", "medium", "heavy"} /\ Size(s) \in Nat /\ HeavySize(s) \in Nat
  BY Sizes DEF Classes
<1>4. /\ g.mb \in Nat /\ g.heavyMb \in Nat /\ g.count \in Nat
      /\ g.count = Cardinality(H)
      /\ g.mb = Sum(H, "light") + Sum(H, "medium") + Sum(H, "heavy")
      /\ g.heavyMb = Sum(H, "heavy")
  BY DEF Accounts, Counters
<1>5. /\ Granted(g, s).mb = g.mb + Size(s) /\ Granted(g, s).heavyMb = g.heavyMb + HeavySize(s)
      /\ Granted(g, s).count = g.count + 1 /\ Granted(g, s) \in Counters
  BY <1>3, <1>4 DEF Granted, Counters
<1>6. /\ Sum(H \cup {s}, "light") = Sum(H, "light") + (IF Weight[s] = "light" THEN Size(s) ELSE 0)
      /\ Sum(H \cup {s}, "medium") = Sum(H, "medium") + (IF Weight[s] = "medium" THEN Size(s) ELSE 0)
      /\ Sum(H \cup {s}, "heavy") = Sum(H, "heavy") + (IF Weight[s] = "heavy" THEN Size(s) ELSE 0)
      /\ Sum(H, "light") \in Nat /\ Sum(H, "medium") \in Nat /\ Sum(H, "heavy") \in Nat
  BY <1>1, <1>2
<1>7. Weight[s] = "heavy" => HeavySize(s) = Size(s)
  BY Sizes
<1>8. Weight[s] # "heavy" => HeavySize(s) = 0
  BY Sizes
<1> QED
  BY <1>1, <1>3, <1>4, <1>5, <1>6, <1>7, <1>8 DEF Accounts

LEMMA ReturnAccounts ==
  ASSUME NEW g, NEW H \in SUBSET Scans, NEW s \in Scans \ H, Accounts(g, H \cup {s})
  PROVE  Accounts(Returned(g, s), H)
<1>1. /\ \A c \in Classes : /\ Sum(H, c) \in Nat
                            /\ Sum(H \cup {s}, c)
                                 = Sum(H, c) + (IF Weight[s] = c THEN Size(s) ELSE 0)
      /\ Cardinality(H) \in Nat /\ Cardinality(H \cup {s}) = Cardinality(H) + 1
  BY SumAdds, SizeAdds
<1>2. "light" \in Classes /\ "medium" \in Classes /\ "heavy" \in Classes
  BY DEF Classes
<1>3. Weight[s] \in {"light", "medium", "heavy"} /\ Size(s) \in Nat /\ HeavySize(s) \in Nat
  BY Sizes DEF Classes
<1>4. /\ g.mb \in Nat /\ g.heavyMb \in Nat /\ g.count \in Nat
      /\ g.count = Cardinality(H \cup {s})
      /\ g.mb = Sum(H \cup {s}, "light") + Sum(H \cup {s}, "medium") + Sum(H \cup {s}, "heavy")
      /\ g.heavyMb = Sum(H \cup {s}, "heavy")
  BY DEF Accounts, Counters
<1>6. /\ Sum(H \cup {s}, "light") = Sum(H, "light") + (IF Weight[s] = "light" THEN Size(s) ELSE 0)
      /\ Sum(H \cup {s}, "medium") = Sum(H, "medium") + (IF Weight[s] = "medium" THEN Size(s) ELSE 0)
      /\ Sum(H \cup {s}, "heavy") = Sum(H, "heavy") + (IF Weight[s] = "heavy" THEN Size(s) ELSE 0)
      /\ Sum(H, "light") \in Nat /\ Sum(H, "medium") \in Nat /\ Sum(H, "heavy") \in Nat
  BY <1>1, <1>2
<1>7. Weight[s] = "heavy" => HeavySize(s) = Size(s)
  BY Sizes
<1>8. Weight[s] # "heavy" => HeavySize(s) = 0
  BY Sizes
<1>9. /\ g.mb = Sum(H, "light") + Sum(H, "medium") + Sum(H, "heavy") + Size(s)
      /\ g.heavyMb = Sum(H, "heavy") + HeavySize(s)
      /\ g.count = Cardinality(H) + 1
  BY <1>1, <1>3, <1>4, <1>6, <1>7, <1>8
<1>10. \A a, b \in Nat : Less(a + b, b) = a
  BY DEF Less
<1>11. /\ Returned(g, s).mb = Less(g.mb, Size(s))
       /\ Returned(g, s).heavyMb = Less(g.heavyMb, HeavySize(s))
       /\ Returned(g, s).count = Less(g.count, 1)
  BY DEF Returned
<1>12. /\ Returned(g, s).mb = Sum(H, "light") + Sum(H, "medium") + Sum(H, "heavy")
       /\ Returned(g, s).heavyMb = Sum(H, "heavy") /\ Returned(g, s).count = Cardinality(H)
  <2>1. Sum(H, "light") + Sum(H, "medium") + Sum(H, "heavy") \in Nat /\ 1 \in Nat
    BY <1>6
  <2> QED
    BY <1>1, <1>3, <1>6, <1>9, <1>10, <1>11, <2>1
<1>13. Returned(g, s) \in Counters
  BY <1>1, <1>6, <1>12 DEF Returned, Counters
<1> QED
  BY <1>12, <1>13 DEF Accounts

\* Nobody holds nothing.
LEMMA NobodyHolds ==
  ASSUME NEW g, NEW H \in SUBSET Scans, Accounts(g, H), ~(g.count > 0)
  PROVE  g = [mb |-> 0, heavyMb |-> 0, count |-> 0]
<1>1. H = {}
  BY GovernorAssumption, FS_Subset, FS_EmptySet, FS_CardinalityType DEF Accounts
<1>2. \A c \in Classes : Sum(H, c) = 0
  <2>1. ASSUME NEW c \in Classes PROVE Sum(H, c) = 0
    <3>1. OfClass(H, c) = {} /\ Mb[c] \in Nat
      BY <1>1, GovernorAssumption DEF OfClass
    <3> QED
      BY <3>1, FS_EmptySet, OneMore DEF Sum
  <2> QED
    BY <2>1
<1>3. g \in Counters /\ g.mb = 0 /\ g.heavyMb = 0 /\ g.count = 0
  BY <1>1, <1>2, FS_EmptySet DEF Accounts, Classes
<1> QED
  BY <1>3 DEF Counters

-----------------------------------------------------------------------------
(* The pass over the waiters *)

Courseable == [gov : Counters, line : Seq(Scans)]

LEMMA PassOneType ==
  ASSUME NEW p \in Courseable, NEW s \in Scans, NEW ice
  PROVE  PassOne(p, s, ice) \in Courseable
<1>1. Granted(p.gov, s) \in Counters
  BY Sizes DEF Granted, Counters, Courseable
<1>2. Append(p.line, s) \in Seq(Scans)
  BY DEF Courseable
<1> QED
  BY <1>1, <1>2 DEF PassOne, Courseable

\* The values of the loop of _drainWaiters.
PassCourse(f, g, ice) ==
  f = [n \in 0..Len(waiters) |->
         IF n = 0 THEN [gov |-> g, line |-> <<>>] ELSE PassOne(f[n - 1], waiters[n], ice)]

\* The equations of a course, one by one.
LEMMA PassEquations ==
  ASSUME NEW f, NEW g, NEW ice, PassCourse(f, g, ice), Len(waiters) \in Nat
  PROVE  /\ f = [n \in 0..Len(waiters) |-> f[n]]
         /\ f[0] = [gov |-> g, line |-> <<>>]
         /\ \A n \in 1..Len(waiters) : f[n] = PassOne(f[n - 1], waiters[n], ice)
<1>1. DOMAIN f = 0..Len(waiters) /\ f = [n \in 0..Len(waiters) |-> f[n]]
  BY DEF PassCourse
<1>2. \A n \in 0..Len(waiters) :
        f[n] = IF n = 0 THEN [gov |-> g, line |-> <<>>] ELSE PassOne(f[n - 1], waiters[n], ice)
  BY DEF PassCourse
<1>3. 0 \in 0..Len(waiters) /\ \A n \in 1..Len(waiters) : n \in 0..Len(waiters) /\ n # 0
  OBVIOUS
<1> QED
  BY <1>1, <1>2, <1>3

LEMMA PassSolves ==
  ASSUME waiters \in Seq(Scans), NEW g \in Counters, NEW ice
  PROVE  \E f \in [0..Len(waiters) -> Courseable] :
           PassCourse(f, g, ice) /\ Pass(g, ice) = f[Len(waiters)]
<1> DEFINE N == Len(waiters)
           step == [n \in 1..N |-> [p \in Courseable |-> PassOne(p, waiters[n], ice)]]
           base == [gov |-> g, line |-> <<>>]
           h == CHOOSE f : PassCourse(f, g, ice)
<1>1. N \in Nat /\ \A n \in 1..N : waiters[n] \in Scans
  OBVIOUS
<1>2. base \in Courseable
  BY DEF Courseable
<1>3. step \in [1..N -> [Courseable -> Courseable]]
  BY <1>1, PassOneType
<1>4. \E f : PassCourse(f, g, ice)
  <2>1. \A n \in 1..N : \A p \in Courseable : step[n][p] = PassOne(p, waiters[n], ice)
    OBVIOUS
  <2> HIDE DEF step, base, N
  <2>2. PICK f : Course(f, Courseable, base, N, step)
    BY <1>1, <1>2, <1>3, Courses DEF Turns
  <2>3. \A n \in 0..N : f[n] = IF n = 0 THEN base ELSE PassOne(f[n - 1], waiters[n], ice)
    BY <1>1, <2>1, <2>2 DEF Course
  <2>4. f = [n \in 0..N |-> IF n = 0 THEN base ELSE PassOne(f[n - 1], waiters[n], ice)]
    BY <2>2, <2>3 DEF Course
  <2> QED
    BY <2>4 DEF PassCourse, base, N
<1>5. PassCourse(h, g, ice)
  BY <1>4, Zenon
<1>6. Pass(g, ice) = h[N]
  BY Zenon DEF Pass, PassCourse
<1>7. h \in [0..N -> Courseable]
  <2> HIDE DEF h, base, step
  <2>1. /\ h = [n \in 0..N |-> h[n]]
        /\ h[0] = base
        /\ \A n \in 1..N : h[n] = PassOne(h[n - 1], waiters[n], ice)
    BY <1>1, <1>5, PassEquations DEF base, N
  <2> DEFINE Bad == {n \in 0..N : h[n] \notin Courseable}
  <2>2. ASSUME Bad # {} PROVE FALSE
    <3>1. Bad \in SUBSET Nat
      OBVIOUS
    <3>2. PICK m \in Bad : \A k \in Bad : m <= k
      BY <2>2, <3>1, LeastMember
    <3>3. m # 0 /\ m \in 0..N
      BY <1>2, <2>1, <3>2
    <3>4. m \in 1..N /\ m - 1 \in 0..N /\ ~(m <= m - 1)
      BY <1>1, <3>3
    <3>5. h[m - 1] \in Courseable
      BY <3>2, <3>4
    <3>6. h[m] \in Courseable
      BY <1>1, <2>1, <3>4, <3>5, PassOneType
    <3> QED
      BY <3>2, <3>6
  <2> QED
    BY <2>1, <2>2
<1> QED
  BY <1>5, <1>6, <1>7

\* Tickets granted to others do not admit a waiter that was blocked.
LEMMA BlockedStays ==
  ASSUME NEW g \in Counters, budget \in Nat, NEW s \in Scans, NEW t \in Scans, NEW ice,
         ~CanAdmit(g, s, ice)
  PROVE  ~CanAdmit(Granted(g, t), s, ice)
<1>1. Size(s) \in Nat /\ Size(t) \in Nat /\ HeavySize(t) \in Nat /\ Carveout \in Nat
  BY Sizes, GovernorAssumption
<1>2. /\ Granted(g, t).mb = g.mb + Size(t) /\ Granted(g, t).heavyMb = g.heavyMb + HeavySize(t)
      /\ g.mb \in Nat /\ g.heavyMb \in Nat /\ Less(budget, Carveout) \in Nat
  BY <1>1 DEF Granted, Counters, Less
<1> QED
  BY <1>1, <1>2 DEF CanAdmit, Fits

\* After n turns: who was passed is accounted for, who was not stays blocked.
PassedSoFar(p, n, H, ice) ==
  LET seen == {waiters[i] : i \in 1..n}
  IN  /\ IsInjective(p.line)
      /\ Range(p.line) \subseteq seen
      /\ Accounts(p.gov, H \cup (seen \ Range(p.line)))
      /\ \A s \in Range(p.line) : ~CanAdmit(p.gov, s, ice)
      /\ p.line # <<>> /\ ice => p.gov.count > 0

LEMMA PassTurn ==
  ASSUME waiters \in Seq(Scans), IsInjective(waiters), budget \in Nat, NEW ice \in BOOLEAN,
         NEW H \in SUBSET Scans, H \cap Range(waiters) = {},
         NEW n \in 1..Len(waiters), NEW p \in Courseable, PassedSoFar(p, n - 1, H, ice)
  PROVE  PassedSoFar(PassOne(p, waiters[n], ice), n, H, ice)
<1> DEFINE s == waiters[n]
           seen == {waiters[i] : i \in 1..(n - 1)}
           now == {waiters[i] : i \in 1..n}
           r == PassOne(p, s, ice)
<1>1. s \in Scans /\ s \notin H /\ seen \in SUBSET Scans
  BY DEF Range
<1>2. s \notin seen
  BY DEF IsInjective
<1>3. now = seen \cup {s}
  <2>1. \A i \in 1..n : i = n \/ i \in 1..(n - 1)
    OBVIOUS
  <2>2. \A i \in 1..(n - 1) : i \in 1..n
    OBVIOUS
  <2>3. n \in 1..n
    OBVIOUS
  <2> QED
    BY <2>1, <2>2, <2>3
<1>4. /\ IsInjective(p.line) /\ Range(p.line) \subseteq seen
      /\ Accounts(p.gov, H \cup (seen \ Range(p.line)))
      /\ \A t \in Range(p.line) : ~CanAdmit(p.gov, t, ice)
      /\ p.line # <<>> /\ ice => p.gov.count > 0
  BY DEF PassedSoFar
<1>5. p.gov \in Counters /\ p.line \in Seq(Scans)
  BY DEF Courseable
<1>6. r = PassOne(p, s, ice)
  OBVIOUS
<1> HIDE DEF s, seen, now, r
<1>7. CASE Passes(p, s, ice)
  <2>1. r = [gov |-> Granted(p.gov, s), line |-> p.line]
    BY <1>6, <1>7 DEF PassOne
  <2>2. Accounts(r.gov, H \cup (now \ Range(r.line)))
    <3> DEFINE K == H \cup (seen \ Range(p.line))
    <3>1. K \in SUBSET Scans /\ s \in Scans \ K
      BY <1>1, <1>2
    <3>2. H \cup (now \ Range(p.line)) = K \cup {s}
      BY <1>2, <1>3, <1>4
    <3> HIDE DEF K
    <3>3. Accounts(Granted(p.gov, s), K \cup {s})
      BY <1>4, <3>1, GrantAccounts DEF K
    <3> QED
      BY <2>1, <3>2, <3>3
  <2>3. \A t \in Range(r.line) : ~CanAdmit(r.gov, t, ice)
    BY <1>1, <1>4, <1>5, <2>1, BlockedStays
  <2>4. r.gov.count > 0
    BY <1>5, <2>1 DEF Granted, Counters
  <2> QED
    BY <1>3, <1>4, <2>1, <2>2, <2>3, <2>4 DEF PassedSoFar, now, r, s
<1>8. CASE ~Passes(p, s, ice)
  <2>1. r.gov = p.gov /\ r.line = Append(p.line, s)
    BY <1>6, <1>8 DEF PassOne
  <2>2. Range(r.line) = Range(p.line) \cup {s}
    BY <1>1, <1>5, <2>1, RangeAppend
  <2>3. IsInjective(r.line)
    BY <1>1, <1>2, <1>4, <1>5, <2>1, InjectiveAppend
  <2>4. now \ Range(r.line) = seen \ Range(p.line)
    BY <1>2, <1>3, <2>2
  <2>5. ~CanAdmit(p.gov, s, ice) /\ (ice /\ p.line = <<>> => p.gov.count # 0)
    BY <1>8 DEF Passes, Alone
  <2>6. ice => p.gov.count > 0
    BY <1>4, <1>5, <2>5 DEF Counters
  <2> QED
    BY <1>3, <1>4, <2>1, <2>2, <2>3, <2>4, <2>5, <2>6 DEF PassedSoFar, now, r, s
<1> QED
  BY <1>7, <1>8

\* What a pass leaves: whoever left the line holds a ticket, whoever is in it is blocked.
LEMMA PassFacts ==
  ASSUME waiters \in Seq(Scans), IsInjective(waiters), budget \in Nat, NEW ice \in BOOLEAN,
         NEW g, NEW H \in SUBSET Scans, H \cap Range(waiters) = {}, Accounts(g, H),
         NEW p, p = Pass(g, ice)
  PROVE  /\ p.line \in Seq(Scans) /\ IsInjective(p.line) /\ Range(p.line) \subseteq Range(waiters)
         /\ Accounts(p.gov, H \cup (Range(waiters) \ Range(p.line)))
         /\ \A s \in Range(p.line) : ~CanAdmit(p.gov, s, ice) /\ (ice => p.gov.count > 0)
<1> DEFINE N == Len(waiters)
<1>1. N \in Nat /\ g \in Counters
  BY DEF Accounts
<1>2. PICK f \in [0..N -> Courseable] : PassCourse(f, g, ice) /\ Pass(g, ice) = f[N]
  BY <1>1, PassSolves
<1>3. f[0] = [gov |-> g, line |-> <<>>] /\ \A n \in 1..N : f[n] = PassOne(f[n - 1], waiters[n], ice)
  BY <1>1, <1>2, PassEquations
<1>4. PassedSoFar(f[0], 0, H, ice)
  <2>1. f[0].gov = g /\ f[0].line = <<>> /\ Range(<<>>) = {} /\ {waiters[i] : i \in 1..0} = {}
    BY <1>3 DEF Range
  <2>2. IsInjective(<<>>)
    BY DEF IsInjective
  <2>3. H \cup ({} \ {}) = H
    OBVIOUS
  <2> QED
    BY <2>1, <2>2, <2>3 DEF PassedSoFar
<1> DEFINE Bad == {n \in 0..N : ~PassedSoFar(f[n], n, H, ice)}
<1>5. ASSUME Bad # {} PROVE FALSE
  <2>1. Bad \in SUBSET Nat
    OBVIOUS
  <2>2. PICK m \in Bad : \A k \in Bad : m <= k
    BY <1>5, <2>1, LeastMember
  <2>3. m # 0 /\ m \in 0..N
    BY <1>4, <2>2
  <2>4. m \in 1..N /\ m - 1 \in 0..N /\ ~(m <= m - 1)
    BY <1>1, <2>3
  <2>5. PassedSoFar(f[m - 1], m - 1, H, ice) /\ f[m - 1] \in Courseable
    BY <1>2, <2>2, <2>4
  <2>6. PassedSoFar(PassOne(f[m - 1], waiters[m], ice), m, H, ice)
    BY <2>4, <2>5, PassTurn
  <2> QED
    BY <1>3, <2>2, <2>4, <2>6
<1>6. PassedSoFar(p, N, H, ice) /\ p \in Courseable
  BY <1>1, <1>2, <1>5
<1>7. {waiters[i] : i \in 1..N} = Range(waiters)
  BY DEF Range
<1>8. \A s \in Range(p.line) : p.line # <<>>
  BY DEF Range
<1> QED
  BY <1>6, <1>7, <1>8 DEF PassedSoFar, Courseable

-----------------------------------------------------------------------------
(* The governor's part of the invariant *)

In(st) == {s \in Scans : stage[s] = st}

Nothing == [mb |-> 0, heavyMb |-> 0, count |-> 0]

\* The governor and the scans agree on who holds a ticket and who waits for one.
GovOK ==
  /\ GovernorTypeOK
  /\ Accounts(gov, In("scan"))
  /\ GovernorMoves
  /\ Range(waiters) = In("wait") /\ IsInjective(waiters)
  /\ ~sampled => ~frozen /\ budget = 0

\* What a pass leaves behind waits for a reason.
LEMMA PassMoves ==
  ASSUME waiters \in Seq(Scans), IsInjective(waiters), budget \in Nat, NEW ice \in BOOLEAN,
         NEW g, NEW H \in SUBSET Scans, H \cap Range(waiters) = {}, Accounts(g, H),
         NEW p, p = Pass(g, ice)
  PROVE  \A s \in Range(p.line) :
           ~CanAdmit(p.gov, s, ice) /\ (p.gov.count > 0 \/ ~Fits(Nothing, s))
<1>1. /\ Accounts(p.gov, H \cup (Range(waiters) \ Range(p.line)))
      /\ \A s \in Range(p.line) : ~CanAdmit(p.gov, s, ice) /\ (ice => p.gov.count > 0)
  BY PassFacts
<1>2. H \cup (Range(waiters) \ Range(p.line)) \in SUBSET Scans
  BY RangeFacts
<1>3. ASSUME NEW s \in Range(p.line), ~(p.gov.count > 0) PROVE ~Fits(Nothing, s)
  <2>1. p.gov = Nothing
    BY <1>1, <1>2, <1>3, NobodyHolds DEF Nothing
  <2>2. ~CanAdmit(Nothing, s, ice) /\ ~ice
    BY <1>1, <1>3, <2>1
  <2> QED
    BY <2>2 DEF CanAdmit
<1> QED
  BY <1>1, <1>3

LEMMA GovFacts ==
  ASSUME GovOK
  PROVE  /\ waiters \in Seq(Scans) /\ IsInjective(waiters) /\ gov \in Counters
         /\ budget \in Nat /\ frozen \in BOOLEAN /\ sampled \in BOOLEAN
         /\ budget \in Budgets \cup {0}
         /\ In("scan") \in SUBSET Scans /\ In("scan") \cap Range(waiters) = {}
         /\ \A s \in Range(waiters) :
              ~CanAdmit(gov, s, frozen) /\ (gov.count > 0 \/ ~Fits(Nothing, s))
<1>1. In("scan") \in SUBSET Scans /\ In("scan") \cap In("wait") = {}
  BY DEF In
<1> QED
  BY <1>1, GovernorAssumption DEF GovOK, GovernorTypeOK, Counters, GovernorMoves, Nothing

\* A step that leaves the governor and the ticket holders alone.
LEMMA GovKept ==
  ASSUME GovOK, UNCHANGED governorVars, In("scan")' = In("scan"), In("wait")' = In("wait")
  PROVE  GovOK'
<1>1. /\ gov' = gov /\ waiters' = waiters /\ sampled' = sampled /\ budget' = budget
      /\ frozen' = frozen
  BY DEF governorVars
<1>2. Accounts(gov, In("scan"))'
  BY <1>1 DEF GovOK, Accounts, OfClass, Sum
<1>3. GovernorMoves'
  BY <1>1 DEF GovOK, GovernorMoves, CanAdmit, Fits
<1>4. GovernorTypeOK'
  BY <1>1 DEF GovOK, GovernorTypeOK
<1>5. (Range(waiters) = In("wait") /\ IsInjective(waiters))'
  BY <1>1 DEF GovOK
<1> QED
  BY <1>1, <1>2, <1>3, <1>4, <1>5 DEF GovOK

\* A ticket granted at once blocks the waiters the more.
LEMMA GovTaken ==
  ASSUME GovOK, NEW s \in Scans, stage[s] \notin {"scan", "wait"}, TicketTaken(s),
         In("scan")' = In("scan") \cup {s}, In("wait")' = In("wait")
  PROVE  GovOK'
<1>1. gov' = Granted(gov, s) /\ UNCHANGED <<waiters, sampled, budget, frozen>>
  BY DEF TicketTaken
<1>2. s \in Scans \ In("scan")
  BY DEF In
<1>3. Accounts(gov, In("scan")) /\ In("scan") \in SUBSET Scans
  BY GovFacts DEF GovOK
<1>4. Accounts(Granted(gov, s), In("scan") \cup {s})
  BY <1>2, <1>3, GrantAccounts
<1>5. Accounts(gov, In("scan"))'
  BY <1>1, <1>4 DEF Accounts, OfClass, Sum
<1>6. gov' \in Counters /\ gov'.count > 0
  <2>1. gov \in Counters
    BY <1>3 DEF Accounts
  <2> QED
    BY <1>1, <1>5, <2>1 DEF Accounts, Granted, Counters
<1>7. \A t \in Range(waiters) : ~CanAdmit(gov', t, frozen)
  <2>1. Range(waiters) \in SUBSET Scans
    BY GovFacts, RangeFacts
  <2> QED
    BY <1>1, <2>1, GovFacts, BlockedStays
<1>8. GovernorMoves'
  BY <1>1, <1>6, <1>7 DEF GovernorMoves, CanAdmit, Fits
<1> QED
  BY <1>1, <1>5, <1>6, <1>8 DEF GovOK, GovernorTypeOK, Counters, IsInjective, Range

\* Who waits is blocked now, by others or by the budget.
LEMMA GovAwaited ==
  ASSUME GovOK, NEW s \in Scans, stage[s] \notin {"scan", "wait"}, TicketAwaited(s),
         In("scan")' = In("scan"), In("wait")' = In("wait") \cup {s}
  PROVE  GovOK'
<1>1. /\ waiters' = Append(waiters, s) /\ UNCHANGED <<gov, sampled, budget, frozen>>
      /\ ~CanAdmit(gov, s, frozen) /\ ~(frozen /\ gov.count = 0)
  BY DEF TicketAwaited, Admissible, Alone
<1>2. s \notin Range(waiters)
  BY DEF GovOK, In
<1>3. waiters' \in Seq(Scans) /\ Range(waiters') = Range(waiters) \cup {s} /\ IsInjective(waiters')
  BY <1>1, <1>2, GovFacts, RangeAppend, InjectiveAppend
<1>4. gov.count > 0 \/ ~Fits(Nothing, s)
  <2>1. SUFFICES ASSUME ~(gov.count > 0) PROVE ~Fits(Nothing, s)
    OBVIOUS
  <2>2. gov = Nothing
    BY <2>1, GovFacts, NobodyHolds DEF GovOK, Nothing
  <2>3. ~frozen
    BY <1>1, <2>2 DEF Nothing
  <2> QED
    BY <1>1, <2>2, <2>3 DEF CanAdmit
<1>5. \A t \in Range(waiters') : ~CanAdmit(gov, t, frozen) /\ (gov.count > 0 \/ ~Fits(Nothing, t))
  BY <1>1, <1>3, <1>4, GovFacts
<1>6. GovernorMoves'
  BY <1>1, <1>5 DEF GovernorMoves, CanAdmit, Fits, Nothing
<1>7. Accounts(gov, In("scan"))'
  BY <1>1 DEF GovOK, Accounts, OfClass, Sum
<1> QED
  BY <1>1, <1>3, <1>6, <1>7 DEF GovOK, GovernorTypeOK, IsInjective, Range

\* A waiter that leaves takes itself out.
LEMMA GovRefused ==
  ASSUME GovOK, NEW s \in Scans, TicketRefused(s),
         In("scan")' = In("scan"), In("wait")' = In("wait") \ {s}
  PROVE  GovOK'
<1>1. UNCHANGED <<gov, sampled, budget, frozen>>
  BY DEF TicketRefused
<1>2. PICK k \in DOMAIN waiters : waiters[k] = s /\ waiters' = RemoveAt(waiters, k)
  BY DEF TicketRefused
<1>3. /\ waiters' \in Seq(Scans) /\ Range(waiters') = Range(waiters) \ {s}
      /\ IsInjective(waiters')
  BY <1>2, GovFacts, InjectiveRemoveAt
<1>4. GovernorMoves'
  BY <1>1, <1>3, GovFacts DEF GovernorMoves, CanAdmit, Fits, Nothing
<1>5. Accounts(gov, In("scan"))'
  BY <1>1 DEF GovOK, Accounts, OfClass, Sum
<1> QED
  BY <1>1, <1>3, <1>4, <1>5 DEF GovOK, GovernorTypeOK, IsInjective, Range

\* A pass hands tickets to the waiters it takes out of the line.
LEMMA GovPassed ==
  ASSUME GovOK, NEW H \in SUBSET Scans, H \cap Range(waiters) = {}, NEW g, Accounts(g, H),
         NEW p, p = Pass(g, frozen'), gov' = p.gov, waiters' = p.line,
         UNCHANGED <<sampled, budget>>, frozen' \in BOOLEAN, sampled \/ ~frozen',
         In("scan")' = H \cup Woken, In("wait")' = In("wait") \ Woken
  PROVE  GovOK'
<1>1. /\ waiters' \in Seq(Scans) /\ IsInjective(waiters')
      /\ Range(waiters') \subseteq Range(waiters)
      /\ Accounts(gov', H \cup (Range(waiters) \ Range(waiters')))
  BY GovFacts, PassFacts
<1>2. \A s \in Range(waiters') :
        ~CanAdmit(gov', s, frozen') /\ (gov'.count > 0 \/ ~Fits(Nothing, s))
  BY GovFacts, PassMoves
<1>3. Woken = Range(waiters) \ Range(waiters')
  BY DEF Woken
<1>4. Accounts(gov, In("scan"))'
  <2>1. In("scan")' = H \cup (Range(waiters) \ Range(waiters'))
    BY <1>3
  <2>2. Accounts(gov', In("scan")')
    BY <1>1, <2>1
  <2> QED
    BY <2>2 DEF Accounts, OfClass, Sum
<1>5. GovernorMoves'
  BY <1>2 DEF GovernorMoves, CanAdmit, Fits, Nothing
<1>6. Range(waiters') = In("wait")'
  <2>1. Range(waiters) = In("wait")
    BY DEF GovOK
  <2> DEFINE W == Range(waiters)
             R == Range(waiters')
  <2>2. In("wait")' = W \ (W \ R) /\ R \subseteq W
    BY <1>1, <1>3, <2>1
  <2> HIDE DEF W, R
  <2>3. R = In("wait")'
    BY <2>2
  <2> QED
    BY <2>3 DEF R
<1>7. GovernorTypeOK' /\ (~sampled => ~frozen /\ budget = 0)'
  BY <1>1 DEF GovOK, GovernorTypeOK, Accounts, Counters
<1> QED
  BY <1>1, <1>4, <1>5, <1>6, <1>7 DEF GovOK, IsInjective, Range

LEMMA GovReleased ==
  ASSUME GovOK, NEW s \in Scans, stage[s] = "scan", TicketReleased(s),
         In("scan")' = (In("scan") \ {s}) \cup Woken, In("wait")' = In("wait") \ Woken
  PROVE  GovOK'
<1> DEFINE H == In("scan") \ {s}
           g == Returned(gov, s)
<1>1. H \in SUBSET Scans /\ H \cap Range(waiters) = {} /\ s \in In("scan")
  BY GovFacts DEF In
<1>2. Accounts(g, H)
  BY <1>1, GovFacts, ReturnAccounts DEF GovOK
<1>3. PICK p : p = Pass(g, frozen) /\ gov' = p.gov /\ waiters' = p.line
  BY DEF TicketReleased
<1>4. UNCHANGED <<sampled, budget, frozen>>
  BY DEF TicketReleased
<1>5. frozen' = frozen /\ (sampled \/ ~frozen')
  BY <1>4 DEF GovOK
<1>6. In("scan")' = H \cup Woken
  OBVIOUS
<1> HIDE DEF H, g
<1>7. p = Pass(g, frozen')
  BY <1>3, <1>5
<1>8. UNCHANGED <<sampled, budget>> /\ frozen' \in BOOLEAN
  BY <1>4, GovFacts
<1> QED
  BY <1>1, <1>2, <1>3, <1>5, <1>6, <1>7, <1>8, GovPassed

\* The first sample comes before anybody waits, and fixes the budget.
LEMMA GovSample ==
  ASSUME GovOK, NEW ice \in BOOLEAN, NEW left \in Budgets, UpdateRss(ice, left),
         In("scan")' = In("scan") \cup Woken, In("wait")' = In("wait") \ Woken
  PROVE  GovOK'
<1>1. /\ sampled' = TRUE /\ budget' = IF sampled THEN budget ELSE left
      /\ frozen' = ice
  BY DEF UpdateRss
<1>2. CASE frozen /\ ~ice
  <2>1. PICK p : p = Pass(gov, FALSE) /\ gov' = p.gov /\ waiters' = p.line
    BY <1>2 DEF UpdateRss
  <2>2. sampled' = sampled /\ budget' = budget /\ frozen' = FALSE
    BY <1>1, <1>2 DEF GovOK, GovernorTypeOK
  <2>3. p = Pass(gov, frozen') /\ UNCHANGED <<sampled, budget>> /\ frozen' \in BOOLEAN /\ ~frozen'
    BY <2>1, <2>2
  <2>4. Accounts(gov, In("scan"))
    BY DEF GovOK
  <2> QED
    BY <2>1, <2>3, <2>4, GovFacts, GovPassed
<1>3. CASE ~(frozen /\ ~ice)
  <2>1. gov' = gov /\ waiters' = waiters
    BY <1>3 DEF UpdateRss
  <2>2. Woken = {}
    BY <2>1 DEF Woken
  <2>3. In("scan")' = In("scan") /\ In("wait")' = In("wait")
    BY <2>2
  <2>4. Accounts(gov, In("scan"))'
    BY <2>1, <2>3 DEF GovOK, Accounts, OfClass, Sum
  <2>5. ~sampled => Range(waiters) = {}
    BY GovFacts DEF GovOK, CanAdmit
  <2>6. \A t \in Range(waiters) : sampled /\ budget' = budget
    BY <1>1, <2>5
  <2>7. GovernorMoves'
    <3>1. \A t \in Range(waiters') :
            ~CanAdmit(gov, t, ice) /\ (gov.count > 0 \/ ~Fits(Nothing, t))
      BY <1>1, <1>3, <2>1, GovFacts DEF CanAdmit
    <3> QED
      BY <1>1, <2>1, <2>6, <3>1 DEF GovernorMoves, CanAdmit, Fits, Nothing
  <2>8. GovernorTypeOK'
    BY <1>1, <2>1 DEF GovOK, GovernorTypeOK
  <2>9. (Range(waiters) = In("wait") /\ IsInjective(waiters))'
    BY <2>1, <2>3 DEF GovOK, Range, IsInjective
  <2> QED
    BY <1>1, <2>4, <2>7, <2>8, <2>9 DEF GovOK
<1> QED
  BY <1>2, <1>3

-----------------------------------------------------------------------------
(* The pool's part of the invariant *)

\* A thread pool that is being destroyed has neither jobs nor threads.
PoolOK ==
  /\ PoolTypeOK(Scans)
  /\ JobsAccounted
  /\ pool = "closing" => pending = <<>> /\ running = {} /\ idle = 0

\* What a dispatch does with the jobs: each is in the line or has a thread, and the line is
\* only left with jobs when the pool has all its threads.
LEMMA Dispatched ==
  ASSUME NEW line \in Seq(Scans), IsInjective(line), Len(line) <= MaxPending,
         NEW busy \in SUBSET Scans, Range(line) \cap busy = {},
         NEW free \in Nat, free + Cardinality(busy) <= PoolSize,
         pool # "closing", Dispatch(line, busy, free)
  PROVE  /\ pending' \in Seq(Scans) /\ Len(pending') <= MaxPending /\ IsInjective(pending')
         /\ running' \in SUBSET Scans
         /\ idle' \in 0..PoolSize /\ idle' + Cardinality(running') <= PoolSize
         /\ Range(pending') \cup running' = Range(line) \cup busy
         /\ Range(pending') \cap running' = {}
         /\ pending' # <<>> => Cardinality(running') = PoolSize
<1> DEFINE room == PoolSize - Cardinality(busy)
           n == IF Len(line) < room THEN Len(line) ELSE room
           T == Opening(line, n)
<1>1. /\ IsFiniteSet(busy) /\ Cardinality(busy) \in Nat /\ PoolSize \in Nat
      /\ Len(line) \in Nat /\ MaxPending \in Nat
  BY GovernorAssumption, PoolAssumption, FS_Subset, FS_CardinalityType
<1>2. room \in Nat /\ n \in 0..Len(line) /\ n <= room /\ (n # room => n = Len(line))
  BY <1>1
<1>3. /\ pending' = SubSeq(line, n + 1, Len(line)) /\ running' = busy \cup T
      /\ idle' = IF n < free THEN free - n ELSE 0
  BY DEF Dispatch, Opening
<1> HIDE DEF n
<1>4. T \in SUBSET Range(line) /\ Cardinality(T) = n
  BY <1>2, InjectiveHead
<1>5. /\ pending' \in Seq(Scans) /\ Len(pending') = Len(line) - n /\ IsInjective(pending')
      /\ Range(pending') = Range(line) \ T
  <2>1. pending' = SubSeq(line, n + 1, Len(line))
    BY <1>3
  <2>2. ASSUME NEW rest, rest = SubSeq(line, n + 1, Len(line))
        PROVE  /\ rest \in Seq(Scans) /\ Len(rest) = Len(line) - n /\ IsInjective(rest)
               /\ Range(rest) = Range(line) \ Opening(line, n)
    <3>1. line \in Seq(Scans) /\ IsInjective(line) /\ n \in 0..Len(line)
      BY <1>2
    <3> QED
      BY ONLY <3>1, <2>2, InjectiveRest
  <2> QED
    BY <2>1, <2>2
<1> HIDE DEF T
<1>6. Range(line) \in SUBSET Scans
  BY RangeFacts
<1>7. Cardinality(running') = Cardinality(busy) + n
  <2>1. T \cap busy = {} /\ IsFiniteSet(T) /\ busy \cap T = {}
    BY <1>4, <1>6, GovernorAssumption, FS_Subset
  <2>2. Cardinality(busy \cup T) = Cardinality(busy) + Cardinality(T) - Cardinality(busy \cap T)
    BY <1>1, <2>1, FS_Union
  <2>3. Cardinality(busy \cap T) = 0
    BY <2>1, FS_EmptySet
  <2> QED
    BY <1>1, <1>2, <1>3, <1>4, <2>2, <2>3
<1>8. /\ Range(pending') \cup running' = Range(line) \cup busy
      /\ Range(pending') \cap running' = {} /\ running' \in SUBSET Scans
  BY <1>3, <1>4, <1>5, <1>6
<1>9. /\ Len(pending') <= MaxPending
      /\ idle' \in 0..PoolSize /\ idle' + Cardinality(running') <= PoolSize
  BY <1>1, <1>2, <1>3, <1>5, <1>7
<1>10. ASSUME pending' # <<>> PROVE Cardinality(running') = PoolSize
  <2>1. Len(pending') # 0
    BY <1>5, <1>10
  <2>2. n = room
    BY <1>1, <1>2, <1>5, <2>1
  <2> QED
    BY <1>1, <1>7, <2>2
<1> QED
  BY <1>5, <1>8, <1>9, <1>10

LEMMA PoolFacts ==
  ASSUME PoolOK
  PROVE  /\ pending \in Seq(Scans) /\ Len(pending) \in Nat /\ Len(pending) <= MaxPending
         /\ Range(pending) \in SUBSET Scans /\ IsInjective(pending)
         /\ running \in SUBSET Scans /\ IsFiniteSet(running) /\ Cardinality(running) \in Nat
         /\ idle \in Nat /\ idle + Cardinality(running) <= PoolSize /\ PoolSize \in Nat
         /\ In("extract") = Range(pending) \cup running /\ Range(pending) \cap running = {}
         /\ pending # <<>> => Cardinality(running) = PoolSize
<1>1. pending \in Seq(Scans) /\ running \in SUBSET Scans /\ JobsAccounted
  BY DEF PoolOK, PoolTypeOK
<1>2. IsFiniteSet(running) /\ Cardinality(running) \in Nat
  BY <1>1, GovernorAssumption, FS_Subset, FS_CardinalityType
<1>3. Range(pending) \in SUBSET Scans
  BY <1>1, RangeFacts
<1> QED
  BY <1>1, <1>2, <1>3, PoolAssumption DEF PoolOK, PoolTypeOK, JobsAccounted, In

\* A step of the open pool ends in a dispatch.
LEMMA PoolDispatched ==
  ASSUME NEW line \in Seq(Scans), IsInjective(line), Len(line) <= MaxPending,
         NEW busy \in SUBSET Scans, Range(line) \cap busy = {},
         NEW free \in Nat, free + Cardinality(busy) <= PoolSize,
         pool = "open", UNCHANGED pool, Dispatch(line, busy, free),
         In("extract")' = Range(line) \cup busy
  PROVE  PoolOK'
<1>1. pool # "closing" /\ pool' = "open"
  OBVIOUS
<1>2. /\ pending' \in Seq(Scans) /\ Len(pending') <= MaxPending /\ IsInjective(pending')
      /\ running' \in SUBSET Scans
      /\ idle' \in 0..PoolSize /\ idle' + Cardinality(running') <= PoolSize
      /\ Range(pending') \cup running' = Range(line) \cup busy
      /\ Range(pending') \cap running' = {}
      /\ pending' # <<>> => Cardinality(running') = PoolSize
  BY <1>1, Dispatched
<1>3. PoolTypeOK(Scans)'
  BY <1>1, <1>2 DEF PoolTypeOK
<1>4. In("extract")' = Range(pending') \cup running'
  BY <1>2
<1>5. JobsAccounted'
  BY <1>2, <1>4 DEF JobsAccounted, In, IsInjective, Range
<1> QED
  BY <1>1, <1>3, <1>5 DEF PoolOK

LEMMA PoolSubmit ==
  ASSUME PoolOK, NEW s \in Scans, stage[s] # "extract", Submit(s),
         In("extract")' = In("extract") \cup {s}
  PROVE  PoolOK'
<1> DEFINE line == Append(pending, s)
<1>1. pool = "open" /\ ~(Len(pending) >= MaxPending) /\ UNCHANGED pool
  BY DEF Submit, Refuses, PoolOK, PoolTypeOK
<1>2. s \notin In("extract")
  BY DEF In
<1>3. /\ line \in Seq(Scans) /\ Len(line) = Len(pending) + 1 /\ IsInjective(line)
      /\ Range(line) = Range(pending) \cup {s}
  BY <1>2, PoolFacts, RangeAppend, InjectiveAppend
<1>4. Dispatch(line, running, idle)
  BY DEF Submit
<1> HIDE DEF line
<1>5. Len(line) <= MaxPending
  BY <1>1, <1>3, PoolFacts, PoolAssumption
<1>6. Range(line) \cap running = {} /\ In("extract")' = Range(line) \cup running
  BY <1>2, <1>3, PoolFacts
<1> QED
  BY <1>1, <1>3, <1>4, <1>5, <1>6, PoolFacts, PoolDispatched

\* The thread of a job is idle again, or gone.
LEMMA PoolSettled ==
  ASSUME PoolOK, NEW s \in Scans, Answered(s) \/ ThreadLost(s),
         In("extract")' = In("extract") \ {s}
  PROVE  PoolOK'
<1>1. PICK free \in {idle, idle + 1} : Dispatch(pending, running \ {s}, free)
  BY DEF Answered, ThreadLost
<1>2. s \in running /\ UNCHANGED pool
  BY DEF Answered, ThreadLost
<1>3. pool = "open"
  BY <1>2 DEF PoolOK, PoolTypeOK
<1>4. Cardinality(running \ {s}) = Cardinality(running) - 1
  BY <1>2, PoolFacts, FS_RemoveElement
<1>5. free \in Nat /\ free + Cardinality(running \ {s}) <= PoolSize
  BY <1>4, PoolFacts
<1>6. /\ running \ {s} \in SUBSET Scans /\ Range(pending) \cap (running \ {s}) = {}
      /\ In("extract")' = Range(pending) \cup (running \ {s})
  BY <1>2, PoolFacts
<1> QED
  BY <1>1, <1>2, <1>3, <1>5, <1>6, PoolFacts, PoolDispatched

LEMMA PoolIdleLost ==
  ASSUME PoolOK, IdleThreadLost, In("extract")' = In("extract")
  PROVE  PoolOK'
<1>1. idle > 0 /\ Dispatch(pending, running, idle - 1) /\ UNCHANGED pool
  BY DEF IdleThreadLost
<1>2. pool = "open"
  BY <1>1 DEF PoolOK, PoolTypeOK
<1>3. idle - 1 \in Nat /\ (idle - 1) + Cardinality(running) <= PoolSize
  BY <1>1, PoolFacts
<1> QED
  BY <1>1, <1>2, <1>3, PoolFacts, PoolDispatched

\* The destruction rejects every job.
LEMMA PoolDestroy ==
  ASSUME PoolOK, Destroy \/ Destroyed,
         In("extract")' = In("extract") \ (Range(pending) \cup running)
  PROVE  PoolOK'
<1>1. pending' = <<>> /\ running' = {} /\ idle' = 0 /\ pool' \in {"open", "closing"}
  BY DEF Destroy, Destroyed, PoolOK
<1>2. /\ Range(<<>>) = {} /\ IsInjective(<<>>) /\ <<>> \in Seq(Scans) /\ Len(<<>>) = 0
      /\ Cardinality({}) = 0
  BY FS_EmptySet DEF Range, IsInjective
<1>3. In("extract")' = {}
  BY PoolFacts
<1>4. PoolTypeOK(Scans)'
  BY <1>1, <1>2, PoolAssumption DEF PoolTypeOK
<1>5. JobsAccounted'
  BY <1>1, <1>2, <1>3 DEF JobsAccounted, In
<1> QED
  BY <1>1, <1>4, <1>5 DEF PoolOK

LEMMA PoolKept ==
  ASSUME PoolOK, UNCHANGED poolVars, In("extract")' = In("extract")
  PROVE  PoolOK'
<1>1. pending' = pending /\ running' = running /\ idle' = idle /\ pool' = pool
  BY DEF poolVars
<1>2. PoolTypeOK(Scans)'
  BY <1>1 DEF PoolOK, PoolTypeOK
<1>3. JobsAccounted'
  BY <1>1 DEF PoolOK, JobsAccounted, In
<1> QED
  BY <1>1, <1>2, <1>3 DEF PoolOK

-----------------------------------------------------------------------------
(* The slots' part of the invariant *)

SlotOK == SlotsTypeOK(Scans) /\ SandboxBounded /\ IsInjective(slotLine)

Runs == In("first") \cup In("inline")

LEMMA SlotFacts ==
  ASSUME SlotOK
  PROVE  /\ slots \in Nat /\ slots <= SandboxMax /\ SandboxMax \in Nat
         /\ slotLine \in Seq(Scans) /\ IsInjective(slotLine)
         /\ Runs \in SUBSET Scans /\ IsFiniteSet(Runs) /\ Cardinality(Runs) \in Nat
         /\ Cardinality(Runs) <= slots
         /\ In("slot") = Range(slotLine)
         /\ slotLine # <<>> => slots = SandboxMax
<1>1. Runs = SandboxRuns
  BY DEF Runs, In, SandboxRuns
<1>2. Runs \in SUBSET Scans
  BY DEF Runs, In
<1>3. IsFiniteSet(Runs) /\ Cardinality(Runs) \in Nat
  BY <1>2, GovernorAssumption, FS_Subset, FS_CardinalityType
<1> QED
  BY <1>1, <1>2, <1>3, SandboxAssumption DEF SlotOK, SlotsTypeOK, SandboxBounded, In

\* What is left to show of a step: the runs, the line and the slots after it.
LEMMA SlotShown ==
  ASSUME slots' \in 0..SandboxMax, slotLine' \in Seq(Scans), IsInjective(slotLine'),
         NEW R, Runs' = R, Cardinality(R) <= slots',
         In("slot")' = Range(slotLine'), slotLine' # <<>> => slots' = SandboxMax
  PROVE  SlotOK'
<1>1. SandboxRuns' = R
  BY DEF Runs, In, SandboxRuns
<1>2. SandboxBounded'
  BY <1>1 DEF SandboxBounded, In, Range
<1> QED
  BY <1>2 DEF SlotOK, SlotsTypeOK, IsInjective

LEMMA SlotKept ==
  ASSUME SlotOK, UNCHANGED sandboxVars, Runs' \in SUBSET Runs, In("slot")' = In("slot")
  PROVE  SlotOK'
<1>1. slots' = slots /\ slotLine' = slotLine
  BY DEF sandboxVars
<1>2. Cardinality(Runs') <= Cardinality(Runs) /\ Cardinality(Runs') \in Nat
  BY SlotFacts, FS_Subset, FS_CardinalityType
<1>3. Cardinality(Runs') <= slots' /\ slots' \in 0..SandboxMax
  BY <1>1, <1>2, SlotFacts
<1> DEFINE R == Runs'
<1>4. Runs' = R /\ Cardinality(R) <= slots'
  BY <1>3
<1> HIDE DEF R
<1> QED
  BY <1>1, <1>3, <1>4, SlotFacts, SlotShown

LEMMA AtMostOneMore ==
  ASSUME NEW S, IsFiniteSet(S), NEW x
  PROVE  Cardinality(S \cup {x}) \in Nat /\ Cardinality(S \cup {x}) <= Cardinality(S) + 1
<1>1. /\ IsFiniteSet(S \cup {x}) /\ Cardinality(S) \in Nat
      /\ Cardinality(S \cup {x}) = IF x \in S THEN Cardinality(S) ELSE Cardinality(S) + 1
  BY FS_AddElement, FS_CardinalityType
<1> QED
  BY <1>1

LEMMA SlotGiven ==
  ASSUME SlotOK, NEW s \in Scans, SlotTaken,
         Runs' = Runs \cup {s}, In("slot")' = In("slot")
  PROVE  SlotOK'
<1>1. slots < SandboxMax /\ slots' = slots + 1 /\ slotLine' = slotLine
  BY DEF SlotTaken
<1>2. slots' \in 0..SandboxMax /\ slotLine = <<>>
  BY <1>1, SlotFacts
<1>3. Cardinality(Runs \cup {s}) <= Cardinality(Runs) + 1 /\ Cardinality(Runs \cup {s}) \in Nat
  BY SlotFacts, AtMostOneMore
<1>4. Cardinality(Runs \cup {s}) <= slots'
  BY <1>1, <1>3, SlotFacts
<1>5. slotLine' \in Seq(Scans) /\ IsInjective(slotLine') /\ In("slot")' = Range(slotLine')
  BY <1>1, SlotFacts
<1> DEFINE R == Runs \cup {s}
<1>6. Runs' = R /\ Cardinality(R) <= slots'
  BY <1>4
<1> HIDE DEF R
<1> QED
  BY <1>1, <1>2, <1>5, <1>6, SlotShown

LEMMA SlotWait ==
  ASSUME SlotOK, NEW s \in Scans, s \notin In("slot"), SlotAwaited(s),
         Runs' = Runs, In("slot")' = In("slot") \cup {s}
  PROVE  SlotOK'
<1>1. slots = SandboxMax /\ slots' = slots /\ slotLine' = Append(slotLine, s)
  BY DEF SlotAwaited
<1>2. /\ slotLine' \in Seq(Scans) /\ IsInjective(slotLine')
      /\ Range(slotLine') = Range(slotLine) \cup {s}
  BY <1>1, SlotFacts, RangeAppend, InjectiveAppend
<1>3. slots' \in 0..SandboxMax /\ slots' = SandboxMax /\ Cardinality(Runs) <= slots'
  BY <1>1, SlotFacts
<1>4. In("slot")' = Range(slotLine')
  BY <1>2, SlotFacts
<1> HIDE DEF Runs
<1> QED
  BY <1>2, <1>3, <1>4, SlotShown

\* The slot of a first version's run goes to the head of the line, or back.
LEMMA SlotPassed ==
  ASSUME SlotOK, NEW s \in In("first"), SlotReleased,
         slotLine = <<>> => Runs' = Runs \ {s} /\ In("slot")' = In("slot"),
         slotLine # <<>> => /\ Runs' = (Runs \ {s}) \cup {Head(slotLine)}
                            /\ In("slot")' = In("slot") \ {Head(slotLine)}
  PROVE  SlotOK'
<1>1. s \in Runs
  BY DEF Runs
<1>2. /\ IsFiniteSet(Runs \ {s}) /\ Cardinality(Runs \ {s}) = Cardinality(Runs) - 1
  BY <1>1, SlotFacts, FS_RemoveElement
<1>3. Cardinality(Runs \ {s}) \in Nat
  BY <1>2, FS_CardinalityType
<1>4. CASE slotLine = <<>>
  <2>1. slots' = slots - 1 /\ slotLine' = slotLine
    BY <1>4 DEF SlotReleased
  <2>2. slots' \in 0..SandboxMax /\ Cardinality(Runs \ {s}) <= slots'
    BY <1>2, <1>3, <2>1, SlotFacts
  <2>3. /\ slotLine' \in Seq(Scans) /\ IsInjective(slotLine') /\ In("slot")' = Range(slotLine')
        /\ slotLine' = <<>>
    BY <1>4, <2>1, SlotFacts
  <2> DEFINE R == Runs \ {s}
  <2>4. Runs' = R /\ Cardinality(R) <= slots'
    BY <1>4, <2>2
  <2> HIDE DEF R
  <2> QED
    BY <2>2, <2>3, <2>4, SlotShown
<1>5. CASE slotLine # <<>>
  <2>1. slots' = slots /\ slotLine' = Tail(slotLine)
    BY <1>5 DEF SlotReleased
  <2>2. /\ slotLine' \in Seq(Scans) /\ IsInjective(slotLine')
        /\ Range(slotLine') = Range(slotLine) \ {Head(slotLine)}
    BY <1>5, <2>1, SlotFacts, InjectiveTail
  <2> DEFINE R == (Runs \ {s}) \cup {Head(slotLine)}
  <2>3. Cardinality(R) <= Cardinality(Runs \ {s}) + 1 /\ Cardinality(R) \in Nat
    BY <1>2, AtMostOneMore
  <2>4. Runs' = R /\ Cardinality(R) <= slots' /\ slots' \in 0..SandboxMax /\ slots' = SandboxMax
    BY <1>2, <1>3, <1>5, <2>1, <2>3, SlotFacts
  <2>5. In("slot")' = Range(slotLine')
    BY <1>5, <2>2, SlotFacts
  <2> HIDE DEF R
  <2> QED
    BY <2>2, <2>4, <2>5, SlotShown
<1> QED
  BY <1>4, <1>5

-----------------------------------------------------------------------------
(* The steps *)

ScanOK ==
  /\ stage \in [Scans -> Stages]
  /\ aborted \in SUBSET Scans
  /\ retries \in [Scans -> 0..HeavyRequeueMax]

\* Who holds what is where the scan's own course says it is.
IInv == GovOK /\ PoolOK /\ SlotOK /\ ScanOK

\* One scan moves on.
LEMMA Moved ==
  ASSUME ScanOK, NEW s \in Scans, NEW from, stage[s] = from, NEW x, from # x,
         stage' = [stage EXCEPT ![s] = x]
  PROVE  /\ In(x)' = In(x) \cup {s}
         /\ In(from)' = In(from) \ {s}
         /\ \A st : st \notin {from, x} => In(st)' = In(st)
<1>1. \A t \in Scans : stage'[t] = IF t = s THEN x ELSE stage[t]
  BY DEF ScanOK
<1>2. In(x)' = In(x) \cup {s}
  BY <1>1 DEF In
<1>3. {t \in Scans : stage'[t] = from} = {t \in Scans : stage[t] = from} \ {s}
  BY <1>1
<1>4. ASSUME NEW st, st \notin {from, x}
      PROVE  {t \in Scans : stage'[t] = st} = {t \in Scans : stage[t] = st}
  BY <1>1, <1>4
<1> QED
  BY <1>2, <1>3, <1>4 DEF In

LEMMA Stayed ==
  ASSUME stage' = stage, NEW st
  PROVE  In(st)' = In(st)
  BY DEF In

\* Those in S move on, with the waiters that a pass has woken.
LEMMA MovedWoken ==
  ASSUME IInv, NEW S \in SUBSET In("scan"), NEW x, x \notin {"scan", "wait"},
         \A t \in Scans :
           stage'[t] = IF t \in S THEN x ELSE IF t \in Woken THEN "scan" ELSE stage[t]
  PROVE  /\ In("scan")' = (In("scan") \ S) \cup Woken
         /\ In("wait")' = In("wait") \ Woken
         /\ x # "extract" => In("extract")' = In("extract")
         /\ In("slot")' = IF x = "slot" THEN In("slot") \cup S ELSE In("slot")
         /\ Runs' = IF x \in {"first", "inline"} THEN Runs \cup S ELSE Runs
<1>1. Woken \in SUBSET In("wait")
  BY DEF IInv, GovOK, Woken
<1> HIDE DEF Woken
<1>2. In("scan")' = (In("scan") \ S) \cup Woken
  BY <1>1 DEF In
<1>3. In("wait")' = In("wait") \ Woken
  BY <1>1 DEF In
<1>4. ASSUME NEW st \in {"extract", "slot", "first", "inline"}
      PROVE  \A t \in Scans : stage'[t] = st <=> stage[t] = st \/ (t \in S /\ st = x)
  <2>1. \A t \in S \cup Woken : stage[t] # st
    BY <1>1 DEF In
  <2> QED
    BY <2>1
<1>5. S \in SUBSET Scans
  BY DEF In
<1>6. x # "extract" => In("extract")' = In("extract")
  BY <1>4, <1>5 DEF In
<1>7. In("slot")' = IF x = "slot" THEN In("slot") \cup S ELSE In("slot")
  BY <1>4, <1>5 DEF In
<1>8. In("first")' = IF x = "first" THEN In("first") \cup S ELSE In("first")
  BY <1>4, <1>5 DEF In
<1>9. In("inline")' = IF x = "inline" THEN In("inline") \cup S ELSE In("inline")
  BY <1>4, <1>5 DEF In
<1>10. Runs' = IF x \in {"first", "inline"} THEN Runs \cup S ELSE Runs
  BY <1>8, <1>9 DEF Runs
<1> QED
  BY <1>2, <1>3, <1>6, <1>7, <1>10

LEMMA OverFacts ==
  ASSUME ScanOK, NEW s \in Scans, Over(s)
  PROVE  ScanOK' /\ stage' = [stage EXCEPT ![s] = "out"]
  BY RequeueAssumption DEF Over, ScanOK, Stages

LEMMA MoveType ==
  ASSUME ScanOK, NEW s \in Scans, NEW x \in Stages, stage' = [stage EXCEPT ![s] = x],
         UNCHANGED <<aborted, retries>>
  PROVE  ScanOK'
  BY DEF ScanOK

-----------------------------------------------------------------------------
(* Extraction *)

LEMMA ExtractKeeps ==
  ASSUME IInv, NEW s \in Scans, Extract(s)
  PROVE  IInv'
<1>1. ScanOK /\ GovOK /\ PoolOK /\ SlotOK
  BY DEF IInv
<1>2. /\ stage[s] = "out" /\ Submit(s) /\ stage' = [stage EXCEPT ![s] = "extract"]
      /\ UNCHANGED governorVars /\ UNCHANGED sandboxVars /\ UNCHANGED <<aborted, retries>>
  BY DEF Extract
<1>3. ScanOK'
  BY <1>1, <1>2, MoveType DEF Stages
<1>5. /\ In("extract")' = In("extract") \cup {s}
      /\ In("scan")' = In("scan") /\ In("wait")' = In("wait") /\ In("slot")' = In("slot")
      /\ In("first")' = In("first") /\ In("inline")' = In("inline")
  <2>1. stage[s] = "out" /\ "out" # "extract"
    BY <1>2
  <2>2. /\ In("extract")' = In("extract") \cup {s}
        /\ \A st : st \notin {"out", "extract"} => In(st)' = In(st)
    BY <1>1, <1>2, <2>1, Moved
  <2> QED
    BY <2>2
<1>6. Runs' = Runs
  BY <1>5 DEF Runs
<1>7. GovOK'
  BY <1>1, <1>2, <1>5, GovKept
<1>8. PoolOK'
  BY <1>1, <1>2, <1>5, PoolSubmit
<1>9. SlotOK'
  BY <1>1, <1>2, <1>5, <1>6, SlotKept
<1> QED
  BY <1>3, <1>7, <1>8, <1>9 DEF IInv

LEMMA ExtractEndsKeep ==
  ASSUME IInv, NEW s \in Scans, ExtractDone(s) \/ ExtractFails(s)
  PROVE  IInv'
<1>1. ScanOK /\ GovOK /\ PoolOK /\ SlotOK
  BY DEF IInv
<1>2. /\ Answered(s) \/ ThreadLost(s)
      /\ UNCHANGED governorVars /\ UNCHANGED sandboxVars
  BY DEF ExtractDone, ExtractFails
<1>3. stage[s] = "extract"
  <2>1. s \in running
    BY <1>2 DEF Answered, ThreadLost
  <2> QED
    BY <1>1, <2>1, PoolFacts DEF In
<1>4. PICK x \in {"fetch", "out"} : stage' = [stage EXCEPT ![s] = x]
  BY DEF ExtractDone, ExtractFails, Over
<1>5. ScanOK'
  BY <1>1, OverFacts, MoveType DEF ExtractDone, ExtractFails, Stages
<1>6. "extract" # x /\ x \notin {"scan", "wait", "slot", "first", "inline"}
  OBVIOUS
<1>7. /\ In("extract")' = In("extract") \ {s}
      /\ \A st : st \notin {"extract", x} => In(st)' = In(st)
  BY <1>1, <1>3, <1>4, <1>6, Moved
<1>8. /\ In("scan")' = In("scan") /\ In("wait")' = In("wait") /\ In("slot")' = In("slot")
      /\ In("first")' = In("first") /\ In("inline")' = In("inline")
  BY <1>6, <1>7
<1>9. Runs' = Runs
  BY <1>8 DEF Runs
<1>10. GovOK'
  BY <1>1, <1>2, <1>8, GovKept
<1>11. PoolOK'
  BY <1>1, <1>2, <1>7, PoolSettled
<1>12. SlotOK'
  BY <1>1, <1>2, <1>8, <1>9, SlotKept
<1> QED
  BY <1>5, <1>10, <1>11, <1>12 DEF IInv

\* A step of the pool alone.
LEMMA PoolAloneKeeps ==
  ASSUME IInv, LosesThread \/ PoolDestroyed
  PROVE  IInv'
<1>1. ScanOK /\ GovOK /\ PoolOK /\ SlotOK
  BY DEF IInv
<1>2. /\ UNCHANGED governorVars /\ UNCHANGED sandboxVars
      /\ stage' = stage /\ UNCHANGED <<aborted, retries>>
  BY DEF LosesThread, PoolDestroyed
<1>3. \A st : In(st)' = In(st)
  BY <1>2, Stayed
<1>4. /\ In("extract")' = In("extract") /\ In("scan")' = In("scan")
      /\ In("wait")' = In("wait") /\ In("slot")' = In("slot")
      /\ In("first")' = In("first") /\ In("inline")' = In("inline")
  BY <1>3
<1>5. Runs' = Runs
  BY <1>4 DEF Runs
<1>6. ScanOK'
  BY <1>1, <1>2 DEF ScanOK
<1>7. PoolOK'
  <2>1. CASE LosesThread
    BY <1>1, <1>4, <2>1, PoolIdleLost DEF LosesThread
  <2>2. CASE PoolDestroyed
    <3>1. Destroyed /\ pending = <<>> /\ running = {}
      BY <1>1, <2>2 DEF PoolDestroyed, Destroyed, PoolOK
    <3>2. Range(pending) \cup running = {}
      BY <3>1 DEF Range
    <3>3. In("extract")' = In("extract") \ (Range(pending) \cup running)
      BY <1>4, <3>2
    <3> QED
      BY <1>1, <3>1, <3>3, PoolDestroy
  <2> QED
    BY <2>1, <2>2
<1>8. GovOK' /\ SlotOK'
  BY <1>1, <1>2, <1>4, <1>5, GovKept, SlotKept
<1> QED
  BY <1>6, <1>7, <1>8 DEF IInv

LEMMA DestroyKeeps ==
  ASSUME IInv, DestroyPool
  PROVE  IInv'
<1> DEFINE Rejected == Range(pending) \cup running
<1>1. ScanOK /\ GovOK /\ PoolOK /\ SlotOK
  BY DEF IInv
<1>2. /\ Destroy /\ UNCHANGED governorVars /\ UNCHANGED sandboxVars
      /\ stage' = [s \in Scans |-> IF s \in Rejected THEN "out" ELSE stage[s]]
      /\ aborted' = aborted \ Rejected
      /\ retries' = [s \in Scans |-> IF s \in Rejected THEN 0 ELSE retries[s]]
  BY DEF DestroyPool
<1>3. Rejected = In("extract")
  BY <1>1, PoolFacts
<1> HIDE DEF Rejected
<1>4. ScanOK'
  BY <1>1, <1>2, RequeueAssumption DEF ScanOK, Stages
<1>5. \A s \in Scans : stage'[s] = IF stage[s] = "extract" THEN "out" ELSE stage[s]
  BY <1>2, <1>3 DEF In
<1>6. In("extract")' = {}
  BY <1>5 DEF In
<1>7. /\ In("scan")' = In("scan") /\ In("wait")' = In("wait") /\ In("slot")' = In("slot")
      /\ In("first")' = In("first") /\ In("inline")' = In("inline")
  BY <1>5 DEF In
<1>8. In("extract")' = In("extract") \ (Range(pending) \cup running)
  BY <1>3, <1>6 DEF Rejected
<1>9. Runs' = Runs
  BY <1>7 DEF Runs
<1>10. GovOK'
  BY <1>1, <1>2, <1>7, GovKept
<1>11. PoolOK'
  BY <1>1, <1>2, <1>8, PoolDestroy
<1>12. SlotOK'
  BY <1>1, <1>2, <1>7, <1>9, SlotKept
<1> QED
  BY <1>4, <1>10, <1>11, <1>12 DEF IInv

-----------------------------------------------------------------------------
(* Tickets and runs *)

LEMMA AdmitKeeps ==
  ASSUME IInv, NEW s \in Scans, Admit(s)
  PROVE  IInv'
<1>1. ScanOK /\ GovOK /\ PoolOK /\ SlotOK
  BY DEF IInv
<1>2. /\ stage[s] = "fetch" /\ TicketTaken(s) /\ stage' = [stage EXCEPT ![s] = "scan"]
      /\ UNCHANGED poolVars /\ UNCHANGED sandboxVars /\ UNCHANGED <<aborted, retries>>
  BY DEF Admit
<1>3. ScanOK'
  BY <1>1, <1>2, MoveType DEF Stages
<1>4. /\ In("scan")' = In("scan") \cup {s}
      /\ \A st : st \notin {"fetch", "scan"} => In(st)' = In(st)
  <2>1. "fetch" # "scan"
    OBVIOUS
  <2> QED
    BY <1>1, <1>2, <2>1, Moved
<1>5. /\ In("extract")' = In("extract") /\ In("wait")' = In("wait") /\ In("slot")' = In("slot")
      /\ In("first")' = In("first") /\ In("inline")' = In("inline")
  BY <1>4
<1>6. Runs' = Runs
  BY <1>5 DEF Runs
<1>7. stage[s] \notin {"scan", "wait"}
  BY <1>2
<1>8. GovOK'
  BY <1>1, <1>2, <1>4, <1>5, <1>7, GovTaken
<1>9. PoolOK' /\ SlotOK'
  BY <1>1, <1>2, <1>5, <1>6, PoolKept, SlotKept
<1> QED
  BY <1>3, <1>8, <1>9 DEF IInv

LEMMA QueueKeeps ==
  ASSUME IInv, NEW s \in Scans, Queue(s)
  PROVE  IInv'
<1>1. ScanOK /\ GovOK /\ PoolOK /\ SlotOK
  BY DEF IInv
<1>2. /\ stage[s] = "fetch" /\ TicketAwaited(s) /\ stage' = [stage EXCEPT ![s] = "wait"]
      /\ UNCHANGED poolVars /\ UNCHANGED sandboxVars /\ UNCHANGED <<aborted, retries>>
  BY DEF Queue
<1>3. ScanOK'
  BY <1>1, <1>2, MoveType DEF Stages
<1>4. /\ In("wait")' = In("wait") \cup {s}
      /\ \A st : st \notin {"fetch", "wait"} => In(st)' = In(st)
  <2>1. "fetch" # "wait"
    OBVIOUS
  <2> QED
    BY <1>1, <1>2, <2>1, Moved
<1>5. /\ In("extract")' = In("extract") /\ In("scan")' = In("scan") /\ In("slot")' = In("slot")
      /\ In("first")' = In("first") /\ In("inline")' = In("inline")
  BY <1>4
<1>6. Runs' = Runs
  BY <1>5 DEF Runs
<1>7. stage[s] \notin {"scan", "wait"}
  BY <1>2
<1>8. GovOK'
  BY <1>1, <1>2, <1>4, <1>5, <1>7, GovAwaited
<1>9. PoolOK' /\ SlotOK'
  BY <1>1, <1>2, <1>5, <1>6, PoolKept, SlotKept
<1> QED
  BY <1>3, <1>8, <1>9 DEF IInv

\* A scan that is refused its ticket, or whose sandbox run without a slot is over.
LEMMA LeavesKeep ==
  ASSUME IInv, NEW s \in Scans, Refused(s) \/ InlineRunEnds(s)
  PROVE  IInv'
<1>1. ScanOK /\ GovOK /\ PoolOK /\ SlotOK
  BY DEF IInv
<1>2. PICK from \in {"fetch", "inline"} : stage[s] = from
  BY DEF Refused, InlineRunEnds
<1>3. /\ stage' = [stage EXCEPT ![s] = "out"]
      /\ UNCHANGED governorVars /\ UNCHANGED poolVars /\ UNCHANGED sandboxVars
  BY DEF Refused, InlineRunEnds, Over
<1>4. ScanOK'
  BY <1>1, OverFacts, MoveType DEF Refused, InlineRunEnds, Stages
<1>5. from # "out" /\ from \notin {"scan", "wait", "slot", "first", "extract"}
  OBVIOUS
<1>6. /\ In(from)' = In(from) \ {s}
      /\ \A st : st \notin {from, "out"} => In(st)' = In(st)
  BY <1>1, <1>2, <1>3, <1>5, Moved
<1>7. /\ In("extract")' = In("extract") /\ In("scan")' = In("scan") /\ In("wait")' = In("wait")
      /\ In("slot")' = In("slot") /\ In("first")' = In("first")
  BY <1>5, <1>6
<1>8. In("inline")' \in SUBSET In("inline")
  BY <1>6
<1>9. Runs' \in SUBSET Runs
  BY <1>7, <1>8 DEF Runs
<1>10. GovOK' /\ PoolOK' /\ SlotOK'
  BY <1>1, <1>3, <1>7, <1>9, GovKept, PoolKept, SlotKept
<1> QED
  BY <1>4, <1>10 DEF IInv

\* A waiter that leaves by its timeout or the abort, and an abort elsewhere.
LEMMA WaiterLeavesKeeps ==
  ASSUME IInv, NEW s \in Scans, Abort(s) \/ WaitTimeout(s)
  PROVE  IInv'
<1>1. ScanOK /\ GovOK /\ PoolOK /\ SlotOK
  BY DEF IInv
<1>2. UNCHANGED poolVars /\ UNCHANGED sandboxVars
  BY DEF Abort, WaitTimeout
<1>3. CASE stage[s] # "wait"
  <2>1. stage' = stage /\ UNCHANGED governorVars /\ aborted' = aborted \cup {s} /\ retries' = retries
    BY <1>3 DEF Abort, WaitTimeout
  <2>2. \A st : In(st)' = In(st)
    BY <2>1, Stayed
  <2>3. /\ In("extract")' = In("extract") /\ In("scan")' = In("scan")
        /\ In("wait")' = In("wait") /\ In("slot")' = In("slot")
        /\ In("first")' = In("first") /\ In("inline")' = In("inline")
    BY <2>2
  <2>4. Runs' = Runs
    BY <2>3 DEF Runs
  <2>5. ScanOK'
    BY <1>1, <2>1 DEF ScanOK
  <2> QED
    BY <1>1, <1>2, <2>1, <2>3, <2>4, <2>5, GovKept, PoolKept, SlotKept DEF IInv
<1>4. CASE stage[s] = "wait"
  <2>1. TicketRefused(s) /\ stage' = [stage EXCEPT ![s] = "out"]
    BY <1>4 DEF Abort, WaitTimeout, Over
  <2>2. ScanOK'
    <3>1. CASE Abort(s)
      BY <1>1, <1>4, <3>1, OverFacts DEF Abort
    <3>2. CASE WaitTimeout(s)
      <4>1. /\ retries[s] < HeavyRequeueMax
            /\ stage' = [stage EXCEPT ![s] = "out"] /\ aborted' = aborted \ {s}
            /\ retries' = [retries EXCEPT ![s] = retries[s] + 1]
        BY <3>2 DEF WaitTimeout
      <4>2. retries[s] + 1 \in 0..HeavyRequeueMax
        BY <1>1, <4>1, RequeueAssumption DEF ScanOK
      <4> QED
        BY <1>1, <4>1, <4>2 DEF ScanOK, Stages
    <3> QED
      BY <3>1, <3>2
  <2>3. /\ In("wait")' = In("wait") \ {s}
        /\ \A st : st \notin {"wait", "out"} => In(st)' = In(st)
    <3>1. "wait" # "out"
      OBVIOUS
    <3> QED
      BY <1>1, <1>4, <2>1, <3>1, Moved
  <2>4. /\ In("extract")' = In("extract") /\ In("scan")' = In("scan") /\ In("slot")' = In("slot")
        /\ In("first")' = In("first") /\ In("inline")' = In("inline")
    BY <2>3
  <2>5. Runs' = Runs
    BY <2>4 DEF Runs
  <2>6. GovOK'
    BY <1>1, <2>1, <2>3, <2>4, GovRefused
  <2> QED
    BY <1>1, <1>2, <2>2, <2>4, <2>5, <2>6, PoolKept, SlotKept DEF IInv
<1> QED
  BY <1>3, <1>4

LEMMA StaticEndsKeeps ==
  ASSUME IInv, NEW s \in Scans, StaticEnds(s)
  PROVE  IInv'
<1>1. ScanOK /\ GovOK /\ PoolOK /\ SlotOK
  BY DEF IInv
<1>2. /\ stage[s] = "scan" /\ TicketReleased(s) /\ aborted' = aborted \ {s}
      /\ retries' = [retries EXCEPT ![s] = 0] /\ UNCHANGED poolVars
  BY DEF StaticEnds
<1>3. PICK x \in {"out", "first", "slot", "inline"} :
        /\ stage' = [t \in Scans |->
             IF t = s THEN x ELSE IF t \in Woken THEN "scan" ELSE stage[t]]
        /\ x = "out" => UNCHANGED sandboxVars
        /\ x \in {"first", "inline"} => SlotTaken
        /\ x = "slot" => SlotAwaited(s)
  BY DEF StaticEnds
<1>4. \A t \in Scans :
        stage'[t] = IF t \in {s} THEN x ELSE IF t \in Woken THEN "scan" ELSE stage[t]
  BY <1>3
<1>5. {s} \in SUBSET In("scan") /\ x \notin {"scan", "wait"} /\ x # "extract"
  BY <1>2 DEF In
<1>6. /\ In("scan")' = (In("scan") \ {s}) \cup Woken
      /\ In("wait")' = In("wait") \ Woken
      /\ In("extract")' = In("extract")
      /\ In("slot")' = IF x = "slot" THEN In("slot") \cup {s} ELSE In("slot")
      /\ Runs' = IF x \in {"first", "inline"} THEN Runs \cup {s} ELSE Runs
  BY <1>4, <1>5, MovedWoken
<1>7. ScanOK'
  BY <1>1, <1>2, <1>3, RequeueAssumption DEF ScanOK, Stages
<1>8. GovOK'
  BY <1>1, <1>2, <1>6, GovReleased
<1>9. PoolOK'
  BY <1>1, <1>2, <1>6, PoolKept
<1>10. SlotOK'
  <2>1. CASE x = "out"
    <3>1. Runs' \in SUBSET Runs /\ In("slot")' = In("slot") /\ UNCHANGED sandboxVars
      BY <1>3, <1>6, <2>1
    <3> QED
      BY <1>1, <3>1, SlotKept
  <2>2. CASE x \in {"first", "inline"}
    <3>1. Runs' = Runs \cup {s} /\ In("slot")' = In("slot") /\ SlotTaken
      BY <1>3, <1>6, <2>2
    <3> QED
      BY <1>1, <3>1, SlotGiven
  <2>3. CASE x = "slot"
    <3>1. Runs' = Runs /\ In("slot")' = In("slot") \cup {s} /\ SlotAwaited(s)
      BY <1>3, <1>6, <2>3
    <3>2. s \notin In("slot")
      BY <1>2 DEF In
    <3> QED
      BY <1>1, <3>1, <3>2, SlotWait
  <2> QED
    BY <2>1, <2>2, <2>3
<1> QED
  BY <1>7, <1>8, <1>9, <1>10 DEF IInv

LEMMA RssKeeps ==
  ASSUME IInv, Rss
  PROVE  IInv'
<1>1. ScanOK /\ GovOK /\ PoolOK /\ SlotOK
  BY DEF IInv
<1>2. PICK ice \in BOOLEAN, left \in Budgets : UpdateRss(ice, left)
  BY DEF Rss
<1>3. /\ stage' = [s \in Scans |-> IF s \in Woken THEN "scan" ELSE stage[s]]
      /\ UNCHANGED poolVars /\ UNCHANGED sandboxVars /\ UNCHANGED <<aborted, retries>>
  BY DEF Rss
<1>4. \A t \in Scans :
        stage'[t] = IF t \in {} THEN "out" ELSE IF t \in Woken THEN "scan" ELSE stage[t]
  BY <1>3
<1>5. {} \in SUBSET In("scan") /\ "out" \notin {"scan", "wait", "extract", "slot", "first", "inline"}
  OBVIOUS
<1>6. /\ In("scan")' = (In("scan") \ {}) \cup Woken
      /\ In("wait")' = In("wait") \ Woken
      /\ "out" # "extract" => In("extract")' = In("extract")
      /\ In("slot")' = IF "out" = "slot" THEN In("slot") \cup {} ELSE In("slot")
      /\ Runs' = IF "out" \in {"first", "inline"} THEN Runs \cup {} ELSE Runs
  BY <1>4, <1>5, MovedWoken
<1>7. /\ In("scan")' = In("scan") \cup Woken /\ In("extract")' = In("extract")
      /\ In("slot")' = In("slot") /\ Runs' = Runs
  BY <1>6
<1>8. GovOK'
  BY <1>1, <1>2, <1>6, <1>7, GovSample
<1>9. ScanOK'
  BY <1>1, <1>3 DEF ScanOK, Stages
<1> QED
  BY <1>1, <1>3, <1>7, <1>8, <1>9, PoolKept, SlotKept DEF IInv

LEMMA FirstRunEndsKeeps ==
  ASSUME IInv, NEW s \in Scans, FirstRunEnds(s)
  PROVE  IInv'
<1>1. ScanOK /\ GovOK /\ PoolOK /\ SlotOK
  BY DEF IInv
<1> DEFINE S == IF slotLine # <<>> THEN {Head(slotLine)} ELSE {}
<1>2. /\ stage[s] = "first" /\ SlotReleased
      /\ stage' = [t \in Scans |->
           IF t = s THEN "out" ELSE IF slotLine # <<>> /\ t = Head(slotLine) THEN "first" ELSE stage[t]]
      /\ UNCHANGED governorVars /\ UNCHANGED poolVars /\ UNCHANGED <<aborted, retries>>
  BY DEF FirstRunEnds
<1>3. \A t \in Scans : stage'[t] = IF t = s THEN "out" ELSE IF t \in S THEN "first" ELSE stage[t]
  BY <1>2
<1>4. S \in SUBSET In("slot")
  <2>1. ASSUME slotLine # <<>> PROVE Head(slotLine) \in In("slot")
    BY <1>1, <2>1, SlotFacts, InjectiveTail
  <2> QED
    BY <2>1
<1>5. ScanOK'
  BY <1>1, <1>2 DEF ScanOK, Stages
<1> HIDE DEF S
<1>6. \A t \in S : stage[t] = "slot"
  BY <1>4 DEF In
<1>7. /\ In("scan")' = In("scan") /\ In("wait")' = In("wait") /\ In("extract")' = In("extract")
      /\ In("inline")' = In("inline")
  BY <1>2, <1>3, <1>6 DEF In
<1>8. In("slot")' = In("slot") \ S
  BY <1>2, <1>3, <1>6 DEF In
<1>9. In("first")' = (In("first") \ {s}) \cup S
  BY <1>2, <1>3, <1>4, <1>6 DEF In
<1>10. Runs' = (Runs \ {s}) \cup S
  <2>1. s \notin In("inline")
    BY <1>2 DEF In
  <2> QED
    BY <1>7, <1>9, <2>1 DEF Runs
<1>11. SlotOK'
  <2>1. s \in In("first")
    BY <1>2 DEF In
  <2>2. slotLine = <<>> => Runs' = Runs \ {s} /\ In("slot")' = In("slot")
    BY <1>8, <1>10 DEF S
  <2>3. slotLine # <<>> => /\ Runs' = (Runs \ {s}) \cup {Head(slotLine)}
                           /\ In("slot")' = In("slot") \ {Head(slotLine)}
    BY <1>8, <1>10 DEF S
  <2> QED
    BY <1>1, <1>2, <2>1, <2>2, <2>3, SlotPassed
<1> QED
  BY <1>1, <1>2, <1>5, <1>7, <1>11, GovKept, PoolKept DEF IInv

LEMMA InitIInv == Init => IInv
<1> SUFFICES ASSUME Init PROVE IInv
  OBVIOUS
<1>1. /\ gov = Nothing /\ waiters = <<>> /\ sampled = FALSE /\ budget = 0 /\ frozen = FALSE
      /\ pending = <<>> /\ running = {} /\ idle = 0 /\ pool = "open"
      /\ slots = 0 /\ slotLine = <<>>
      /\ stage = [s \in Scans |-> "out"] /\ aborted = {} /\ retries = [s \in Scans |-> 0]
  BY DEF Init, GovernorInit, PoolInit, SlotsInit, Nothing
<1>2. \A st : st # "out" => In(st) = {}
  BY <1>1 DEF In
<1>3. /\ Range(<<>>) = {} /\ IsInjective(<<>>) /\ Len(<<>>) = 0 /\ <<>> \in Seq(Scans)
      /\ Cardinality({}) = 0
  BY FS_EmptySet DEF Range, IsInjective
<1>4. Accounts(gov, {})
  <2>1. \A c \in Classes : Sum({}, c) = 0
    <3>1. ASSUME NEW c \in Classes PROVE Sum({}, c) = 0
      <4>1. OfClass({}, c) = {} /\ Mb[c] \in Nat
        BY GovernorAssumption DEF OfClass
      <4> QED
        BY <1>3, <4>1, OneMore DEF Sum
    <3> QED
      BY <3>1
  <2> QED
    BY <1>1, <1>3, <2>1 DEF Accounts, Counters, Nothing, Classes
<1>5. GovOK
  BY <1>1, <1>2, <1>3, <1>4 DEF GovOK, GovernorTypeOK, GovernorMoves, Nothing
<1>6. PoolOK
  <2>1. PoolTypeOK(Scans)
    BY <1>1, <1>3, PoolAssumption DEF PoolTypeOK
  <2>2. {s \in Scans : stage[s] = "extract"} = {}
    BY <1>1
  <2>3. JobsAccounted
    BY <1>1, <1>3, <2>2 DEF JobsAccounted
  <2> QED
    BY <1>1, <2>1, <2>3 DEF PoolOK
<1>7. SlotOK
  <2>1. SandboxRuns = {} /\ {s \in Scans : stage[s] = "slot"} = {}
    BY <1>1 DEF SandboxRuns
  <2>2. SandboxBounded
    BY <1>1, <1>3, <2>1 DEF SandboxBounded
  <2> QED
    BY <1>1, <1>3, <2>2, SandboxAssumption DEF SlotOK, SlotsTypeOK
<1>8. ScanOK
  BY <1>1, RequeueAssumption DEF ScanOK, Stages
<1> QED
  BY <1>5, <1>6, <1>7, <1>8 DEF IInv

LEMMA IInvStep == IInv /\ [Next]_vars => IInv'
<1> SUFFICES ASSUME IInv, [Next]_vars PROVE IInv'
  OBVIOUS
<1>1. ASSUME NEW s \in Scans, Extract(s) PROVE IInv'
  BY <1>1, ExtractKeeps
<1>2. ASSUME NEW s \in Scans, ExtractDone(s) \/ ExtractFails(s) PROVE IInv'
  BY <1>2, ExtractEndsKeep
<1>3. ASSUME NEW s \in Scans, Admit(s) PROVE IInv'
  BY <1>3, AdmitKeeps
<1>4. ASSUME NEW s \in Scans, Queue(s) PROVE IInv'
  BY <1>4, QueueKeeps
<1>5. ASSUME NEW s \in Scans, Refused(s) \/ InlineRunEnds(s) PROVE IInv'
  BY <1>5, LeavesKeep
<1>6. ASSUME NEW s \in Scans, Abort(s) \/ WaitTimeout(s) PROVE IInv'
  BY <1>6, WaiterLeavesKeeps
<1>7. ASSUME NEW s \in Scans, StaticEnds(s) PROVE IInv'
  BY <1>7, StaticEndsKeeps
<1>8. ASSUME NEW s \in Scans, FirstRunEnds(s) PROVE IInv'
  BY <1>8, FirstRunEndsKeeps
<1>9. ASSUME LosesThread \/ PoolDestroyed PROVE IInv'
  BY <1>9, PoolAloneKeeps
<1>10. ASSUME DestroyPool PROVE IInv'
  BY <1>10, DestroyKeeps
<1>11. ASSUME Rss PROVE IInv'
  BY <1>11, RssKeeps
<1>12. ASSUME UNCHANGED vars PROVE IInv'
  <2>1. /\ UNCHANGED governorVars /\ UNCHANGED poolVars /\ UNCHANGED sandboxVars
        /\ stage' = stage /\ UNCHANGED <<aborted, retries>>
    BY <1>12 DEF vars, governorVars, poolVars, sandboxVars
  <2>2. \A st : In(st)' = In(st)
    BY <2>1, Stayed
  <2>3. /\ In("extract")' = In("extract") /\ In("scan")' = In("scan")
        /\ In("wait")' = In("wait") /\ In("slot")' = In("slot")
        /\ In("first")' = In("first") /\ In("inline")' = In("inline")
    BY <2>2
  <2>4. Runs' = Runs
    BY <2>3 DEF Runs
  <2>5. ScanOK'
    BY <2>1 DEF IInv, ScanOK
  <2>6. ScanOK /\ GovOK /\ PoolOK /\ SlotOK
    BY DEF IInv
  <2> QED
    BY <2>1, <2>3, <2>4, <2>5, <2>6, GovKept, PoolKept, SlotKept DEF IInv
<1> QED
  BY <1>1, <1>2, <1>3, <1>4, <1>5, <1>6, <1>7, <1>8, <1>9, <1>10, <1>11, <1>12 DEF Next

-----------------------------------------------------------------------------
(* The theorems *)

LEMMA Invariant == Spec => []IInv
<1> QED
  BY InitIInv, IInvStep, PTL DEF Spec

\* The state keeps its types: the queue of the pool within its cap, the threads within the
\* pool's size, the slots within theirs, the counters natural numbers although releases
\* subtract from them.
THEOREM ResourceTypes == Spec => []TypeOK
<1>1. IInv => TypeOK
  BY DEF IInv, GovOK, PoolOK, SlotOK, ScanOK, TypeOK
<1> QED
  BY <1>1, Invariant, PTL

\* Whatever the sizes, the budget and the order of grants, aborts, timeouts, passes, lost
\* threads and destroyed pools: the governor's counters are the sums over the scans that run,
\* every extraction is in one place of the pool, and the slots cover the sandbox's runs.
THEOREM ResourcesKept == Spec => []ResourcesAccounted
<1>1. IInv => TicketsAccounted
  <2>1. SUFFICES ASSUME IInv PROVE TicketsAccounted
    OBVIOUS
  <2>2. Accounts(gov, In("scan"))
    BY <2>1 DEF IInv, GovOK
  <2>3. Holders = In("scan")
    BY DEF Holders, In
  <2>4. ASSUME NEW c PROVE MbHeld(c) = Sum(In("scan"), c)
    BY <2>3 DEF MbHeld, Held, Sum, OfClass
  <2> QED
    BY <2>2, <2>3, <2>4 DEF TicketsAccounted, Accounts
<1>2. IInv => JobsAccounted /\ SandboxBounded
  BY DEF IInv, PoolOK, SlotOK
<1>3. IInv => ResourcesAccounted
  BY <1>1, <1>2 DEF ResourcesAccounted
<1> QED
  BY <1>3, Invariant, PTL

\* No waiter is left behind by a release, a thaw or the first sample: it is blocked, and by
\* a scan that will release its ticket unless the budget is too small for it alone.
THEOREM WaitersBlocked == Spec => []GovernorMoves
<1>1. IInv => GovernorMoves
  BY DEF IInv, GovOK
<1> QED
  BY <1>1, Invariant, PTL

=============================================================================
