---------------------------- MODULE OutcomeProofs ----------------------------
(***************************************************************************)
(* Proofs about what comes of a scan: its score (Scoring) and what the     *)
(* monitor keeps on disk (Stores).                                         *)
(*                                                                         *)
(* The score, for every package, every rule's confidence and every table   *)
(* of types, exemptions and compounds.  What it is made of stays opaque:   *)
(* every pass clamps what it computes, and the floors depend on the        *)
(* findings the passes left, which no pass after the calculation touches.  *)
(*                                                                         *)
(* The stores, for every set of suspects and keys, every retention, every  *)
(* cap of the ledger and every number of faults.                           *)
(***************************************************************************)
EXTENDS Scoring, Stores, SelectionProofs

-----------------------------------------------------------------------------
(* The score *)

LEMMA CappedType == \A x : Capped(x) \in 0..100
  BY DEF Capped

LEMMA CalculatedType == \A fs, intent : calculateRiskScore(fs, intent) \in 0..100
<1> SUFFICES ASSUME NEW fs, NEW intent
             PROVE  calculateRiskScore(fs, intent) \in 0..100
  OBVIOUS
<1> DEFINE sum == maxFileScore(fs) + crossFileBonus(fs) + Least(intent, 30)
                    + packageScore(fs) + lifecycleBoost(fs) + degradedScore(fs)
<1>1. Capped(sum) \in 0..100
  BY CappedType
<1>2. calculateRiskScore(fs, intent) =
        IF AboveCeiling(fs) THEN Capped(sum) ELSE Least(Capped(sum), 35)
  BY DEF calculateRiskScore
<1> HIDE DEF sum
<1> QED
  BY <1>1, <1>2 DEF Least

\* Whatever its findings are, each pass over a score returns a score.
LEMMA PassesType ==
  ASSUME NEW fs, NEW s \in 0..100
  PROVE  /\ \A caps \in CapSets : applyContextualFPCaps(fs, s, caps) \in 0..100
         /\ \A p : applyMatureStableCap(fs, s, p) \in 0..100
         /\ applySingleFireCriticalFloor(fs, s) \in 0..100
         /\ \A p : applyReputationFactor(fs, s, p) \in 0..100
         /\ \A verdict \in Verdicts : applySandboxVerdict(s, verdict) \in 0..100
<1>1. ASSUME NEW caps \in CapSets
      PROVE  applyContextualFPCaps(fs, s, caps) \in 0..100
  <2> DEFINE lowered == Least(s, caps.max)
             typo == MapThenSumSet(LAMBDA i : points(fs[i]),
                OfType(fs, "typosquat_detected") \cup OfType(fs, "lifecycle_typosquat"))
  <2>1. lowered \in 0..100
    BY CapsAssumption DEF CapsAssumption, Least
  <2>2. applyContextualFPCaps(fs, s, caps) =
          IF caps.scopedTyposquat /\ "typosquat_detected" \in Types(fs)
          THEN IF lowered - typo \in 0..lowered THEN lowered - typo ELSE 0
          ELSE lowered
    BY DEF applyContextualFPCaps
  <2> HIDE DEF lowered, typo
  <2> QED
    BY <2>1, <2>2
<1>2. ASSUME NEW p
      PROVE  applyMatureStableCap(fs, s, p) \in 0..100
  BY DEF applyMatureStableCap, Least
<1>3. applySingleFireCriticalFloor(fs, s) \in 0..100
  BY DEF applySingleFireCriticalFloor, Most
<1>4. ASSUME NEW p
      PROVE  applyReputationFactor(fs, s, p) \in 0..100
  <2> DEFINE factor == reputationFactor(fs, p)
             weighed == Capped((s * factor + 5000) \div 10000)
  <2>1. weighed \in 0..100
    BY CappedType
  <2>2. applyReputationFactor(fs, s, p) =
          IF factor = 10000 THEN s
          ELSE IF hasConfirmedMalice(fs) THEN Most(weighed, 20) ELSE weighed
    BY DEF applyReputationFactor
  <2> HIDE DEF factor, weighed
  <2> QED
    BY <2>1, <2>2 DEF Most
<1>5. ASSUME NEW verdict \in Verdicts
      PROVE  applySandboxVerdict(s, verdict) \in 0..100
  BY DEF applySandboxVerdict, Verdicts, Most
<1> QED
  BY <1>1, <1>2, <1>3, <1>4, <1>5

-----------------------------------------------------------------------------
(* The findings *)

\* What no pass changes of a finding.
Alike(f, g) ==
  /\ g.type = f.type /\ g.file = f.file /\ g.note = f.note /\ g.orig = f.orig
  /\ g.compound = f.compound /\ g.unscoped = f.unscoped

\* The finding g comes of f: a type no reduction touches keeps its severity.
ComesOf(f, g) ==
  /\ g \in AFinding /\ Alike(f, g)
  /\ f.type \in Unreducible /\ f.was = NotCounted => g.sev = f.sev /\ g.was = NotCounted

\* The list b comes of the list a: findings are added at its end.
Follows(a, b) ==
  /\ b \in Seq(AFinding) /\ Len(a) <= Len(b)
  /\ \A i \in 1..Len(a) : ComesOf(a[i], b[i])

LEMMA Updated ==
  ASSUME NEW f \in AFinding
  PROVE  /\ \A s \in Severity :
              /\ [f EXCEPT !.sev = s] \in AFinding /\ Alike(f, [f EXCEPT !.sev = s])
              /\ [f EXCEPT !.sev = s].sev = s /\ [f EXCEPT !.sev = s].was = f.was
         /\ \A s \in Severity, w \in Severity \cup {NotCounted} :
              /\ [f EXCEPT !.was = w, !.sev = s] \in AFinding
              /\ Alike(f, [f EXCEPT !.was = w, !.sev = s])
              /\ [f EXCEPT !.was = w, !.sev = s].sev = s
              /\ [f EXCEPT !.was = w, !.sev = s].was = w
              /\ [f EXCEPT !.sev = s, !.was = w] = [f EXCEPT !.was = w, !.sev = s]
         /\ \A t \in Kinds :
              /\ [f EXCEPT !.by = t] \in AFinding /\ Alike(f, [f EXCEPT !.by = t])
              /\ [f EXCEPT !.by = t].sev = f.sev /\ [f EXCEPT !.by = t].was = f.was
         /\ /\ [f EXCEPT !.lone = TRUE] \in AFinding /\ Alike(f, [f EXCEPT !.lone = TRUE])
            /\ [f EXCEPT !.lone = TRUE].sev = f.sev /\ [f EXCEPT !.lone = TRUE].was = f.was
<1>1. ASSUME NEW s \in Severity
      PROVE  /\ [f EXCEPT !.sev = s] \in AFinding /\ Alike(f, [f EXCEPT !.sev = s])
             /\ [f EXCEPT !.sev = s].sev = s /\ [f EXCEPT !.sev = s].was = f.was
  BY DEF AFinding, Alike
<1>2. ASSUME NEW s \in Severity, NEW w \in Severity \cup {NotCounted}
      PROVE  /\ [f EXCEPT !.was = w, !.sev = s] \in AFinding
             /\ Alike(f, [f EXCEPT !.was = w, !.sev = s])
             /\ [f EXCEPT !.was = w, !.sev = s].sev = s
             /\ [f EXCEPT !.was = w, !.sev = s].was = w
             /\ [f EXCEPT !.sev = s, !.was = w] = [f EXCEPT !.was = w, !.sev = s]
  BY DEF AFinding, Alike
<1>3. ASSUME NEW t \in Kinds
      PROVE  /\ [f EXCEPT !.by = t] \in AFinding /\ Alike(f, [f EXCEPT !.by = t])
             /\ [f EXCEPT !.by = t].sev = f.sev /\ [f EXCEPT !.by = t].was = f.was
  BY DEF AFinding, Alike
<1>4. /\ [f EXCEPT !.lone = TRUE] \in AFinding /\ Alike(f, [f EXCEPT !.lone = TRUE])
      /\ [f EXCEPT !.lone = TRUE].sev = f.sev /\ [f EXCEPT !.lone = TRUE].was = f.was
  BY DEF AFinding, Alike
<1> QED
  BY <1>1, <1>2, <1>3, <1>4

LEMMA ComesOfItself ==
  ASSUME NEW f \in AFinding PROVE ComesOf(f, f)
  BY DEF ComesOf, Alike

LEMMA ComesOfTrans ==
  ASSUME NEW f, NEW g, NEW h, ComesOf(f, g), ComesOf(g, h)
  PROVE  ComesOf(f, h)
  BY DEF ComesOf, Alike

LEMMA FollowsItself ==
  ASSUME NEW a \in Seq(AFinding) PROVE Follows(a, a)
<1>1. \A i \in 1..Len(a) : a[i] \in AFinding
  OBVIOUS
<1> QED
  BY <1>1, ComesOfItself DEF Follows

LEMMA FollowsTrans ==
  ASSUME NEW a \in Seq(AFinding), NEW b, NEW c, Follows(a, b), Follows(b, c)
  PROVE  Follows(a, c)
<1>1. Len(a) \in Nat /\ Len(b) \in Nat /\ Len(c) \in Nat
  BY DEF Follows
<1>2. ASSUME NEW i \in 1..Len(a) PROVE ComesOf(a[i], c[i])
  <2>1. i \in 1..Len(b)
    BY <1>1 DEF Follows
  <2> QED
    BY <2>1, ComesOfTrans DEF Follows
<1> QED
  BY <1>1, <1>2 DEF Follows

\* A pass that treats every finding by itself.
LEMMA EachAlone ==
  ASSUME NEW a \in Seq(AFinding), NEW b, b = [i \in DOMAIN a |-> b[i]],
         \A i \in DOMAIN a : ComesOf(a[i], b[i])
  PROVE  Follows(a, b) /\ Len(b) = Len(a) /\ DOMAIN b = DOMAIN a
<1>1. Len(a) \in Nat /\ DOMAIN a = 1..Len(a)
  OBVIOUS
<1>2. \A i \in 1..Len(a) : b[i] \in AFinding
  BY <1>1 DEF ComesOf
<1>3. b = [i \in 1..Len(a) |-> b[i]]
  BY <1>1
<1>4. b \in Seq(AFinding) /\ Len(b) = Len(a) /\ DOMAIN b = DOMAIN a
  BY ONLY <1>1, <1>2, <1>3
<1> QED
  BY <1>1, <1>4 DEF Follows

LEMMA Extended ==
  ASSUME NEW a \in Seq(AFinding), NEW x \in Seq(AFinding)
  PROVE  /\ Follows(a, a \o x) /\ Len(a \o x) = Len(a) + Len(x)
         /\ \A i \in 1..Len(a) : (a \o x)[i] = a[i]
         /\ \A k \in 1..Len(x) : (a \o x)[Len(a) + k] = x[k]
         /\ \A j \in DOMAIN (a \o x) : j \in 1..Len(a) \/ \E k \in DOMAIN x : (a \o x)[j] = x[k]
<1> DEFINE u == a \o x
<1>1. /\ u \in Seq(AFinding) /\ Len(u) = Len(a) + Len(x) /\ Len(a) \in Nat /\ Len(x) \in Nat
      /\ \A k \in 1..Len(a) : u[k] = a[k] /\ a[k] \in AFinding
      /\ \A k \in 1..Len(x) : u[Len(a) + k] = x[k]
      /\ \A k \in 1..Len(u) : k > Len(a) => k - Len(a) \in 1..Len(x) /\ u[k] = x[k - Len(a)]
      /\ DOMAIN u = 1..Len(u) /\ DOMAIN x = 1..Len(x)
  OBVIOUS
<1> HIDE DEF u
<1>2. \A k \in 1..Len(u) : k \in 1..Len(a) \/ k > Len(a)
  BY <1>1
<1>3. \A i \in 1..Len(a) : ComesOf(a[i], u[i])
  BY <1>1, ComesOfItself
<1>4. Len(a) <= Len(u)
  BY <1>1
<1>5. Follows(a, u)
  BY <1>1, <1>3, <1>4 DEF Follows
<1>6. \A j \in DOMAIN u : j \in 1..Len(a) \/ \E k \in DOMAIN x : u[j] = x[k]
  BY <1>1, <1>2
<1> QED
  BY <1>1, <1>5, <1>6 DEF u

LEMMA Appended ==
  ASSUME NEW a \in Seq(AFinding), NEW f \in AFinding
  PROVE  /\ Follows(a, Append(a, f)) /\ Len(Append(a, f)) = Len(a) + 1
         /\ \A i \in 1..Len(a) : Append(a, f)[i] = a[i]
         /\ Append(a, f)[Len(a) + 1] = f
<1>1. /\ Append(a, f) \in Seq(AFinding) /\ Len(Append(a, f)) = Len(a) + 1 /\ Len(a) \in Nat
      /\ \A k \in 1..Len(a) : Append(a, f)[k] = a[k] /\ a[k] \in AFinding
      /\ Append(a, f)[Len(a) + 1] = f
  OBVIOUS
<1>2. \A i \in 1..Len(a) : ComesOf(a[i], Append(a, f)[i])
  BY <1>1, ComesOfItself
<1>3. Len(a) <= Len(Append(a, f))
  BY <1>1
<1> QED
  BY <1>1, <1>2, <1>3 DEF Follows

LEMMA Reported ==
  ASSUME NEW t \in Report
  PROVE  /\ Finding(t) \in AFinding
         /\ Finding(t).type = t.type /\ Finding(t).file = t.file /\ Finding(t).note = t.note
         /\ Finding(t).sev = t.sev /\ Finding(t).orig = t.sev /\ Finding(t).was = NotCounted
  BY DEF Finding, Report, AFinding
-----------------------------------------------------------------------------
(* The passes *)

LEMMA Unreducibles ==
  ASSUME NEW t \in Unreducible
  PROVE  /\ t \notin LoaderTypes /\ t \notin DOMAIN CountRules
         /\ t # "credential_regex_harvest"
         /\ t \notin DOMAIN Soften /\ t \notin DOMAIN Expected
         /\ t \in DIST_EXEMPT_TYPES /\ t \in REACHABILITY_EXEMPT_TYPES
         /\ t \in HIGH_CONFIDENCE_MALICE_TYPES \cup DELTA_IOC_EXEMPT
         /\ t \in SINGLE_FIRE_CRITICAL_TYPES /\ t # "ioc_string_match"
  BY DEF Unreducible

LEMMA Levels ==
  LOW \in Severity /\ MEDIUM \in Severity /\ HIGH \in Severity /\ CRITICAL \in Severity
  BY DEF Severity, LOW, MEDIUM, HIGH, CRITICAL

\* A finding that a pass lowers, counts or restores, replaces or discredits.
LEMMA Changed ==
  ASSUME NEW f \in AFinding
  PROVE  /\ \A s \in Severity :
              f.type \notin Unreducible \/ f.was # NotCounted
                => ComesOf(f, [f EXCEPT !.sev = s])
         /\ \A s \in Severity, w \in Severity \cup {NotCounted} :
              f.type \notin Unreducible \/ f.was # NotCounted
                => /\ ComesOf(f, [f EXCEPT !.was = w, !.sev = s])
                   /\ ComesOf(f, [f EXCEPT !.sev = s, !.was = w])
         /\ \A t \in Kinds : ComesOf(f, [f EXCEPT !.by = t])
         /\ ComesOf(f, [f EXCEPT !.lone = TRUE])
<1>1. ASSUME NEW g \in AFinding, Alike(f, g),
             f.type \in Unreducible /\ f.was = NotCounted => g.sev = f.sev /\ g.was = f.was
      PROVE  ComesOf(f, g)
  BY <1>1 DEF ComesOf
<1>2. ASSUME NEW s \in Severity, f.type \notin Unreducible \/ f.was # NotCounted
      PROVE  ComesOf(f, [f EXCEPT !.sev = s])
  <2>1. [f EXCEPT !.sev = s] \in AFinding /\ Alike(f, [f EXCEPT !.sev = s])
    BY Updated
  <2> QED
    BY <1>1, <1>2, <2>1
<1>3. ASSUME NEW s \in Severity, NEW w \in Severity \cup {NotCounted},
             f.type \notin Unreducible \/ f.was # NotCounted
      PROVE  /\ ComesOf(f, [f EXCEPT !.was = w, !.sev = s])
             /\ ComesOf(f, [f EXCEPT !.sev = s, !.was = w])
  <2>1. /\ [f EXCEPT !.was = w, !.sev = s] \in AFinding
        /\ Alike(f, [f EXCEPT !.was = w, !.sev = s])
        /\ [f EXCEPT !.sev = s, !.was = w] = [f EXCEPT !.was = w, !.sev = s]
    BY Updated
  <2> QED
    BY <1>1, <1>3, <2>1
<1>4. ASSUME NEW t \in Kinds PROVE ComesOf(f, [f EXCEPT !.by = t])
  BY <1>1, Updated
<1>5. ComesOf(f, [f EXCEPT !.lone = TRUE])
  BY <1>1, Updated
<1> QED
  BY <1>2, <1>3, <1>4, <1>5

LEMMA PluginLoaderPass ==
  ASSUME NEW fs \in Seq(AFinding)
  PROVE  /\ Follows(fs, pluginLoader(fs)) /\ DOMAIN pluginLoader(fs) = DOMAIN fs
         /\ \A i \in DOMAIN fs : fs[i].type \notin LoaderTypes => pluginLoader(fs)[i] = fs[i]
<1> DEFINE g == pluginLoader(fs)
           loads == {i \in DOMAIN fs : fs[i].type \in LoaderTypes}
           Crowded(file) == Cardinality({i \in loads : fs[i].file = file}) > LoaderMax
           Hit(i) == i \in loads /\ fs[i].sev = HIGH /\ Crowded(fs[i].file)
<1>1. g = [i \in DOMAIN fs |-> IF Hit(i) THEN [fs[i] EXCEPT !.sev = LOW] ELSE fs[i]]
  BY DEF pluginLoader
<1>2. \A i \in DOMAIN fs : Hit(i) => fs[i].type \in LoaderTypes
  OBVIOUS
<1>3. \A i \in DOMAIN fs : fs[i] \in AFinding
  OBVIOUS
<1> HIDE DEF g, Hit
<1>4. ASSUME NEW i \in DOMAIN fs PROVE ComesOf(fs[i], g[i])
  BY <1>1, <1>2, <1>3, Changed, ComesOfItself, Unreducibles, Levels
<1>5. Follows(fs, g) /\ DOMAIN g = DOMAIN fs
  BY <1>1, <1>4, EachAlone
<1> QED
  BY <1>1, <1>2, <1>5 DEF g

Counted(f) == [f EXCEPT !.was = f.sev, !.sev = LOW]
Restored(f) == [f EXCEPT !.sev = f.was, !.was = NotCounted]

LEMMA CountedFacts ==
  ASSUME NEW f \in AFinding
  PROVE  /\ Counted(f).sev = LOW /\ Counted(f).was = f.sev /\ f.sev \in Severity
         /\ f.type \notin Unreducible => ComesOf(f, Counted(f))
         /\ f.was # NotCounted =>
              /\ ComesOf(f, Restored(f))
              /\ Restored(f).sev = f.was /\ Restored(f).was = NotCounted
<1>1. /\ f.sev \in Severity /\ f.was \in Severity \cup {NotCounted}
      /\ NotCounted \in Severity \cup {NotCounted}
  BY DEF AFinding
<1>2. /\ Counted(f).sev = LOW /\ Counted(f).was = f.sev
      /\ f.type \notin Unreducible => ComesOf(f, Counted(f))
  <2>1. [f EXCEPT !.was = f.sev, !.sev = LOW].sev = LOW
        /\ [f EXCEPT !.was = f.sev, !.sev = LOW].was = f.sev
    BY DEF AFinding
  <2>2. f.type \notin Unreducible => ComesOf(f, [f EXCEPT !.was = f.sev, !.sev = LOW])
    BY <1>1, Changed, Levels
  <2> QED
    BY <2>1, <2>2 DEF Counted
<1>3. ASSUME f.was # NotCounted
      PROVE  /\ ComesOf(f, Restored(f))
             /\ Restored(f).sev = f.was /\ Restored(f).was = NotCounted
  <2>1. f.was \in Severity
    BY <1>1, <1>3
  <2>2. /\ [f EXCEPT !.sev = f.was, !.was = NotCounted].sev = f.was
        /\ [f EXCEPT !.sev = f.was, !.was = NotCounted].was = NotCounted
    BY DEF AFinding
  <2>3. ComesOf(f, [f EXCEPT !.sev = f.was, !.was = NotCounted])
    BY <1>1, <1>3, <2>1, Changed
  <2> QED
    BY <2>2, <2>3 DEF Restored
<1> QED
  BY <1>1, <1>2, <1>3

LEMMA CountThresholdPass ==
  ASSUME NEW fs \in Seq(AFinding)
  PROVE  /\ Follows(fs, countThreshold(fs)) /\ DOMAIN countThreshold(fs) = DOMAIN fs
         /\ \A i \in DOMAIN fs :
              countThreshold(fs)[i] = IF Discounted(fs, i) THEN Counted(fs[i]) ELSE fs[i]
<1> DEFINE g == countThreshold(fs)
<1>1. g = [i \in DOMAIN fs |-> IF Discounted(fs, i) THEN Counted(fs[i]) ELSE fs[i]]
  BY DEF countThreshold, Counted
<1>2. \A i \in DOMAIN fs : Discounted(fs, i) => fs[i].type \in DOMAIN CountRules
  BY DEF Discounted
<1>3. \A i \in DOMAIN fs : fs[i] \in AFinding
  OBVIOUS
<1> HIDE DEF g
<1>4. ASSUME NEW i \in DOMAIN fs PROVE ComesOf(fs[i], g[i])
  BY <1>1, <1>2, <1>3, CountedFacts, ComesOfItself, Unreducibles
<1>5. Follows(fs, g) /\ DOMAIN g = DOMAIN fs
  BY <1>1, <1>4, EachAlone
<1> QED
  BY <1>1, <1>5 DEF g

\* The findings to which the floor of their type gives their severity back.
FloorKept(fs, i) ==
  /\ fs[i].was # NotCounted
  /\ CountRules[fs[i].type].floor
  /\ \A j \in OfType(fs, fs[i].type) : fs[j].was # NotCounted => i <= j

LEMMA DilutionFloorPass ==
  ASSUME NEW fs \in Seq(AFinding)
  PROVE  /\ Follows(fs, dilutionFloor(fs)) /\ DOMAIN dilutionFloor(fs) = DOMAIN fs
         /\ \A i \in DOMAIN fs :
              dilutionFloor(fs)[i] = IF FloorKept(fs, i) THEN Restored(fs[i]) ELSE fs[i]
<1> DEFINE g == dilutionFloor(fs)
           counted(t) == {i \in OfType(fs, t) : fs[i].was # NotCounted}
           Kept(i) == /\ fs[i].was # NotCounted
                      /\ CountRules[fs[i].type].floor
                      /\ \A j \in counted(fs[i].type) : i <= j
<1>1. g = [i \in DOMAIN fs |-> IF Kept(i) THEN Restored(fs[i]) ELSE fs[i]]
  BY DEF dilutionFloor, Restored
<1>2. \A i \in DOMAIN fs : Kept(i) <=> FloorKept(fs, i)
  BY DEF FloorKept
<1> HIDE DEF g, Kept
<1>3. \A i \in DOMAIN fs : fs[i] \in AFinding
  OBVIOUS
<1>4. \A i \in DOMAIN fs : g[i] = IF FloorKept(fs, i) THEN Restored(fs[i]) ELSE fs[i]
  BY <1>1, <1>2
<1>5. \A i \in DOMAIN fs : FloorKept(fs, i) => fs[i].was # NotCounted
  BY DEF FloorKept
<1>6. ASSUME NEW i \in DOMAIN fs PROVE ComesOf(fs[i], g[i])
  BY <1>3, <1>4, <1>5, CountedFacts, ComesOfItself
<1>7. Follows(fs, g) /\ DOMAIN g = DOMAIN fs
  BY <1>1, <1>6, EachAlone
<1> QED
  BY <1>4, <1>7 DEF g

LEMMA SinkCouplingPass ==
  ASSUME NEW fs \in Seq(AFinding)
  PROVE  /\ Follows(fs, sinkCoupling(fs)) /\ DOMAIN sinkCoupling(fs) = DOMAIN fs
         /\ \A i \in DOMAIN fs :
              fs[i].type # "credential_regex_harvest" => sinkCoupling(fs)[i] = fs[i]
<1> DEFINE g == sinkCoupling(fs)
           Hit(i) == fs[i].type = "credential_regex_harvest" /\ fs[i].sev >= HIGH
                       /\ ~hasExfilSink(fs)
<1>1. g = [i \in DOMAIN fs |-> IF Hit(i) THEN [fs[i] EXCEPT !.sev = LOW] ELSE fs[i]]
  BY DEF sinkCoupling
<1>2. \A i \in DOMAIN fs : Hit(i) => fs[i].type = "credential_regex_harvest"
  OBVIOUS
<1>3. \A i \in DOMAIN fs : fs[i] \in AFinding
  OBVIOUS
<1> HIDE DEF g, Hit
<1>4. ASSUME NEW i \in DOMAIN fs PROVE ComesOf(fs[i], g[i])
  BY <1>1, <1>2, <1>3, Changed, ComesOfItself, Unreducibles, Levels
<1>5. Follows(fs, g) /\ DOMAIN g = DOMAIN fs
  BY <1>1, <1>4, EachAlone
<1> QED
  BY <1>1, <1>2, <1>5 DEF g

\* A finding no path says anything against.
Plain(f) ==
  /\ f.file \notin Bundled /\ f.note = ""
  /\ reachable = {} \/ f.file \in reachable

\* A step that can lower one finding, at i, and that only if a path tells against it.
Lowers(a, b, i) ==
  /\ Follows(a, b) /\ DOMAIN b = DOMAIN a
  /\ \A j \in DOMAIN a : j # i \/ Plain(a[j]) => b[j] = a[j]

LEMMA LowersOrNot ==
  ASSUME NEW a \in Seq(AFinding), NEW i \in DOMAIN a
  PROVE  /\ Lowers(a, a, i)
         /\ \A s \in Severity :
              a[i].type \notin Unreducible /\ ~Plain(a[i]) => Lowers(a, Lower(a, i, s), i)
<1>1. Lowers(a, a, i)
  BY FollowsItself DEF Lowers
<1>2. ASSUME NEW s \in Severity, a[i].type \notin Unreducible, ~Plain(a[i])
      PROVE  Lowers(a, Lower(a, i, s), i)
  <2> DEFINE b == Lower(a, i, s)
  <2>1. /\ b = [j \in DOMAIN a |-> b[j]]
        /\ b[i] = [a[i] EXCEPT !.sev = s]
        /\ \A j \in DOMAIN a : j # i => b[j] = a[j]
    BY DEF Lower
  <2>2. \A j \in DOMAIN a : a[j] \in AFinding
    OBVIOUS
  <2> HIDE DEF b
  <2>3. ASSUME NEW j \in DOMAIN a PROVE ComesOf(a[j], b[j])
    <3>1. CASE j = i
      <4>1. ComesOf(a[i], [a[i] EXCEPT !.sev = s])
        BY <1>2, <2>2, Changed
      <4> QED
        BY <2>1, <3>1, <4>1
    <3>2. CASE j # i
      BY <2>1, <2>2, <3>2, ComesOfItself
    <3> QED
      BY <3>1, <3>2
  <2>4. Follows(a, b) /\ DOMAIN b = DOMAIN a
    BY <2>1, <2>3, EachAlone
  <2> QED
    BY <1>2, <2>1, <2>4 DEF Lowers, b
<1> QED
  BY <1>1, <1>2

LEMMA LowersTrans ==
  ASSUME NEW a \in Seq(AFinding), NEW b, NEW c, NEW i \in DOMAIN a,
         Lowers(a, b, i), Lowers(b, c, i)
  PROVE  Lowers(a, c, i)
<1>1. Follows(a, c) /\ DOMAIN c = DOMAIN a
  BY FollowsTrans DEF Lowers
<1>2. ASSUME NEW j \in DOMAIN a, j # i \/ Plain(a[j]) PROVE c[j] = a[j]
  BY <1>2 DEF Lowers
<1> QED
  BY <1>1, <1>2 DEF Lowers

LEMMA ReduceOnePass ==
  ASSUME NEW fs \in Seq(AFinding), NEW i \in DOMAIN fs
  PROVE  Lowers(fs, reduceOne(fs, i), i)
<1>1. ASSUME NEW a \in Seq(AFinding), i \in DOMAIN a, NEW table,
             \A t \in DOMAIN table : table[t].to \in Severity,
             \A t \in Unreducible : t \notin DOMAIN table
      PROVE  Lowers(a, Softened(a, i, table), i)
  <2>1. CASE a[i].note = "benign" /\ a[i].type \in DOMAIN table
             /\ a[i].sev = table[a[i].type].from
    <3>1. Softened(a, i, table) = Lower(a, i, table[a[i].type].to)
      BY <2>1 DEF Softened
    <3>2. a[i].type \notin Unreducible /\ ~Plain(a[i]) /\ table[a[i].type].to \in Severity
      BY <1>1, <2>1 DEF Plain
    <3> QED
      BY <1>1, <3>1, <3>2, LowersOrNot
  <2>2. CASE ~(a[i].note = "benign" /\ a[i].type \in DOMAIN table
               /\ a[i].sev = table[a[i].type].from)
    BY <1>1, <2>2, LowersOrNot DEF Softened
  <2> QED
    BY <2>1, <2>2
<1>2. ASSUME NEW a \in Seq(AFinding), i \in DOMAIN a
      PROVE  Lowers(a, InBundle(a, i), i)
  <2> DEFINE veto == a[i].file \notin Bundled \/ a[i].type \in DIST_EXEMPT_TYPES
                       \/ hasBundleVetoSignal(a, a[i].file)
             n == IF a[i].type \in DIST_BUNDLER_ARTIFACT_TYPES THEN 2 ELSE 1
  <2>1. InBundle(a, i) = IF veto THEN a ELSE Lower(a, i, Most(LOW, a[i].sev - n))
    BY DEF InBundle
  <2>2. ASSUME ~veto
        PROVE  /\ a[i].type \notin Unreducible /\ ~Plain(a[i])
               /\ Most(LOW, a[i].sev - n) \in Severity
    <3>1. a[i] \in AFinding
      BY <1>2
    <3>2. a[i].sev \in Severity
      BY <3>1 DEF AFinding
    <3>3. Most(LOW, a[i].sev - n) \in Severity
      BY <3>2 DEF Severity, LOW, CRITICAL, Most
    <3> QED
      BY <2>2, <3>3, Unreducibles DEF Plain
  <2> HIDE DEF veto, n
  <2> QED
    BY <1>2, <2>1, <2>2, LowersOrNot
<1>3. ASSUME NEW a \in Seq(AFinding), i \in DOMAIN a
      PROVE  Lowers(a, Unreached(a, i), i)
  <2> DEFINE away == /\ reachable # {} /\ a[i].type \notin REACHABILITY_EXEMPT_TYPES
                     /\ ~isPackageLevelThreat(a[i])
                     /\ IF a[i].file \in reachable \cup exemptFiles(a)
                        THEN a[i].note = "dead" ELSE TRUE
  <2>1. Unreached(a, i) = IF away THEN Lower(a, i, LOW) ELSE a
    BY DEF Unreached
  <2>2. away => a[i].type \notin Unreducible /\ ~Plain(a[i])
    BY Unreducibles DEF Plain
  <2> HIDE DEF away
  <2> QED
    BY <1>3, <2>1, <2>2, LowersOrNot, Levels
<1> DEFINE b == Softened(fs, i, Soften)
           c == InBundle(b, i)
           d == Unreached(c, i)
<1>4. Lowers(fs, b, i)
  BY <1>1, TablesAssumption, Unreducibles
<1>5. b \in Seq(AFinding) /\ i \in DOMAIN b
  BY <1>4 DEF Lowers, Follows
<1>6. Lowers(b, c, i)
  BY <1>2, <1>5
<1>7. c \in Seq(AFinding) /\ i \in DOMAIN c
  BY <1>5, <1>6 DEF Lowers, Follows
<1>8. Lowers(c, d, i)
  BY <1>3, <1>7
<1>9. d \in Seq(AFinding) /\ i \in DOMAIN d
  BY <1>7, <1>8 DEF Lowers, Follows
<1>10. Lowers(d, reduceOne(fs, i), i)
  <2>1. Lowers(d, Softened(d, i, Expected), i)
    BY <1>1, <1>9, TablesAssumption, Unreducibles
  <2> QED
    BY <2>1 DEF reduceOne
<1> HIDE DEF b, c, d
<1>11. Lowers(fs, d, i)
  BY <1>4, <1>5, <1>6, <1>7, <1>8, LowersTrans
<1> QED
  BY <1>10, <1>11, LowersTrans

-----------------------------------------------------------------------------
(* The loops *)

\* What a loop starts with and each turn keeps.
LEMMA Climb ==
  ASSUME NEW N \in Nat, NEW G, 0 \in G, \A n \in 1..N : n - 1 \in G => n \in G
  PROVE  \A n \in 0..N : n \in G
<1> DEFINE Bad == {n \in 0..N : n \notin G}
<1>1. ASSUME Bad # {} PROVE FALSE
  <2>1. Bad \in SUBSET Nat
    OBVIOUS
  <2>2. PICK m \in Bad : \A k \in Bad : m <= k
    BY <1>1, <2>1, LeastMember
  <2>3. m \in 1..N /\ m \notin G /\ m - 1 \in 0..N /\ ~(m <= m - 1)
    BY <2>2
  <2>4. m - 1 \in G
    BY <2>2, <2>3
  <2> QED
    BY <2>3, <2>4
<1> QED
  BY <1>1

ReduceCourse(f, fs) ==
  f = [n \in 0..Len(fs) |-> IF n = 0 THEN fs ELSE reduceOne(f[n - 1], n)]

\* What the loop over the paths may make of fs.
PathLists(fs) ==
  {g \in Seq(AFinding) : /\ Follows(fs, g) /\ DOMAIN g = DOMAIN fs
                         /\ \A j \in DOMAIN fs : Plain(fs[j]) => g[j] = fs[j]}

LEMMA PathTurn ==
  ASSUME NEW fs \in Seq(AFinding), NEW g \in PathLists(fs), NEW n \in 1..Len(fs)
  PROVE  reduceOne(g, n) \in PathLists(fs)
<1>1. /\ g \in Seq(AFinding) /\ n \in DOMAIN g /\ Follows(fs, g) /\ DOMAIN g = DOMAIN fs
      /\ \A j \in DOMAIN fs : Plain(fs[j]) => g[j] = fs[j]
  BY DEF PathLists
<1>2. Lowers(g, reduceOne(g, n), n)
  BY <1>1, ReduceOnePass
<1>3. Follows(fs, reduceOne(g, n)) /\ DOMAIN reduceOne(g, n) = DOMAIN fs
  BY <1>1, <1>2, FollowsTrans DEF Lowers
<1>4. \A j \in DOMAIN fs : Plain(fs[j]) => reduceOne(g, n)[j] = fs[j]
  BY <1>1, <1>2 DEF Lowers
<1> QED
  BY <1>3, <1>4 DEF PathLists, Follows

LEMMA PathsPass ==
  ASSUME NEW fs \in Seq(AFinding)
  PROVE  ReducedOneByOne(fs) \in PathLists(fs)
<1> DEFINE N == Len(fs)
           T == PathLists(fs)
           step == [n \in 1..N |-> [g \in T |-> reduceOne(g, n)]]
           h == CHOOSE f : ReduceCourse(f, fs)
<1>1. N \in Nat
  OBVIOUS
<1>2. fs \in T
  BY FollowsItself DEF PathLists
<1>3. step \in [1..N -> [T -> T]]
  BY PathTurn
<1>4. \E f : ReduceCourse(f, fs)
  <2>1. \A n \in 1..N : \A g \in T : step[n][g] = reduceOne(g, n)
    OBVIOUS
  <2> HIDE DEF step, N, T
  <2>2. PICK f : Course(f, T, fs, N, step)
    BY <1>1, <1>2, <1>3, Courses DEF Turns
  <2>3. \A n \in 0..N : f[n] = IF n = 0 THEN fs ELSE reduceOne(f[n - 1], n)
    BY <1>1, <2>1, <2>2 DEF Course
  <2>4. f = [n \in 0..N |-> IF n = 0 THEN fs ELSE reduceOne(f[n - 1], n)]
    BY <2>2, <2>3 DEF Course
  <2> QED
    BY <2>4 DEF ReduceCourse, N
<1>5. ReduceCourse(h, fs)
  BY <1>4, Zenon
<1>6. ReducedOneByOne(fs) = h[N]
  BY Zenon DEF ReducedOneByOne, ReduceCourse
<1> HIDE DEF h, T, step
<1>7. h[0] = fs /\ \A n \in 1..N : h[n] = reduceOne(h[n - 1], n)
  <2>1. \A n \in 0..N : h[n] = IF n = 0 THEN fs ELSE reduceOne(h[n - 1], n)
    BY <1>5 DEF ReduceCourse
  <2>2. 0 \in 0..N /\ \A n \in 1..N : n \in 0..N /\ n # 0
    BY <1>1
  <2> QED
    BY <2>1, <2>2
<1> DEFINE G == {n \in 0..N : h[n] \in T}
<1>8. 0 \in G
  BY <1>1, <1>2, <1>7
<1>9. ASSUME NEW n \in 1..N, n - 1 \in G PROVE n \in G
  <2>1. h[n - 1] \in T /\ n \in 0..N
    BY <1>9
  <2>2. reduceOne(h[n - 1], n) \in T
    BY <1>9, <2>1, PathTurn DEF T
  <2> QED
    BY <1>7, <1>9, <2>1, <2>2
<1> HIDE DEF G
<1>10. N \in G
  <2>1. \A n \in 0..N : n \in G
    BY <1>1, <1>8, <1>9, Climb
  <2> QED
    BY <1>1, <2>1
<1> QED
  BY <1>6, <1>10 DEF G, T

-----------------------------------------------------------------------------
(* The reductions together *)

\* Next to a live install script a guarded type has a finding above LOW.
Guarded(fs) ==
  (\E i \in OfType(fs, "lifecycle_script") : fs[i].sev # LOW) =>
    \A t \in LIFECYCLE_GUARD_TYPES :
      (\E i \in OfType(fs, t) : fs[i].was # NotCounted) =>
        \E i \in OfType(fs, t) : fs[i].sev # LOW

LEMMA LifecycleGuardPass ==
  ASSUME NEW fs \in Seq(AFinding)
  PROVE  /\ Follows(fs, lifecycleGuard(fs)) /\ DOMAIN lifecycleGuard(fs) = DOMAIN fs
         /\ \A i \in DOMAIN fs : fs[i].was = NotCounted => lifecycleGuard(fs)[i] = fs[i]
         /\ Guarded(lifecycleGuard(fs))
<1> DEFINE g == lifecycleGuard(fs)
           live == \E i \in OfType(fs, "lifecycle_script") : fs[i].sev # LOW
           away(t) == {i \in OfType(fs, t) : fs[i].was # NotCounted /\ fs[i].sev = LOW}
           Back(i) == /\ fs[i].type \in LIFECYCLE_GUARD_TYPES
                      /\ i \in away(fs[i].type)
                      /\ \A j \in away(fs[i].type) : i <= j
           Raised(f) == [f EXCEPT !.sev = MEDIUM]
<1>1. g = [i \in DOMAIN fs |-> IF live /\ Back(i) THEN Raised(fs[i]) ELSE fs[i]]
  BY DEF lifecycleGuard
<1>2. \A i \in DOMAIN fs : Back(i) => fs[i].was # NotCounted /\ fs[i].sev = LOW
  OBVIOUS
<1>3. \A i \in DOMAIN fs : fs[i] \in AFinding
  OBVIOUS
<1>4. \A i \in DOMAIN fs : fs[i].was # NotCounted => ComesOf(fs[i], Raised(fs[i]))
  BY <1>3, Changed, Levels
<1>5. \A i \in DOMAIN fs : Raised(fs[i]).sev = MEDIUM
  BY <1>3 DEF AFinding
<1>6. \A t : \A i \in away(t) : i \in DOMAIN fs /\ fs[i].type = t
  BY DEF OfType
<1>7. \A t \in LIFECYCLE_GUARD_TYPES : away(t) # {} => \E i \in away(t) : Back(i)
  <2> SUFFICES ASSUME NEW t \in LIFECYCLE_GUARD_TYPES, away(t) # {}
               PROVE  \E i \in away(t) : Back(i)
    OBVIOUS
  <2>1. away(t) \in SUBSET Nat
    BY DEF OfType
  <2>2. PICK i \in away(t) : \A j \in away(t) : i <= j
    BY <2>1, LeastMember
  <2>3. fs[i].type = t
    BY <1>6
  <2> QED
    BY <2>2, <2>3
<1> HIDE DEF g, live, Back, Raised, away
<1>8. ASSUME NEW i \in DOMAIN fs PROVE ComesOf(fs[i], g[i])
  BY <1>1, <1>2, <1>3, <1>4, ComesOfItself
<1>9. Follows(fs, g) /\ DOMAIN g = DOMAIN fs
  BY <1>1, <1>8, EachAlone
<1>10. \A i \in DOMAIN fs : g[i].type = fs[i].type
  BY <1>8 DEF ComesOf, Alike
<1>11. \A t : OfType(g, t) = OfType(fs, t)
  BY <1>9, <1>10 DEF OfType
<1>12. Guarded(g)
  <2>1. CASE ~live
    <3>1. \A i \in DOMAIN fs : g[i] = fs[i]
      BY <1>1, <2>1
    <3>2. ~\E i \in OfType(g, "lifecycle_script") : g[i].sev # LOW
      BY <1>11, <2>1, <3>1 DEF live, OfType
    <3> QED
      BY <3>2 DEF Guarded
  <2>2. CASE live
    <3> SUFFICES ASSUME NEW t \in LIFECYCLE_GUARD_TYPES,
                        NEW k \in OfType(fs, t), g[k].was # NotCounted
                 PROVE  \E i \in OfType(fs, t) : g[i].sev # LOW
      BY <1>11 DEF Guarded
    <3>1. CASE away(t) # {}
      <4>1. PICK i \in away(t) : Back(i)
        BY <1>7, <3>1
      <4>2. i \in DOMAIN fs /\ fs[i].type = t
        BY <1>6
      <4>3. g[i].sev = MEDIUM
        BY <1>1, <1>5, <2>2, <4>1, <4>2
      <4> QED
        BY <4>2, <4>3 DEF OfType, LOW, MEDIUM
    <3>2. CASE away(t) = {}
      <4>1. k \in DOMAIN fs /\ fs[k].type = t
        BY DEF OfType
      <4>2. ~Back(k)
        BY <3>2, <4>1 DEF Back
      <4>3. g[k] = fs[k]
        BY <1>1, <4>1, <4>2
      <4>4. fs[k].sev # LOW
        BY <3>2, <4>3 DEF away
      <4> QED
        BY <4>3, <4>4
    <3> QED
      BY <3>1, <3>2
  <2> QED
    BY <2>1, <2>2
<1>13. \A i \in DOMAIN fs : fs[i].was = NotCounted => g[i] = fs[i]
  BY <1>1, <1>2
<1> QED
  BY <1>9, <1>12, <1>13 DEF g

LEMMA DeltaPass ==
  ASSUME NEW fs \in Seq(AFinding), NEW stable
  PROVE  /\ Follows(fs, applyDeltaMultiplier(fs, stable))
         /\ DOMAIN applyDeltaMultiplier(fs, stable) = DOMAIN fs
<1> DEFINE g == applyDeltaMultiplier(fs, stable)
           Hit(i) == /\ fs[i].type \notin HIGH_CONFIDENCE_MALICE_TYPES \cup DELTA_IOC_EXEMPT
                     /\ <<fs[i].type, fs[i].file>> \in stable
<1>1. g = [i \in DOMAIN fs |-> IF Hit(i) THEN [fs[i] EXCEPT !.sev = LOW] ELSE fs[i]]
  BY DEF applyDeltaMultiplier
<1>2. \A i \in DOMAIN fs :
        Hit(i) => fs[i].type \notin HIGH_CONFIDENCE_MALICE_TYPES \cup DELTA_IOC_EXEMPT
  OBVIOUS
<1>3. \A i \in DOMAIN fs : fs[i] \in AFinding
  OBVIOUS
<1> HIDE DEF g, Hit
<1>4. ASSUME NEW i \in DOMAIN fs PROVE ComesOf(fs[i], g[i])
  BY <1>1, <1>2, <1>3, Changed, ComesOfItself, Unreducibles, Levels
<1> QED
  BY <1>1, <1>4, EachAlone DEF g

\* No reduction has seen the list yet.
Fresh(fs) == \A i \in DOMAIN fs : fs[i].was = NotCounted /\ fs[i].orig = fs[i].sev

LEMMA LevelsCount == \A s \in Severity : s # NotCounted
  BY DEF Severity, NotCounted, LOW, CRITICAL

\* The first n findings of a type with a floor, all plain and one at least there: one of
\* them is as it was reported when the reductions are through.
LEMMA FloorSurvives ==
  ASSUME NEW fs \in Seq(AFinding), Fresh(fs), NEW n \in 0..Len(fs),
         NEW t \in DOMAIN CountRules, CountRules[t].floor, t # "credential_regex_harvest",
         \A i \in 1..n : fs[i].type = t => Plain(fs[i]),
         NEW first \in 1..n, fs[first].type = t
  PROVE  \E k \in OfType(applyFPReductions(fs), t) :
           applyFPReductions(fs)[k].sev = applyFPReductions(fs)[k].orig
<1> DEFINE pl == pluginLoader(fs)
           ct == countThreshold(pl)
           df == dilutionFloor(ct)
           sc == sinkCoupling(df)
           rd == ReducedOneByOne(sc)
           D == DOMAIN fs
           Same(a, b) == DOMAIN b = D /\ b \in Seq(AFinding) /\ \A i \in D : ComesOf(a[i], b[i])
<1>1. applyFPReductions(fs) = lifecycleGuard(rd)
  BY DEF applyFPReductions
<1>2. ASSUME NEW a \in Seq(AFinding), DOMAIN a = D, NEW b, Follows(a, b), DOMAIN b = DOMAIN a
      PROVE  Same(a, b)
  <2>1. DOMAIN a = 1..Len(a)
    OBVIOUS
  <2> QED
    BY <1>2, <2>1 DEF Follows
<1>3. Same(fs, pl)
  BY <1>2, PluginLoaderPass
<1> HIDE DEF pl
<1>4. Same(pl, ct)
  BY <1>2, <1>3, CountThresholdPass
<1> HIDE DEF ct
<1>5. Same(ct, df)
  BY <1>2, <1>4, DilutionFloorPass
<1> HIDE DEF df
<1>6. Same(df, sc)
  BY <1>2, <1>5, SinkCouplingPass
<1> HIDE DEF sc
<1>7. Same(sc, rd) /\ \A j \in D : Plain(sc[j]) => rd[j] = sc[j]
  BY <1>2, <1>6, PathsPass DEF PathLists
<1> HIDE DEF rd
<1>8. Same(rd, lifecycleGuard(rd))
      /\ \A i \in D : rd[i].was = NotCounted => lifecycleGuard(rd)[i] = rd[i]
  BY <1>2, <1>7, LifecycleGuardPass
<1>9. t \notin LoaderTypes
  BY TablesAssumption
<1>10. /\ \A i \in D : pl[i].type = fs[i].type
       /\ \A i \in D : ct[i].type = fs[i].type
       /\ \A i \in D : fs[i].type = t => pl[i].was = NotCounted
       /\ \A i \in D : fs[i].type = t => pl[i].sev = fs[i].orig
  <2>1. \A i \in D : fs[i].type = t => pl[i] = fs[i]
    BY <1>9, PluginLoaderPass DEF pl
  <2>2. \A i \in D : pl[i].type = fs[i].type
    BY <1>3 DEF ComesOf, Alike
  <2>3. \A i \in D : ct[i].type = pl[i].type
    BY <1>4 DEF ComesOf, Alike
  <2>4. \A i \in D : fs[i].was = NotCounted /\ fs[i].orig = fs[i].sev
    BY DEF Fresh
  <2> QED
    BY <2>1, <2>2, <2>3, <2>4
<1>11. /\ D = 1..Len(fs) /\ Len(fs) \in Nat /\ \A i \in 1..n : i \in D
       /\ \A k \in D : \A i \in 1..n : k <= i => k \in 1..n
  OBVIOUS
<1>12. \E k \in 1..n : fs[k].type = t /\ df[k].sev = fs[k].orig /\ df[k].was = NotCounted
  <2>1. CASE \E i \in 1..n : fs[i].type = t /\ Discounted(pl, i)
    <3> DEFINE C == {j \in D : fs[j].type = t /\ ct[j].was # NotCounted}
    <3>1. \A j \in D : fs[j].type = t =>
            /\ Discounted(pl, j) => ct[j].was = pl[j].sev /\ ct[j].was # NotCounted
            /\ ~Discounted(pl, j) => ct[j].was = NotCounted
      <4> SUFFICES ASSUME NEW j \in D, fs[j].type = t
                   PROVE  /\ Discounted(pl, j) => ct[j].was = pl[j].sev /\ ct[j].was # NotCounted
                          /\ ~Discounted(pl, j) => ct[j].was = NotCounted
        OBVIOUS
      <4>1. pl[j] \in AFinding /\ pl[j].was = NotCounted
        BY <1>3, <1>10 DEF ComesOf
      <4>2. ct[j] = IF Discounted(pl, j) THEN Counted(pl[j]) ELSE pl[j]
        BY <1>3, CountThresholdPass DEF ct
      <4>3. Counted(pl[j]).was = pl[j].sev /\ pl[j].sev \in Severity
        BY <4>1, CountedFacts
      <4>4. pl[j].sev # NotCounted
        BY <4>3, LevelsCount
      <4> QED
        BY <4>1, <4>2, <4>3, <4>4
    <3>2. PICK i \in 1..n : fs[i].type = t /\ Discounted(pl, i)
      BY <2>1
    <3>3. i \in C
      BY <1>11, <3>1, <3>2
    <3>4. C \in SUBSET Nat
      BY <1>11
    <3>5. PICK k \in C : \A j \in C : k <= j
      <4> HIDE DEF C
      <4> QED
        BY <3>3, <3>4, LeastMember
    <3>6. k \in D /\ fs[k].type = t /\ k \in 1..n /\ ct[k].was # NotCounted
      BY <1>11, <3>3, <3>5
    <3>7. FloorKept(ct, k)
      <4>1. ct[k].type = t
        BY <1>10, <3>6
      <4>2. ASSUME NEW j \in OfType(ct, t), ct[j].was # NotCounted PROVE k <= j
        <5>1. j \in D /\ ct[j].type = t
          BY <1>4 DEF OfType
        <5>2. fs[j].type = t
          BY <1>10, <5>1
        <5>3. j \in C
          BY <4>2, <5>1, <5>2
        <5> QED
          BY <3>5, <5>3
      <4> QED
        BY <3>6, <4>1, <4>2 DEF FloorKept
    <3>8. df[k] = Restored(ct[k])
      BY <1>4, <3>6, <3>7, DilutionFloorPass DEF df
    <3>9. df[k].sev = ct[k].was /\ df[k].was = NotCounted
      <4>1. ct[k] \in AFinding
        BY <1>4, <3>6 DEF ComesOf
      <4> QED
        BY <3>6, <3>8, <4>1, CountedFacts
    <3>10. ct[k].was = fs[k].orig
      BY <1>10, <3>1, <3>6
    <3> QED
      BY <3>6, <3>9, <3>10
  <2>2. CASE ~\E i \in 1..n : fs[i].type = t /\ Discounted(pl, i)
    <3>1. first \in D /\ ~Discounted(pl, first)
      BY <1>11, <2>2
    <3>2. ct[first] = pl[first]
      BY <1>3, <3>1, CountThresholdPass DEF ct
    <3>3. ct[first].was = NotCounted /\ ct[first].sev = fs[first].orig
      BY <1>10, <3>1, <3>2
    <3>4. ~FloorKept(ct, first)
      BY <3>3 DEF FloorKept
    <3>5. df[first] = ct[first]
      BY <1>4, <3>1, <3>4, DilutionFloorPass DEF df
    <3> QED
      BY <3>3, <3>5
  <2> QED
    BY <2>1, <2>2
<1>13. PICK k \in 1..n : fs[k].type = t /\ df[k].sev = fs[k].orig /\ df[k].was = NotCounted
  BY <1>12
<1>14. k \in D /\ df[k].type = t
  BY <1>4, <1>5, <1>10, <1>11, <1>13 DEF ComesOf, Alike
<1>15. sc[k] = df[k]
  BY <1>5, <1>14, SinkCouplingPass DEF sc
<1>16. Plain(sc[k])
  <2>1. Plain(fs[k])
    BY <1>13
  <2>2. sc[k].file = fs[k].file /\ sc[k].note = fs[k].note
    BY <1>3, <1>4, <1>5, <1>6, <1>14 DEF ComesOf, Alike
  <2> QED
    BY <2>1, <2>2 DEF Plain
<1>17. rd[k] = df[k]
  BY <1>7, <1>14, <1>15, <1>16
<1>18. lifecycleGuard(rd)[k] = df[k] /\ DOMAIN lifecycleGuard(rd) = D
  BY <1>8, <1>13, <1>14, <1>17
<1>19. df[k].orig = fs[k].orig
  BY <1>3, <1>4, <1>5, <1>14 DEF ComesOf, Alike
<1> QED
  BY <1>1, <1>13, <1>14, <1>18, <1>19 DEF OfType

LEMMA ReductionsPass ==
  ASSUME NEW fs \in Seq(AFinding)
  PROVE  /\ Follows(fs, applyFPReductions(fs)) /\ DOMAIN applyFPReductions(fs) = DOMAIN fs
         /\ Guarded(applyFPReductions(fs))
<1> DEFINE pl == pluginLoader(fs)
           ct == countThreshold(pl)
           df == dilutionFloor(ct)
           sc == sinkCoupling(df)
           rd == ReducedOneByOne(sc)
<1>1. applyFPReductions(fs) = lifecycleGuard(rd)
  BY DEF applyFPReductions
<1>2. Follows(fs, pl) /\ pl \in Seq(AFinding) /\ DOMAIN pl = DOMAIN fs
  BY PluginLoaderPass DEF Follows
<1> HIDE DEF pl
<1>3. Follows(pl, ct) /\ ct \in Seq(AFinding) /\ DOMAIN ct = DOMAIN pl
  BY <1>2, CountThresholdPass DEF Follows
<1> HIDE DEF ct
<1>4. Follows(ct, df) /\ df \in Seq(AFinding) /\ DOMAIN df = DOMAIN ct
  BY <1>3, DilutionFloorPass DEF Follows
<1> HIDE DEF df
<1>5. Follows(df, sc) /\ sc \in Seq(AFinding) /\ DOMAIN sc = DOMAIN df
  BY <1>4, SinkCouplingPass DEF Follows
<1> HIDE DEF sc
<1>6. Follows(sc, rd) /\ rd \in Seq(AFinding) /\ DOMAIN rd = DOMAIN sc
  BY <1>5, PathsPass DEF PathLists
<1> HIDE DEF rd
<1>7. Follows(rd, lifecycleGuard(rd)) /\ DOMAIN lifecycleGuard(rd) = DOMAIN rd
      /\ Guarded(lifecycleGuard(rd))
  BY <1>6, LifecycleGuardPass
<1>8. Follows(fs, rd)
  BY <1>2, <1>3, <1>4, <1>5, <1>6, FollowsTrans
<1> QED
  BY <1>1, <1>2, <1>3, <1>4, <1>5, <1>6, <1>7, <1>8, FollowsTrans

-----------------------------------------------------------------------------
(* The correlations *)

\* A finding that a correlation adds.
Later(f) ==
  \/ f.type = "detached_credential_exfil" /\ f.file \notin Bundled
  \/ f.type = "lifecycle_file_exec" /\ f.file = Manifest

\* The list b is a with findings of correlations at its end.
Correlates(a, b) ==
  /\ Follows(a, b)
  /\ \A j \in DOMAIN b :
       \/ j \in DOMAIN a /\ b[j] = a[j]
       \/ j > Len(a) /\ Later(b[j]) /\ b[j].was = NotCounted /\ b[j].orig = b[j].sev

LEMMA CorrelatesTrans ==
  ASSUME NEW a \in Seq(AFinding), NEW b, NEW c, Correlates(a, b), Correlates(b, c)
  PROVE  Correlates(a, c)
<1>1. Follows(a, c)
  BY FollowsTrans DEF Correlates
<1>2. /\ b \in Seq(AFinding) /\ Len(a) \in Nat /\ Len(b) \in Nat /\ Len(a) <= Len(b)
      /\ c \in Seq(AFinding) /\ Len(c) \in Nat
  BY DEF Correlates, Follows
<1>3. \A j \in DOMAIN c : j \in Nat
  BY <1>2
<1>4. ASSUME NEW j \in DOMAIN c
      PROVE  \/ j \in DOMAIN a /\ c[j] = a[j]
             \/ j > Len(a) /\ Later(c[j]) /\ c[j].was = NotCounted /\ c[j].orig = c[j].sev
  <2>1. CASE j \in DOMAIN b /\ c[j] = b[j]
    BY <2>1 DEF Correlates
  <2>2. CASE ~(j \in DOMAIN b /\ c[j] = b[j])
    <3>1. /\ j > Len(b) /\ Later(c[j]) /\ c[j].was = NotCounted /\ c[j].orig = c[j].sev
      BY <2>2 DEF Correlates
    <3> QED
      BY <1>2, <1>3, <3>1
  <2> QED
    BY <2>1, <2>2
<1> QED
  BY <1>1, <1>4 DEF Correlates

LEMMA DetachedExfilPass ==
  ASSUME NEW fs \in Seq(AFinding), NEW benign
  PROVE  Correlates(fs, withDetachedExfil(fs, benign))
<1> DEFINE S == {i \in DOMAIN fs : DetachedExfil(fs, benign, i)}
           firsts == KeepAt(fs, S)
           Told(file) == [type |-> "detached_credential_exfil", sev |-> CRITICAL,
                          file |-> file, note |-> "", ioc |-> <<>>]
           x == [k \in DOMAIN firsts |-> Finding(Told(firsts[k].file))]
<1>1. withDetachedExfil(fs, benign) = fs \o x
  BY DEF withDetachedExfil
<1>2. \A i \in S : fs[i].file \notin Bundled /\ fs[i].file \in Files
  <2>1. \A i \in DOMAIN fs : fs[i] \in AFinding
    OBVIOUS
  <2>2. \A i \in DOMAIN fs : fs[i].file \in Files
    BY <2>1 DEF AFinding
  <2>3. \A i \in S : i \in DOMAIN fs /\ fs[i].file \notin Bundled
    BY DEF DetachedExfil
  <2> QED
    BY <2>2, <2>3
<1>3. \A file \in Files : Told(file) \in Report
  BY ReportsAssumption, Levels DEF Report, Notes, Iocs
<1>4. \A file : Told(file).type = "detached_credential_exfil" /\ Told(file).file = file
  OBVIOUS
<1>5. S \in SUBSET DOMAIN fs
  OBVIOUS
<1> HIDE DEF S, Told
<1>6. /\ firsts \in Seq(AFinding) /\ \A k \in DOMAIN firsts : \E j \in S : firsts[k] = fs[j]
  BY <1>5, KeepAtFacts
<1> HIDE DEF firsts
<1>7. \A k \in DOMAIN firsts : firsts[k].file \notin Bundled /\ firsts[k].file \in Files
  BY <1>2, <1>6
<1>8. ASSUME NEW k \in DOMAIN firsts
      PROVE  /\ x[k] \in AFinding /\ Later(x[k]) /\ x[k].was = NotCounted /\ x[k].orig = x[k].sev
  <2>1. Told(firsts[k].file) \in Report
    BY <1>3, <1>7
  <2>2. x[k] = Finding(Told(firsts[k].file))
    OBVIOUS
  <2>3. /\ x[k] \in AFinding /\ x[k].was = NotCounted /\ x[k].orig = x[k].sev
        /\ x[k].type = "detached_credential_exfil" /\ x[k].file = firsts[k].file
    BY <1>4, <2>1, <2>2, Reported
  <2> QED
    BY <1>7, <2>3 DEF Later
<1>9. x \in Seq(AFinding) /\ DOMAIN x = DOMAIN firsts
  <2>1. x = [k \in 1..Len(firsts) |-> x[k]] /\ Len(firsts) \in Nat /\ DOMAIN firsts = 1..Len(firsts)
    BY <1>6
  <2>2. \A k \in 1..Len(firsts) : x[k] \in AFinding
    BY <1>8, <2>1
  <2> HIDE DEF x
  <2> QED
    BY <2>1, <2>2
<1> HIDE DEF x
<1>10. /\ Follows(fs, fs \o x)
       /\ \A i \in 1..Len(fs) : (fs \o x)[i] = fs[i]
       /\ \A k \in 1..Len(x) : (fs \o x)[Len(fs) + k] = x[k]
       /\ Len(fs \o x) = Len(fs) + Len(x)
  BY <1>9, Extended
<1> DEFINE u == fs \o x
<1>11. /\ DOMAIN u = 1..Len(u) /\ Len(fs) \in Nat /\ Len(x) \in Nat /\ DOMAIN x = 1..Len(x)
       /\ DOMAIN fs = 1..Len(fs)
  BY <1>9, <1>10 DEF Follows
<1> HIDE DEF u
<1>12. ASSUME NEW j \in DOMAIN u
       PROVE  \/ j \in DOMAIN fs /\ u[j] = fs[j]
              \/ j > Len(fs) /\ Later(u[j]) /\ u[j].was = NotCounted /\ u[j].orig = u[j].sev
  <2>1. CASE j <= Len(fs)
    BY <1>10, <1>11, <2>1 DEF u
  <2>2. CASE ~(j <= Len(fs))
    <3>1. j > Len(fs) /\ j - Len(fs) \in 1..Len(x) /\ Len(fs) + (j - Len(fs)) = j
      BY <1>10, <1>11, <2>2 DEF u
    <3>2. u[j] = x[j - Len(fs)]
      BY <1>10, <3>1 DEF u
    <3> QED
      BY <1>8, <1>9, <1>11, <3>1, <3>2
  <2> QED
    BY <2>1, <2>2
<1> QED
  BY <1>1, <1>10, <1>12 DEF Correlates, u

\* What the compounds and the correlations append.
LEMMA CompoundFacts ==
  ASSUME NEW type \in Kinds, NEW sev \in Severity, NEW file \in Files,
         NEW unscoped \in BOOLEAN, NEW f, f = Compound(type, sev, file, unscoped)
  PROVE  /\ f \in AFinding /\ f.type = type /\ f.sev = sev /\ f.file = file
         /\ f.unscoped = unscoped /\ f.was = NotCounted /\ f.orig = sev
<1>1. [type |-> type, sev |-> sev, file |-> file, note |-> "", ioc |-> <<>>] \in Report
  BY DEF Report, Notes, Iocs
<1> QED
  BY <1>1 DEF Compound, Finding, AFinding, Report

LEMMA LifecycleFileExecPass ==
  ASSUME NEW fs \in Seq(AFinding)
  PROVE  Correlates(fs, withLifecycleFileExec(fs))
<1> DEFINE f == Compound("lifecycle_file_exec", CRITICAL, Manifest, FALSE)
           u == Append(fs, f)
<1>1. /\ f \in AFinding /\ f.type = "lifecycle_file_exec" /\ f.file = Manifest
      /\ f.was = NotCounted /\ f.orig = f.sev
  <2>1. "lifecycle_file_exec" \in Kinds /\ Manifest \in Files
    BY ReportsAssumption
  <2>2. FALSE \in BOOLEAN /\ CRITICAL \in Severity
    BY Levels
  <2>3. f = Compound("lifecycle_file_exec", CRITICAL, Manifest, FALSE)
    OBVIOUS
  <2> HIDE DEF f
  <2>4. ASSUME NEW type \in Kinds, NEW file \in Files, NEW no \in BOOLEAN,
               f = Compound(type, CRITICAL, file, no)
        PROVE  /\ f \in AFinding /\ f.type = type /\ f.file = file
               /\ f.was = NotCounted /\ f.orig = f.sev
    BY <2>2, <2>4, CompoundFacts
  <2> QED
    BY <2>1, <2>2, <2>3, <2>4, Zenon
<1>2. withLifecycleFileExec(fs) = fs \/ withLifecycleFileExec(fs) = u
  BY DEF withLifecycleFileExec
<1>3. Correlates(fs, fs)
  BY FollowsItself DEF Correlates
<1> HIDE DEF f
<1>4. Correlates(fs, u)
  <2>1. /\ Follows(fs, u) /\ Len(u) = Len(fs) + 1
        /\ \A i \in 1..Len(fs) : u[i] = fs[i]
        /\ u[Len(fs) + 1] = f
    BY <1>1, Appended
  <2>2. DOMAIN u = 1..Len(u) /\ Len(fs) \in Nat /\ DOMAIN fs = 1..Len(fs)
    BY <2>1 DEF Follows
  <2> HIDE DEF u
  <2>3. Later(f)
    BY <1>1 DEF Later
  <2>4. ASSUME NEW j \in DOMAIN u
        PROVE  \/ j \in DOMAIN fs /\ u[j] = fs[j]
               \/ j > Len(fs) /\ Later(u[j]) /\ u[j].was = NotCounted /\ u[j].orig = u[j].sev
    <3>1. j \in 1..Len(fs) \/ j = Len(fs) + 1
      BY <2>1, <2>2
    <3> QED
      BY <1>1, <2>1, <2>2, <2>3, <3>1
  <2> QED
    BY <2>1, <2>4 DEF Correlates
<1> QED
  BY <1>2, <1>3, <1>4

LEMMA CorrelatePass ==
  ASSUME NEW fs \in Seq(AFinding), NEW benign
  PROVE  Correlates(fs, withLifecycleFileExec(withDetachedExfil(fs, benign)))
<1>1. Correlates(fs, withDetachedExfil(fs, benign))
  BY DetachedExfilPass
<1>2. withDetachedExfil(fs, benign) \in Seq(AFinding)
  BY <1>1 DEF Correlates, Follows
<1> QED
  BY <1>1, <1>2, LifecycleFileExecPass, CorrelatesTrans

-----------------------------------------------------------------------------
(* The compounds *)

\* What the boosts may make of the list fs: parts are replaced, and what is added is of a
\* compound's type and as severe as the compound or, out of scope, HIGH.
CompoundOf(f) ==
  \E c \in ToSet(Compounds) :
    f.type = c.type /\ (f.sev = c.severity \/ (f.sev = HIGH /\ f.unscoped))
Boosts(a, b) ==
  /\ Follows(a, b)
  /\ \A j \in DOMAIN a : b[j].sev = a[j].sev
  /\ \A j \in DOMAIN b : j \in DOMAIN a \/ CompoundOf(b[j])

LEMMA BoostsItself ==
  ASSUME NEW a \in Seq(AFinding) PROVE Boosts(a, a)
  BY FollowsItself DEF Boosts

LEMMA BoostsTrans ==
  ASSUME NEW a \in Seq(AFinding), NEW b, NEW c, Boosts(a, b), Boosts(b, c)
  PROVE  Boosts(a, c)
<1>1. Follows(a, c)
  BY FollowsTrans DEF Boosts
<1>2. /\ b \in Seq(AFinding) /\ \A j \in DOMAIN a : j \in DOMAIN b
      /\ \A j \in DOMAIN b : ComesOf(b[j], c[j])
  <2>1. b \in Seq(AFinding) /\ Len(a) \in Nat /\ Len(b) \in Nat /\ Len(a) <= Len(b)
        /\ DOMAIN a = 1..Len(a) /\ DOMAIN b = 1..Len(b)
    BY DEF Boosts, Follows
  <2> QED
    BY <2>1 DEF Boosts, Follows
<1>3. \A j \in DOMAIN a : c[j].sev = a[j].sev
  BY <1>2 DEF Boosts
<1>4. ASSUME NEW j \in DOMAIN c, j \notin DOMAIN a PROVE CompoundOf(c[j])
  <2>1. CASE j \notin DOMAIN b
    BY <2>1 DEF Boosts
  <2>2. CASE j \in DOMAIN b
    <3>1. CompoundOf(b[j]) /\ c[j].sev = b[j].sev
      BY <1>4, <2>2 DEF Boosts
    <3>2. c[j].type = b[j].type /\ c[j].unscoped = b[j].unscoped
      BY <1>2, <2>2 DEF ComesOf, Alike
    <3> QED
      BY <3>1, <3>2 DEF CompoundOf
  <2> QED
    BY <2>1, <2>2
<1> QED
  BY <1>1, <1>3, <1>4 DEF Boosts

LEMMA ACompound ==
  ASSUME NEW c \in ToSet(Compounds)
  PROVE  /\ c \in CompoundRule /\ c.fileFrom \in c.requires
         /\ \E m \in DOMAIN Compounds : Compounds[m] = c
  BY CompoundsAssumption DEF ToSet

LEMMA AddedPass ==
  ASSUME NEW fs \in Seq(AFinding), NEW c \in ToSet(Compounds), NEW unscoped \in BOOLEAN,
         c.requires \subseteq Types(fs)
  PROVE  Boosts(fs, Added(fs, c, unscoped)) /\ c.type \in Types(Added(fs, c, unscoped))
<1> DEFINE From == OfType(fs, c.fileFrom)
           first == CHOOSE i \in From : \A j \in From : i <= j
           sev == IF unscoped THEN Least(c.severity, HIGH) ELSE c.severity
           f == Compound(c.type, sev, fs[first].file, unscoped)
           u == Append(fs, f)
<1>1. CASE c.type \in Types(fs)
  BY <1>1, BoostsItself DEF Added
<1>2. CASE c.type \notin Types(fs)
  <2>1. Added(fs, c, unscoped) = u
    BY <1>2 DEF Added
  <2>2. c.type \in Kinds /\ c.severity \in Severity /\ c.fileFrom \in Types(fs)
    BY ACompound DEF CompoundRule
  <2>3. first \in DOMAIN fs
    <3>1. From \in SUBSET Nat /\ From # {}
      BY <2>2 DEF OfType, Types
    <3>2. \A i \in From : i \in DOMAIN fs
      BY DEF OfType
    <3> HIDE DEF From
    <3>3. \E i \in From : \A j \in From : i <= j
      BY <3>1, LeastMember
    <3> QED
      BY <3>2, <3>3
  <2> HIDE DEF first
  <2>4. fs[first].file \in Files
    <3>1. fs[first] \in AFinding
      BY <2>3
    <3> QED
      BY <3>1 DEF AFinding
  <2>5. sev \in Severity /\ (sev = c.severity \/ (sev = HIGH /\ unscoped))
    <3>1. Least(c.severity, HIGH) = c.severity \/ Least(c.severity, HIGH) = HIGH
      BY DEF Least
    <3> QED
      BY <2>2, <3>1, Levels
  <2> HIDE DEF sev
  <2>13. f = Compound(c.type, sev, fs[first].file, unscoped)
    OBVIOUS
  <2> HIDE DEF f
  <2>6. f \in AFinding /\ f.type = c.type /\ f.sev = sev /\ f.unscoped = unscoped
    BY <2>2, <2>4, <2>5, <2>13, CompoundFacts
  <2>7. CompoundOf(f)
    BY <2>5, <2>6 DEF CompoundOf
  <2>8. /\ Follows(fs, u) /\ Len(u) = Len(fs) + 1
        /\ \A i \in 1..Len(fs) : u[i] = fs[i]
        /\ u[Len(fs) + 1] = f
    BY <2>6, Appended
  <2>9. DOMAIN u = 1..Len(u) /\ Len(fs) \in Nat /\ DOMAIN fs = 1..Len(fs)
    BY <2>8 DEF Follows
  <2> HIDE DEF u
  <2>10. \A j \in DOMAIN u : j \in DOMAIN fs \/ j = Len(fs) + 1
    BY <2>8, <2>9
  <2>11. Boosts(fs, u)
    BY <2>7, <2>8, <2>9, <2>10 DEF Boosts
  <2>12. c.type \in Types(u)
    <3>1. Len(fs) + 1 \in DOMAIN u
      BY <2>8, <2>9
    <3> QED
      BY <2>6, <2>8, <3>1 DEF Types
  <2> QED
    BY <2>1, <2>11, <2>12
<1> QED
  BY <1>1, <1>2

LEMMA ReplacedPass ==
  ASSUME NEW fs \in Seq(AFinding), NEW c \in ToSet(Compounds)
  PROVE  Boosts(fs, Replaced(fs, c)) /\ Types(Replaced(fs, c)) = Types(fs)
<1> DEFINE g == Replaced(fs, c)
           free(t) == {i \in OfType(fs, t) : fs[i].by = None}
           Stands(i) == /\ fs[i].type \in c.requires
                        /\ \A j \in OfType(fs, fs[i].type) : fs[j].by # c.type
                        /\ i \in free(fs[i].type)
                        /\ \A j \in free(fs[i].type) : i <= j
                        /\ fs[i].sev < c.severity
           By(f) == [f EXCEPT !.by = c.type]
<1>1. g = [i \in DOMAIN fs |-> IF Stands(i) THEN By(fs[i]) ELSE fs[i]]
  BY DEF Replaced
<1>2. \A i \in DOMAIN fs : fs[i] \in AFinding
  OBVIOUS
<1>3. c.type \in Kinds
  BY ACompound DEF CompoundRule
<1>4. \A f \in AFinding : ComesOf(f, By(f)) /\ By(f).sev = f.sev
  BY <1>3, Changed, Updated
<1> HIDE DEF g, Stands, By
<1>5. ASSUME NEW i \in DOMAIN fs PROVE ComesOf(fs[i], g[i]) /\ g[i].sev = fs[i].sev
  BY <1>1, <1>2, <1>4, ComesOfItself
<1>6. Follows(fs, g) /\ DOMAIN g = DOMAIN fs
  BY <1>1, <1>5, EachAlone
<1>7. \A i \in DOMAIN fs : g[i].type = fs[i].type
  BY <1>5 DEF ComesOf, Alike
<1>8. Boosts(fs, g)
  BY <1>5, <1>6 DEF Boosts
<1>9. Types(g) = Types(fs)
  BY <1>6, <1>7 DEF Types
<1> QED
  BY <1>8, <1>9 DEF g

\* A compound fires when its parts are there and in scope.
LEMMA FiredPass ==
  ASSUME NEW fs \in Seq(AFinding), NEW c \in ToSet(Compounds)
  PROVE  /\ Boosts(fs, Fired(fs, c))
         /\ /\ PartsPresent(fs, c) /\ ~OnlyBundled(fs, c)
            /\ lifecycleScope(fs, c) # "skip" /\ Together(fs, c)
            => c.type \in Types(Fired(fs, c))
<1>1. CASE ~PartsPresent(fs, c) \/ OnlyBundled(fs, c) \/ lifecycleScope(fs, c) = "skip"
  BY <1>1, BoostsItself DEF Fired
<1>2. CASE ~(~PartsPresent(fs, c) \/ OnlyBundled(fs, c) \/ lifecycleScope(fs, c) = "skip")
  <2>1. c.requires \subseteq Types(fs)
    BY <1>2 DEF PartsPresent
  <2>2. CASE lifecycleScope(fs, c) = "unscoped"
    <3>1. Fired(fs, c) = Added(fs, c, TRUE)
      BY <1>2, <2>2 DEF Fired
    <3> QED
      BY <2>1, <3>1, AddedPass
  <2>3. CASE lifecycleScope(fs, c) # "unscoped" /\ Together(fs, c)
    <3>1. Fired(fs, c) = Replaced(Added(fs, c, FALSE), c)
      BY <1>2, <2>3 DEF Fired
    <3>2. Boosts(fs, Added(fs, c, FALSE)) /\ c.type \in Types(Added(fs, c, FALSE))
      BY <2>1, AddedPass
    <3>3. Added(fs, c, FALSE) \in Seq(AFinding)
      BY <3>2 DEF Boosts, Follows
    <3>4. /\ Boosts(Added(fs, c, FALSE), Replaced(Added(fs, c, FALSE), c))
          /\ Types(Replaced(Added(fs, c, FALSE), c)) = Types(Added(fs, c, FALSE))
      BY <3>3, ReplacedPass
    <3> QED
      BY <3>1, <3>2, <3>4, BoostsTrans
  <2>4. CASE lifecycleScope(fs, c) # "unscoped" /\ ~Together(fs, c)
    <3>1. Fired(fs, c) = fs
      BY <1>2, <2>4 DEF Fired
    <3> QED
      BY <2>4, <3>1, BoostsItself
  <2> QED
    BY <2>2, <2>3, <2>4
<1> QED
  BY <1>1, <1>2

\* What a compound asks of a list of findings.
Arms(fs, c) ==
  /\ PartsPresent(fs, c) /\ ~OnlyBundled(fs, c)
  /\ lifecycleScope(fs, c) # "skip" /\ Together(fs, c)

\* Whatever the compounds before it made of the list, it has what c asks for.
Due(fs, c) == \A g : Boosts(fs, g) => Arms(g, c)

\* What the boosts make of fs in n turns.
BoostedLists(fs, n) ==
  {g \in Seq(AFinding) : /\ Boosts(fs, g)
                         /\ \A m \in 1..n : Due(fs, Compounds[m]) => Compounds[m].type \in Types(g)}

LEMMA TypesGrow ==
  ASSUME NEW a \in Seq(AFinding), NEW b, Follows(a, b)
  PROVE  Types(a) \subseteq Types(b)
<1>1. /\ DOMAIN a = 1..Len(a) /\ DOMAIN b = 1..Len(b) /\ Len(a) \in Nat /\ Len(b) \in Nat
      /\ Len(a) <= Len(b)
  BY DEF Follows
<1>2. ASSUME NEW i \in DOMAIN a PROVE i \in DOMAIN b /\ b[i].type = a[i].type
  BY <1>1 DEF Follows, ComesOf, Alike
<1> QED
  BY <1>2 DEF Types

LEMMA BoostTurn ==
  ASSUME NEW fs \in Seq(AFinding), NEW n \in 1..Len(Compounds), NEW g \in BoostedLists(fs, n - 1)
  PROVE  Fired(g, Compounds[n]) \in BoostedLists(fs, n)
<1> DEFINE c == Compounds[n]
           h == Fired(g, c)
<1>1. c \in ToSet(Compounds)
  BY CompoundsAssumption DEF ToSet
<1>2. /\ g \in Seq(AFinding) /\ Boosts(fs, g)
      /\ \A m \in 1..(n - 1) : Due(fs, Compounds[m]) => Compounds[m].type \in Types(g)
  BY DEF BoostedLists
<1>3. Boosts(g, h) /\ (Arms(g, c) => c.type \in Types(h))
  BY <1>1, <1>2, FiredPass DEF Arms
<1> HIDE DEF h
<1>4. h \in Seq(AFinding) /\ Boosts(fs, h) /\ Types(g) \subseteq Types(h)
  <2>1. Follows(g, h)
    BY <1>3 DEF Boosts
  <2> QED
    BY <1>2, <1>3, <2>1, BoostsTrans, TypesGrow DEF Follows
<1>5. Due(fs, c) => c.type \in Types(h)
  BY <1>2, <1>3 DEF Due
<1>6. ASSUME NEW m \in 1..n, Due(fs, Compounds[m]) PROVE Compounds[m].type \in Types(h)
  <2>1. m \in 1..(n - 1) \/ m = n
    BY CompoundsAssumption
  <2> QED
    BY <1>2, <1>4, <1>5, <1>6, <2>1
<1> QED
  BY <1>4, <1>6 DEF BoostedLists, h

BoostCourse(f, fs) ==
  f = [n \in 0..Len(Compounds) |-> IF n = 0 THEN fs ELSE Fired(f[n - 1], Compounds[n])]

LEMMA BoostsPass ==
  ASSUME NEW fs \in Seq(AFinding)
  PROVE  applyCompoundBoosts(fs) \in BoostedLists(fs, Len(Compounds))
<1> DEFINE N == Len(Compounds)
           T == {g \in Seq(AFinding) : Boosts(fs, g)}
           step == [n \in 1..N |-> [g \in T |-> Fired(g, Compounds[n])]]
           h == CHOOSE f : BoostCourse(f, fs)
<1>1. N \in Nat
  BY CompoundsAssumption
<1>2. fs \in T
  BY BoostsItself
<1>3. step \in [1..N -> [T -> T]]
  <2>1. ASSUME NEW n \in 1..N, NEW g \in T PROVE Fired(g, Compounds[n]) \in T
    <3>1. Compounds[n] \in ToSet(Compounds)
      BY CompoundsAssumption DEF ToSet
    <3>2. Boosts(g, Fired(g, Compounds[n]))
      BY <3>1, FiredPass
    <3>3. Fired(g, Compounds[n]) \in Seq(AFinding)
      BY <3>2 DEF Boosts, Follows
    <3> QED
      BY <3>2, <3>3, BoostsTrans
  <2> QED
    BY <2>1
<1>4. \E f : BoostCourse(f, fs)
  <2>1. \A n \in 1..N : \A g \in T : step[n][g] = Fired(g, Compounds[n])
    OBVIOUS
  <2> HIDE DEF step, N, T
  <2>2. PICK f : Course(f, T, fs, N, step)
    BY <1>1, <1>2, <1>3, Courses DEF Turns
  <2>3. \A n \in 0..N : f[n] = IF n = 0 THEN fs ELSE Fired(f[n - 1], Compounds[n])
    BY <1>1, <2>1, <2>2 DEF Course
  <2>4. f = [n \in 0..N |-> IF n = 0 THEN fs ELSE Fired(f[n - 1], Compounds[n])]
    BY <2>2, <2>3 DEF Course
  <2> QED
    BY <2>4 DEF BoostCourse, N
<1>5. BoostCourse(h, fs)
  BY <1>4, Zenon
<1>6. applyCompoundBoosts(fs) = h[N]
  BY Zenon DEF applyCompoundBoosts, BoostCourse
<1> HIDE DEF h, T, step
<1>7. h[0] = fs /\ \A n \in 1..N : h[n] = Fired(h[n - 1], Compounds[n])
  <2>1. \A n \in 0..N : h[n] = IF n = 0 THEN fs ELSE Fired(h[n - 1], Compounds[n])
    BY <1>5 DEF BoostCourse
  <2>2. 0 \in 0..N /\ \A n \in 1..N : n \in 0..N /\ n # 0
    BY <1>1
  <2> QED
    BY <2>1, <2>2
<1> DEFINE G == {n \in 0..N : h[n] \in BoostedLists(fs, n)}
<1>8. 0 \in G
  <2>1. fs \in BoostedLists(fs, 0)
    BY <1>2 DEF BoostedLists, T
  <2> QED
    BY <1>1, <1>7, <2>1
<1>9. ASSUME NEW n \in 1..N, n - 1 \in G PROVE n \in G
  <2>1. h[n - 1] \in BoostedLists(fs, n - 1) /\ n \in 0..N
    BY <1>9
  <2>2. Fired(h[n - 1], Compounds[n]) \in BoostedLists(fs, n)
    BY <1>9, <2>1, BoostTurn
  <2> QED
    BY <1>7, <1>9, <2>1, <2>2
<1> HIDE DEF G
<1>10. N \in G
  <2>1. \A n \in 0..N : n \in G
    BY <1>1, <1>8, <1>9, Climb
  <2> QED
    BY <1>1, <2>1
<1> QED
  BY <1>6, <1>10 DEF G

\* Findings added to a list leave the compound armed, unless all of its parts were in
\* the manifest and the added ones are not.
LEMMA DueKept ==
  ASSUME NEW a, NEW b, NEW c,
         \A i \in DOMAIN a : i \in DOMAIN b /\ b[i].type = a[i].type /\ b[i].file = a[i].file,
         \A j \in DOMAIN b : \/ j \in DOMAIN a \/ b[j].type \notin c.requires
                             \/ b[j].file = Manifest \/ b[j].file \notin Bundled
  PROVE  /\ Types(a) \subseteq Types(b) /\ Component(a, c) \subseteq Component(b, c)
         /\ ~OnlyBundled(a, c) => ~OnlyBundled(b, c)
         /\ lifecycleScope(a, c) # "skip" => lifecycleScope(b, c) # "skip"
         /\ Together(a, c) => Together(b, c)
<1>1. Types(a) \subseteq Types(b) /\ Component(a, c) \subseteq Component(b, c)
  BY DEF Types, Component
<1>2. \A t : FilesWith(a, t) \subseteq FilesWith(b, t)
  BY DEF FilesWith, OfType
<1>3. ASSUME ~OnlyBundled(a, c) PROVE ~OnlyBundled(b, c)
  <2> DEFINE inA == {i \in Component(a, c) : a[i].file # Manifest}
             inB == {i \in Component(b, c) : b[i].file # Manifest}
  <2>1. SUFFICES ASSUME c.unbundled, NEW j \in inB
                 PROVE  \E i \in inB : b[i].file \notin Bundled
    BY DEF OnlyBundled
  <2>2. CASE \E i \in inA : a[i].file \notin Bundled
    <3>1. PICK i \in inA : a[i].file \notin Bundled
      BY <2>2
    <3>2. i \in inB /\ b[i].file \notin Bundled
      BY <1>1, <3>1 DEF Component
    <3> QED
      BY <3>2
  <2>3. CASE inA = {}
    <3>1. j \in DOMAIN b /\ b[j].type \in c.requires /\ b[j].file # Manifest
      BY DEF Component
    <3>2. j \notin DOMAIN a
      BY <2>3, <3>1 DEF Component
    <3> QED
      BY <3>1, <3>2
  <2> QED
    BY <1>3, <2>1, <2>2, <2>3 DEF OnlyBundled
<1>4. lifecycleScope(a, c) # "skip" => lifecycleScope(b, c) # "skip"
  BY <1>1 DEF lifecycleScope, Component
<1>5. ASSUME Together(a, c) PROVE Together(b, c)
  <2>1. CASE c.together = {}
    BY <2>1 DEF Together
  <2>2. CASE \E file \in UNION {FilesWith(a, t) : t \in c.together} :
               \A t \in c.together : file \in FilesWith(a, t)
    BY <1>2, <2>2 DEF Together
  <2>3. CASE /\ c.linked
             /\ \E t \in c.together, u \in c.together :
                  t # u /\ (FilesWith(a, t) \X FilesWith(a, u)) \cap Linked # {}
    <3>1. PICK t \in c.together, u \in c.together :
            t # u /\ (FilesWith(a, t) \X FilesWith(a, u)) \cap Linked # {}
      BY <2>3
    <3>2. (FilesWith(b, t) \X FilesWith(b, u)) \cap Linked # {}
      BY <1>2, <3>1
    <3> QED
      BY <2>3, <3>1, <3>2 DEF Together
  <2> QED
    BY <1>5, <2>1, <2>2, <2>3 DEF Together
<1> QED
  BY <1>1, <1>3, <1>4, <1>5

-----------------------------------------------------------------------------
(* Before the score *)

LEMMA CorroborationPass ==
  ASSUME NEW fs \in Seq(AFinding)
  PROVE  /\ Follows(fs, applyStringIocCorroboration(fs))
         /\ \A i \in DOMAIN fs : applyStringIocCorroboration(fs)[i].sev = fs[i].sev
<1> DEFINE g == applyStringIocCorroboration(fs)
           strings == {i \in OfType(fs, "ioc_string_match") : fs[i].sev = CRITICAL}
           behavioral == \E i \in DOMAIN fs :
             /\ fs[i].type # "ioc_string_match" /\ fs[i].sev # LOW
             /\ fs[i].compound \/ fs[i].type \in STRING_IOC_CORROBORATION_TYPES
           families == {fs[i].ioc[1] : i \in strings}
           evidence == {fs[i].ioc[2] : i \in strings}
           multiplicity == Cardinality(families) = 1 /\ Cardinality(evidence) >= 2
           Hit(i) == i \in strings /\ ~behavioral /\ ~multiplicity
           Alone(f) == [f EXCEPT !.lone = TRUE]
<1>1. g = [i \in DOMAIN fs |-> IF Hit(i) THEN Alone(fs[i]) ELSE fs[i]]
  BY DEF applyStringIocCorroboration
<1>2. \A i \in DOMAIN fs : fs[i] \in AFinding
  OBVIOUS
<1>3. \A f \in AFinding : ComesOf(f, Alone(f)) /\ Alone(f).sev = f.sev
  BY Changed, Updated
<1> HIDE DEF g, Hit, Alone
<1>4. ASSUME NEW i \in DOMAIN fs PROVE ComesOf(fs[i], g[i]) /\ g[i].sev = fs[i].sev
  BY <1>1, <1>2, <1>3, ComesOfItself
<1>5. Follows(fs, g)
  BY <1>1, <1>4, EachAlone
<1> QED
  BY <1>4, <1>5 DEF g

LEMMA IntentsPass ==
  ASSUME NEW fs \in Seq(AFinding), NEW intents \in Seq(Report)
  PROVE  /\ Follows(fs, WithIntents(fs, intents))
         /\ \A i \in DOMAIN fs : WithIntents(fs, intents)[i] = fs[i]
<1> DEFINE Away(i) == reachable # {} /\ intents[i].file \notin reachable
           x == [i \in DOMAIN intents |->
                   IF Away(i) THEN [Finding(intents[i]) EXCEPT !.sev = LOW]
                   ELSE Finding(intents[i])]
<1>1. WithIntents(fs, intents) = fs \o x
  BY DEF WithIntents
<1>2. \A i \in DOMAIN intents : intents[i] \in Report
  OBVIOUS
<1>3. \A i \in DOMAIN intents : Finding(intents[i]) \in AFinding
  BY <1>2, Reported
<1>4. \A f \in AFinding : [f EXCEPT !.sev = LOW] \in AFinding
  BY Updated, Levels
<1> HIDE DEF Away
<1>5. \A i \in DOMAIN intents : x[i] \in AFinding
  BY <1>3, <1>4
<1>6. x = [i \in 1..Len(intents) |-> x[i]] /\ Len(intents) \in Nat
      /\ DOMAIN intents = 1..Len(intents)
  OBVIOUS
<1> HIDE DEF x
<1>7. x \in Seq(AFinding)
  BY <1>5, <1>6
<1>8. Follows(fs, fs \o x) /\ \A i \in 1..Len(fs) : (fs \o x)[i] = fs[i]
  BY <1>7, Extended
<1> QED
  BY <1>1, <1>8

LEMMA CalculatePass ==
  ASSUME NEW fs \in Seq(AFinding), NEW intent \in Intents,
         NEW b, b = applyStringIocCorroboration(WithIntents(fs, intent.findings))
  PROVE  Follows(fs, b) /\ \A i \in DOMAIN fs : b[i].sev = fs[i].sev
<1> DEFINE a == WithIntents(fs, intent.findings)
<1>1. intent.findings \in Seq(Report)
  BY ReportsAssumption
<1>2. Follows(fs, a) /\ \A i \in DOMAIN fs : a[i] = fs[i]
  BY <1>1, IntentsPass
<1> HIDE DEF a
<1>3. /\ a \in Seq(AFinding) /\ Len(fs) \in Nat /\ Len(a) \in Nat /\ Len(fs) <= Len(a)
      /\ DOMAIN fs = 1..Len(fs) /\ DOMAIN a = 1..Len(a)
  BY <1>2 DEF Follows
<1>4. Follows(a, b) /\ \A i \in DOMAIN a : b[i].sev = a[i].sev
  BY <1>3, CorroborationPass DEF a
<1>5. \A i \in DOMAIN fs : b[i].sev = fs[i].sev
  BY <1>2, <1>3, <1>4
<1> QED
  BY <1>2, <1>4, <1>5, FollowsTrans

-----------------------------------------------------------------------------
(* The findings of the scanners *)

\* The findings as the scanners reported them.
Reports == [i \in DOMAIN found |-> Finding(found[i])]

LEMMA ReportsFacts ==
  ASSUME found \in Packages
  PROVE  /\ Reports \in Seq(AFinding) /\ Len(Reports) = Len(found) /\ DOMAIN Reports = DOMAIN found
         /\ Len(found) \in Nat /\ DOMAIN found = 1..Len(found)
         /\ \A i \in DOMAIN found :
              /\ Reports[i].type = found[i].type /\ Reports[i].file = found[i].file
              /\ Reports[i].note = found[i].note
              /\ Reports[i].sev = found[i].sev /\ Reports[i].orig = found[i].sev
              /\ Reports[i].was = NotCounted
<1>1. found \in Seq(Report)
  BY ReportsAssumption
<1>2. Len(found) \in Nat /\ DOMAIN found = 1..Len(found) /\ \A i \in DOMAIN found : found[i] \in Report
  BY <1>1
<1>3. \A i \in DOMAIN found : Reports[i] = Finding(found[i])
  BY DEF Reports
<1>4. \A i \in DOMAIN found :
        /\ Reports[i] \in AFinding
        /\ Reports[i].type = found[i].type /\ Reports[i].file = found[i].file
        /\ Reports[i].note = found[i].note
        /\ Reports[i].sev = found[i].sev /\ Reports[i].orig = found[i].sev
        /\ Reports[i].was = NotCounted
  BY <1>2, <1>3, Reported
<1>5. Reports = [i \in 1..Len(found) |-> Reports[i]]
  BY <1>2 DEF Reports
<1>6. Reports \in Seq(AFinding) /\ Len(Reports) = Len(found) /\ DOMAIN Reports = 1..Len(found)
  BY <1>2, <1>4, <1>5
<1> QED
  BY <1>2, <1>4, <1>6

\* What the findings are before the boosts.
BeforeBoosts == {"found", "correlated", "reduced", "decayed"}
Traced ==
  /\ Follows(Reports, findings)
  /\ stage \in {"found", "correlated"} => Correlates(Reports, findings)
  /\ stage \in BeforeBoosts => \A j \in DOMAIN findings : j \in DOMAIN found \/ Later(findings[j])

-----------------------------------------------------------------------------
(* The pipeline *)

\* The findings after a step come of the findings before it.
LEMMA FindingsKept ==
  ASSUME TypeOK, [Next]_vars
  PROVE  /\ Follows(findings, findings') /\ found' = found /\ reachable' = reachable
         /\ targets' = targets
<1>1. findings \in Seq(AFinding)
  BY DEF TypeOK
<1>2. Follows(findings, findings)
  BY <1>1, FollowsItself
<1>3. CASE Correlate
  <2>1. PICK benign :
          /\ findings' = withLifecycleFileExec(withDetachedExfil(findings, benign))
          /\ UNCHANGED context
    BY <1>3 DEF Correlate, Pass
  <2>2. Follows(findings, findings')
    BY <1>1, <2>1, CorrelatePass DEF Correlates
  <2> QED
    BY <2>1, <2>2 DEF context
<1>4. CASE Reduce
  BY <1>1, <1>4, ReductionsPass DEF Reduce, Pass, context
<1>5. CASE Decay
  BY <1>1, <1>5, DeltaPass DEF Decay, Pass, context
<1>6. CASE Boost
  <2>1. findings' = applyCompoundBoosts(findings) /\ UNCHANGED context
    BY <1>6 DEF Boost, Pass
  <2>2. Boosts(findings, findings')
    BY <1>1, <2>1, BoostsPass DEF BoostedLists
  <2> QED
    BY <2>1, <2>2 DEF Boosts, context
<1>7. CASE Calculate
  <2>1. PICK intent \in Intents :
          /\ findings' = applyStringIocCorroboration(WithIntents(findings, intent.findings))
          /\ UNCHANGED context
    BY <1>7 DEF Calculate, Adjust
  <2> QED
    BY <1>1, <2>1, CalculatePass DEF context
<1>8. CASE Cap \/ Mature \/ Floor \/ Weigh \/ Sandbox \/ Done \/ UNCHANGED vars
  <2>1. findings' = findings /\ UNCHANGED context
    BY <1>8 DEF Cap, Mature, Floor, Weigh, Sandbox, Done, Adjust, vars, context
  <2> QED
    BY <1>2, <2>1 DEF context
<1> QED
  BY <1>3, <1>4, <1>5, <1>6, <1>7, <1>8 DEF Next

LEMMA InitType == Init => TypeOK
<1> SUFFICES ASSUME Init PROVE TypeOK
  OBVIOUS
<1>1. findings \in Seq(AFinding)
  BY ReportsFacts DEF Init, Reports
<1> QED
  BY <1>1 DEF Init, TypeOK, riskLevel, Stages

LEMMA NextType == TypeOK /\ [Next]_vars => TypeOK'
<1> SUFFICES ASSUME TypeOK, [Next]_vars PROVE TypeOK'
  OBVIOUS
<1> USE DEF TypeOK, Stages
<1>1. findings' \in Seq(AFinding)
  BY FindingsKept DEF Follows
<1>2. ASSUME NEW from, NEW to \in Stages, NEW fs, Pass(from, to, fs),
             profile' \in Profiles \cup {Unknown}
      PROVE  TypeOK'
  BY <1>1, <1>2 DEF Pass, context
<1>3. ASSUME NEW from, NEW to \in Stages, NEW s \in 0..100, Adjust(from, to, s)
      PROVE  TypeOK'
  BY <1>1, <1>3 DEF Adjust, context
<1>4. CASE Correlate
  BY <1>2, <1>4 DEF Correlate
<1>5. CASE Reduce
  BY <1>2, <1>5 DEF Reduce
<1>6. CASE Decay
  BY <1>2, <1>6 DEF Decay
<1>7. CASE Boost
  BY <1>2, <1>7 DEF Boost
<1>8. CASE Calculate
  BY <1>3, <1>8, CalculatedType DEF Calculate
<1>9. CASE Cap
  BY <1>3, <1>9, PassesType DEF Cap
<1>10. CASE Mature
  BY <1>3, <1>10, PassesType DEF Mature
<1>11. CASE Floor
  BY <1>3, <1>11, PassesType DEF Floor
<1>12. CASE Weigh
  BY <1>3, <1>12, PassesType DEF Weigh
<1>13. CASE Sandbox
  BY <1>3, <1>13, PassesType DEF Sandbox
<1>14. CASE Done \/ UNCHANGED vars
  BY <1>14 DEF Done, vars
<1> QED
  BY <1>4, <1>5, <1>6, <1>7, <1>8, <1>9, <1>10, <1>11, <1>12, <1>13, <1>14 DEF Next

\* The score is in 0..100 and the level its level after every pass of the
\* pipeline, and every pass leaves a list of findings, for every table the passes read.
THEOREM TypeCorrect == Spec => []TypeOK
<1>1. Init => TypeOK
  BY InitType
<1>2. TypeOK /\ [Next]_vars => TypeOK'
  BY NextType
<1> QED
  BY <1>1, <1>2, PTL DEF Spec

-----------------------------------------------------------------------------

LEMMA InitTraced ==
  ASSUME Init PROVE Traced
<1>1. Reports \in Seq(AFinding) /\ DOMAIN Reports = DOMAIN found /\ findings = Reports
      /\ stage = "found"
  BY ReportsFacts DEF Init, Reports
<1>2. Follows(Reports, Reports)
  BY <1>1, FollowsItself
<1> QED
  BY <1>1, <1>2 DEF Traced, Correlates

LEMMA NextTraced ==
  ASSUME TypeOK, Traced, [Next]_vars PROVE Traced'
<1>1. /\ found \in Packages /\ findings \in Seq(AFinding)
      /\ Reports \in Seq(AFinding) /\ Reports' = Reports /\ found' = found
      /\ DOMAIN Reports = DOMAIN found /\ Len(Reports) = Len(found) /\ DOMAIN found = 1..Len(found)
      /\ Follows(Reports, findings) /\ Follows(findings, findings')
  BY FindingsKept, ReportsFacts DEF TypeOK, Traced, Reports
<1>2. Follows(Reports, findings')
  BY <1>1, FollowsTrans
<1>3. CASE Correlate
  <2>1. PICK benign : findings' = withLifecycleFileExec(withDetachedExfil(findings, benign))
    BY <1>3 DEF Correlate, Pass
  <2>2. Correlates(Reports, findings)
    BY <1>3 DEF Correlate, Pass, Traced
  <2>3. Correlates(findings, findings')
    BY <1>1, <2>1, CorrelatePass
  <2>4. Correlates(Reports, findings')
    BY <1>1, <2>2, <2>3, CorrelatesTrans
  <2>5. \A j \in DOMAIN findings' : j \in DOMAIN found' \/ Later(findings'[j])
    BY <1>1, <2>4 DEF Correlates
  <2> QED
    BY <1>1, <1>2, <2>4, <2>5 DEF Traced
<1>4. CASE Reduce \/ Decay
  <2>1. /\ DOMAIN findings' = DOMAIN findings /\ stage \in BeforeBoosts
        /\ stage' \notin {"found", "correlated"}
    BY <1>1, <1>4, ReductionsPass, DeltaPass DEF Reduce, Decay, Pass, BeforeBoosts
  <2>2. ASSUME NEW j \in DOMAIN findings', j \notin DOMAIN found PROVE Later(findings'[j])
    <3>1. Later(findings[j]) /\ j \in 1..Len(findings)
      BY <1>1, <2>1, <2>2 DEF Traced
    <3>2. findings'[j].type = findings[j].type /\ findings'[j].file = findings[j].file
      BY <1>1, <3>1 DEF Follows, ComesOf, Alike
    <3> QED
      BY <3>1, <3>2 DEF Later
  <2> QED
    BY <1>1, <1>2, <2>1, <2>2 DEF Traced
<1>5. CASE UNCHANGED vars
  <2>1. findings' = findings /\ stage' = stage
    BY <1>5 DEF vars
  <2> QED
    BY <1>1, <2>1 DEF Traced
<1>6. CASE Boost \/ Calculate \/ Cap \/ Mature \/ Floor \/ Weigh \/ Sandbox \/ Done
  <2>1. stage' \notin BeforeBoosts
    BY <1>6 DEF Boost, Calculate, Cap, Mature, Floor, Weigh, Sandbox, Done, Pass, Adjust,
                vars, BeforeBoosts
  <2> QED
    BY <1>1, <1>2, <2>1 DEF Traced, BeforeBoosts
<1> QED
  BY <1>3, <1>4, <1>5, <1>6 DEF Next

LEMMA TracedCorrect == Spec => [](TypeOK /\ Traced)
<1>1. Init => TypeOK /\ Traced
  BY InitType, InitTraced
<1>2. TypeOK /\ Traced /\ [Next]_vars => (TypeOK /\ Traced)'
  BY NextType, NextTraced
<1> QED
  BY <1>1, <1>2, PTL DEF Spec

-----------------------------------------------------------------------------
(* The reductions leave one *)

LEMMA NextUndiluted ==
  ASSUME TypeOK, Traced, Undiluted, [Next]_vars PROVE Undiluted'
<1>1. CASE Reduce
  <2>1. /\ findings \in Seq(AFinding) /\ found \in Packages /\ stage = "correlated"
        /\ findings' = applyFPReductions(findings) /\ found' = found /\ reachable' = reachable
    BY <1>1 DEF TypeOK, Reduce, Pass, context
  <2>2. Correlates(Reports, findings) /\ Follows(Reports, findings)
    BY <2>1 DEF Traced
  <2>3. /\ Len(found) \in Nat /\ DOMAIN found = 1..Len(found) /\ Len(Reports) = Len(found)
        /\ \A i \in DOMAIN found :
             /\ Reports[i].type = found[i].type /\ Reports[i].file = found[i].file
             /\ Reports[i].note = found[i].note
             /\ Reports[i].sev = found[i].sev /\ Reports[i].orig = found[i].sev
             /\ Reports[i].was = NotCounted
        /\ DOMAIN Reports = DOMAIN found
    BY <2>1, ReportsFacts
  <2>4. Len(found) \in 0..Len(findings)
    BY <2>1, <2>2, <2>3 DEF Follows
  <2>5. Fresh(findings)
    <3>1. \A i \in DOMAIN findings : findings[i].was = NotCounted /\ findings[i].orig = findings[i].sev
      BY <2>2, <2>3 DEF Correlates
    <3> QED
      BY <3>1 DEF Fresh
  <2>6. \A i \in DOMAIN found :
          /\ findings[i].type = found[i].type /\ findings[i].file = found[i].file
          /\ findings[i].note = found[i].note
    BY <2>2, <2>3 DEF Follows, ComesOf, Alike
  <2>7. ASSUME NEW t \in Types(found) \cap DOMAIN CountRules,
               CountRules[t].floor, t # "credential_regex_harvest",
               \A i \in OfType(found, t) :
                 /\ found[i].file \notin Bundled /\ found[i].note = ""
                 /\ reachable = {} \/ found[i].file \in reachable
        PROVE  \E i \in OfType(findings', t) : findings'[i].sev = findings'[i].orig
    <3>1. PICK first \in DOMAIN found : found[first].type = t
      BY DEF Types
    <3>2. first \in 1..Len(found) /\ findings[first].type = t
      BY <2>3, <2>6, <3>1
    <3>3. ASSUME NEW i \in 1..Len(found), findings[i].type = t PROVE Plain(findings[i])
      <4>1. i \in OfType(found, t)
        BY <2>3, <2>6, <3>3 DEF OfType
      <4> QED
        BY <2>3, <2>6, <2>7, <4>1 DEF Plain
    <3>4. \E k \in OfType(applyFPReductions(findings), t) :
             applyFPReductions(findings)[k].sev = applyFPReductions(findings)[k].orig
      BY <2>1, <2>4, <2>5, <2>7, <3>2, <3>3, FloorSurvives
    <3> QED
      BY <2>1, <3>4
  <2>8. Guarded(findings')
    BY <2>1, ReductionsPass
  <2> QED
    BY <2>1, <2>7, <2>8 DEF Undiluted, Guarded
<1>2. CASE UNCHANGED vars
  <2>1. /\ stage' = stage /\ found' = found /\ findings' = findings
        /\ reachable' = reachable
    BY <1>2 DEF vars
  <2>2. \A t : OfType(findings, t)' = OfType(findings, t) /\ OfType(found, t)' = OfType(found, t)
    BY <2>1 DEF OfType
  <2>3. Types(found)' = Types(found)
    BY <2>1 DEF Types
  <2> QED
    BY ONLY <2>1, <2>2, <2>3, Undiluted DEF Undiluted
<1>3. CASE ~Reduce /\ ~UNCHANGED vars
  <2>1. stage' # "reduced"
    BY <1>3 DEF Next, Correlate, Decay, Boost, Calculate, Cap, Mature, Floor, Weigh, Sandbox,
                Done, Pass, Adjust
  <2> QED
    BY <2>1 DEF Undiluted
<1> QED
  BY <1>1, <1>2, <1>3

\* Whatever the numbers of findings, the tables, the bundles and the import graph: one
\* finding of a type with a floor keeps its severity if no path speaks against the type's
\* findings, and next to a live install script one of a guarded type stays above LOW.
THEOREM NotDiluted == Spec => []Undiluted
<1>1. Init => Undiluted
  BY DEF Init, Undiluted
<1>2. TypeOK /\ Traced /\ Undiluted /\ [Next]_vars => Undiluted'
  BY NextUndiluted
<1> QED
  BY <1>1, <1>2, TracedCorrect, PTL DEF Spec

-----------------------------------------------------------------------------
(* The compounds survive the reductions *)

LEMMA OneCompound ==
  ASSUME NEW c \in ToSet(Compounds), NEW d \in ToSet(Compounds), c.type = d.type
  PROVE  c = d
<1>1. PICK m \in DOMAIN Compounds : Compounds[m] = c
  BY ACompound
<1>2. PICK n \in DOMAIN Compounds : Compounds[n] = d
  BY ACompound
<1> QED
  BY <1>1, <1>2, CompoundsAssumption

\* What a compound asks of the scanners' findings.
CalledFor(c) ==
  /\ c.requires \subseteq Types(found)
  /\ \E i \in Component(found, c) : found[i].sev >= (IF c.high THEN HIGH ELSE MEDIUM)
  /\ ~OnlyBundled(found, c) /\ Together(found, c)
  /\ lifecycleScope(found, c) # "skip"

LEMMA ReportedIsDue ==
  ASSUME TypeOK, Traced, stage = "decayed", NEW c \in ToSet(Compounds), CalledFor(c)
  PROVE  Due(findings, c)
<1> SUFFICES ASSUME NEW g, Boosts(findings, g) PROVE Arms(g, c)
  BY DEF Due
<1>1. /\ findings \in Seq(AFinding) /\ found \in Packages /\ Follows(Reports, findings)
      /\ \A j \in DOMAIN findings : j \in DOMAIN found \/ Later(findings[j])
  BY DEF TypeOK, Traced, BeforeBoosts
<1>2. /\ Len(found) \in Nat /\ DOMAIN found = 1..Len(found) /\ Len(Reports) = Len(found)
      /\ Reports \in Seq(AFinding)
      /\ \A i \in DOMAIN found :
           /\ Reports[i].type = found[i].type /\ Reports[i].file = found[i].file
           /\ Reports[i].orig = found[i].sev
  BY <1>1, ReportsFacts
<1>3. /\ Follows(findings, g) /\ Follows(Reports, g)
      /\ DOMAIN findings = 1..Len(findings) /\ DOMAIN g = 1..Len(g)
      /\ Len(findings) \in Nat /\ Len(g) \in Nat /\ Len(found) <= Len(g)
  <2>1. Follows(findings, g) /\ Follows(Reports, g)
    BY <1>1, <1>2, FollowsTrans DEF Boosts
  <2> QED
    BY <1>1, <1>2, <2>1 DEF Follows
<1>4. \A i \in DOMAIN found :
        /\ i \in DOMAIN g /\ g[i].type = found[i].type /\ g[i].file = found[i].file
        /\ g[i].orig = found[i].sev
  BY <1>2, <1>3 DEF Follows, ComesOf, Alike
<1>5. ASSUME NEW j \in DOMAIN g, j \notin DOMAIN found
      PROVE  g[j].type \notin c.requires \/ g[j].file = Manifest \/ g[j].file \notin Bundled
  <2>1. CASE j \in DOMAIN findings
    <3>1. Later(findings[j])
      BY <1>1, <1>5, <2>1
    <3>2. g[j].file = findings[j].file
      BY <1>3, <2>1 DEF Follows, ComesOf, Alike
    <3> QED
      BY <3>1, <3>2 DEF Later
  <2>2. CASE j \notin DOMAIN findings
    <3>1. PICK d \in ToSet(Compounds) : g[j].type = d.type
      BY <2>2 DEF Boosts, CompoundOf
    <3> QED
      BY <3>1, CompoundsAssumption
  <2> QED
    BY <2>1, <2>2
<1>6. /\ Types(found) \subseteq Types(g) /\ Component(found, c) \subseteq Component(g, c)
      /\ ~OnlyBundled(found, c) => ~OnlyBundled(g, c)
      /\ lifecycleScope(found, c) # "skip" => lifecycleScope(g, c) # "skip"
      /\ Together(found, c) => Together(g, c)
  BY <1>4, <1>5, DueKept
<1>7. PartsPresent(g, c)
  <2>1. PICK i \in Component(found, c) : found[i].sev >= (IF c.high THEN HIGH ELSE MEDIUM)
    BY DEF CalledFor
  <2>2. i \in DOMAIN found
    BY DEF Component
  <2> QED
    BY <1>4, <1>6, <2>1, <2>2 DEF PartsPresent, CalledFor
<1> QED
  BY <1>6, <1>7 DEF Arms, CalledFor

\* A compound of the list.
Fires(fs, c) ==
  \E i \in OfType(fs, c.type) :
    \/ fs[i].sev = c.severity
    \/ fs[i].sev = HIGH /\ fs[i].unscoped

LEMMA FiresKept ==
  ASSUME NEW a \in Seq(AFinding), NEW b, NEW c, Fires(a, c), Follows(a, b),
         \A i \in DOMAIN a : b[i].sev = a[i].sev
  PROVE  Fires(b, c)
<1>1. PICK i \in OfType(a, c.type) :
        \/ a[i].sev = c.severity
        \/ a[i].sev = HIGH /\ a[i].unscoped
  BY DEF Fires
<1>2. i \in DOMAIN a /\ a[i].type = c.type
  BY DEF OfType
<1>3. /\ DOMAIN a = 1..Len(a) /\ DOMAIN b = 1..Len(b) /\ Len(a) \in Nat /\ Len(b) \in Nat
      /\ Len(a) <= Len(b)
  BY DEF Follows
<1>4. /\ i \in DOMAIN b /\ b[i].type = a[i].type /\ b[i].unscoped = a[i].unscoped
      /\ b[i].sev = a[i].sev
  BY <1>2, <1>3 DEF Follows, ComesOf, Alike
<1> QED
  BY <1>1, <1>2, <1>4 DEF Fires, OfType

LEMMA DueFires ==
  ASSUME TypeOK, Traced, Boost, NEW c \in ToSet(Compounds), CalledFor(c)
  PROVE  Fires(findings', c)
<1>1. /\ findings \in Seq(AFinding) /\ found \in Packages /\ stage = "decayed"
      /\ findings' = applyCompoundBoosts(findings)
      /\ \A j \in DOMAIN findings : j \in DOMAIN found \/ Later(findings[j])
      /\ Follows(Reports, findings)
  BY DEF TypeOK, Boost, Pass, Traced, BeforeBoosts
<1>2. Boosts(findings, findings') /\ c.type \in Types(findings')
  <2>1. /\ Boosts(findings, findings')
        /\ \A m \in 1..Len(Compounds) :
             Due(findings, Compounds[m]) => Compounds[m].type \in Types(findings')
    BY <1>1, BoostsPass DEF BoostedLists
  <2>2. PICK m \in DOMAIN Compounds : Compounds[m] = c
    BY ACompound
  <2>3. DOMAIN Compounds = 1..Len(Compounds)
    BY CompoundsAssumption
  <2> QED
    BY <1>1, <2>1, <2>2, <2>3, ReportedIsDue
<1>3. PICK i \in DOMAIN findings' : findings'[i].type = c.type
  BY <1>2 DEF Types
<1>4. i \notin DOMAIN findings
  <2> SUFFICES ASSUME i \in DOMAIN findings PROVE FALSE
    OBVIOUS
  <2>1. findings[i].type = c.type
    BY <1>1, <1>2, <1>3 DEF Boosts, Follows, ComesOf, Alike
  <2>2. CASE i \in DOMAIN found
    <3>1. findings[i].type = found[i].type
      BY <1>1, <2>2, ReportsFacts DEF Follows, ComesOf, Alike
    <3>2. c.type \in Types(found)
      BY <2>1, <2>2, <3>1 DEF Types
    <3> QED
      BY <1>1, <3>2, CompoundsAssumption
  <2>3. CASE i \notin DOMAIN found
    <3>1. Later(findings[i])
      BY <1>1, <2>3
    <3> QED
      BY <2>1, <3>1, CompoundsAssumption DEF Later
  <2> QED
    BY <2>2, <2>3
<1>5. PICK d \in ToSet(Compounds) :
        /\ findings'[i].type = d.type
        /\ \/ findings'[i].sev = d.severity
           \/ findings'[i].sev = HIGH /\ findings'[i].unscoped
  BY <1>2, <1>4 DEF Boosts, CompoundOf
<1>6. d = c
  BY <1>3, <1>5, OneCompound
<1> QED
  BY <1>3, <1>5, <1>6 DEF Fires, OfType

LEMMA SurviveMeans ==
  CompoundsSurviveReductions <=>
    (stage \notin BeforeBoosts => \A c \in ToSet(Compounds) : CalledFor(c) => Fires(findings, c))
BY DEF CompoundsSurviveReductions, BeforeBoosts, CalledFor, Fires

LEMMA NextSurvive ==
  ASSUME TypeOK, Traced, CompoundsSurviveReductions, [Next]_vars
  PROVE  CompoundsSurviveReductions'
<1>1. /\ findings \in Seq(AFinding) /\ Follows(findings, findings')
      /\ found' = found /\ targets' = targets
  BY FindingsKept DEF TypeOK
<1>2. \A c : CalledFor(c)' <=> CalledFor(c)
  BY <1>1 DEF CalledFor, Types, Component, OnlyBundled, Together, FilesWith, OfType, lifecycleScope
<1>3. SUFFICES ASSUME stage' \notin BeforeBoosts, NEW c \in ToSet(Compounds), CalledFor(c)
               PROVE  Fires(findings', c)
  BY <1>2 DEF CompoundsSurviveReductions, BeforeBoosts, CalledFor, Fires
<1>4. CASE Boost
  BY <1>3, <1>4, DueFires
<1>5. CASE ~Boost
  <2>1. /\ stage \notin BeforeBoosts
        /\ \A i \in DOMAIN findings : findings'[i].sev = findings[i].sev
    <3>1. CASE Calculate
      <4>1. stage = "boosted"
        BY <3>1 DEF Calculate, Adjust
      <4>2. PICK intent \in Intents :
              findings' = applyStringIocCorroboration(WithIntents(findings, intent.findings))
        BY <3>1 DEF Calculate
      <4> QED
        BY <1>1, <4>1, <4>2, CalculatePass DEF BeforeBoosts
    <3>2. CASE ~Calculate
      BY <1>3, <1>5, <3>2 DEF Next, Correlate, Reduce, Decay, Cap, Mature, Floor, Weigh, Sandbox,
           Done, Pass, Adjust, vars, BeforeBoosts
    <3> QED
      BY <3>1, <3>2
  <2>2. Fires(findings, c)
    BY <1>3, <2>1, SurviveMeans
  <2> QED
    BY <1>1, <2>1, <2>2, FiresKept
<1> QED
  BY <1>4, <1>5

\* For every table of compounds and every package: a compound whose parts the scanners
\* reported, in scope and strong enough, is among the findings that are scored, as severe
\* as its rule says, whatever the reductions did to the parts.
THEOREM CompoundsSurvive == Spec => []CompoundsSurviveReductions
<1>1. Init => CompoundsSurviveReductions
  BY DEF Init, CompoundsSurviveReductions
<1>2. TypeOK /\ Traced /\ CompoundsSurviveReductions /\ [Next]_vars
        => CompoundsSurviveReductions'
  BY NextSurvive
<1> QED
  BY <1>1, <1>2, TracedCorrect, PTL DEF Spec

-----------------------------------------------------------------------------
(* The floors *)

LEMMA NextFloors == TypeOK /\ FloorsHold /\ [Next]_vars => FloorsHold'
<1> SUFFICES ASSUME TypeOK, FloorsHold, [Next]_vars PROVE FloorsHold'
  OBVIOUS
<1>1. score \in 0..100
  BY DEF TypeOK
<1>2. ASSUME NEW from, NEW to, NEW fs, Pass(from, to, fs),
             to \notin {"floored", "weighed", "final"}
      PROVE  FloorsHold'
  BY <1>2 DEF Pass, FloorsHold
<1>3. ASSUME NEW from, NEW to, NEW s, Adjust(from, to, s),
             to \notin {"floored", "weighed", "final"}
      PROVE  FloorsHold'
  BY <1>3 DEF Adjust, FloorsHold
<1>4. CASE Correlate
  BY <1>2, <1>4 DEF Correlate
<1>5. CASE Reduce
  BY <1>2, <1>5 DEF Reduce
<1>6. CASE Decay
  BY <1>2, <1>6 DEF Decay
<1>7. CASE Boost
  BY <1>2, <1>7 DEF Boost
<1>8. CASE Calculate
  BY <1>3, <1>8 DEF Calculate
<1>9. CASE Cap
  BY <1>3, <1>9 DEF Cap
<1>10. CASE Mature
  BY <1>3, <1>10 DEF Mature
<1>11. CASE Floor
  <2>1. /\ stage' = "floored" /\ findings' = findings
        /\ score' = applySingleFireCriticalFloor(findings, score)
    BY <1>11 DEF Floor, Adjust
  <2>2. Triggers(findings) # {} => score' >= 75
    BY <1>1, <2>1 DEF applySingleFireCriticalFloor, Most
  <2> QED
    BY <2>1, <2>2 DEF FloorsHold
<1>12. CASE Weigh
  <2>1. /\ stage = "floored" /\ stage' = "weighed" /\ findings' = findings
        /\ profile' = profile
        /\ score' = applyReputationFactor(findings, score, profile)
    BY <1>12 DEF Weigh, Adjust
  <2> DEFINE factor == reputationFactor(findings, profile)
             weighed == Capped((score * factor + 5000) \div 10000)
  <2>2. weighed \in 0..100
    BY CappedType
  <2>3. score' = IF factor = 10000 THEN score
                 ELSE IF hasConfirmedMalice(findings) THEN Most(weighed, 20) ELSE weighed
    BY <2>1 DEF applyReputationFactor
  <2>4. Triggers(findings) # {} => score >= 75
    BY <2>1 DEF FloorsHold
  <2> HIDE DEF weighed
  <2>5. /\ hasConfirmedMalice(findings)
        /\ Triggers(findings) # {} \/ factor # 10000
        => score' >= 20
    BY <1>1, <2>2, <2>3, <2>4 DEF Most
  <2> QED
    BY <2>1, <2>5 DEF FloorsHold
<1>13. CASE Sandbox
  <2>1. PICK verdict \in Verdicts :
          /\ stage = "weighed" /\ stage' = "final" /\ findings' = findings
          /\ score' = applySandboxVerdict(score, verdict)
    BY <1>13 DEF Sandbox, Adjust
  <2>2. hasConfirmedMalice(findings) /\ Triggers(findings) # {} => score >= 20
    BY <2>1 DEF FloorsHold
  <2>3. score' >= score - 8
    BY <1>1, <2>1 DEF applySandboxVerdict, Verdicts, Most
  <2>4. hasConfirmedMalice(findings) /\ Triggers(findings) # {} => score' >= 12
    <3>1. score' \in 0..100
      BY NextType DEF TypeOK
    <3> QED
      BY <1>1, <2>2, <2>3, <3>1
  <2> QED
    BY <2>1, <2>4 DEF FloorsHold
<1>14. CASE Done \/ UNCHANGED vars
  BY <1>14 DEF Done, vars, FloorsHold
<1> QED
  BY <1>4, <1>5, <1>6, <1>7, <1>8, <1>9, <1>10, <1>11, <1>12, <1>13, <1>14 DEF Next

\* The floors hold at their points of the pipeline: 75 for a decisive finding
\* over every cap, 20 for confirmed malice over the registry's word, and what
\* a clean sandbox run leaves of it.
THEOREM FloorsCorrect == Spec => []FloorsHold
<1>1. Init => TypeOK /\ FloorsHold
  BY InitType DEF Init, FloorsHold
<1>2. (TypeOK /\ FloorsHold) /\ [Next]_vars => (TypeOK /\ FloorsHold)'
  BY NextType, NextFloors
<1> QED
  BY <1>1, <1>2, PTL DEF Spec

LEMMA DecisiveFromFloors ==
  ASSUME TypeOK, Traced, FloorsHold PROVE DecisiveNotBuried
<1> SUFFICES ASSUME NEW i \in DOMAIN found, found[i].type \in Unreducible, found[i].sev >= HIGH
             PROVE  /\ stage = "floored" => score >= 75
                    /\ stage = "weighed" /\ found[i].type \in HIGH_CONFIDENCE_MALICE_TYPES
                         => score >= 20
  BY DEF DecisiveNotBuried
<1>1. /\ Reports[i].type = found[i].type /\ Reports[i].sev = found[i].sev
      /\ Reports[i].was = NotCounted /\ i \in 1..Len(Reports)
      /\ Reports \in Seq(AFinding)
  BY ReportsFacts DEF TypeOK
<1>2. i \in DOMAIN findings /\ ComesOf(Reports[i], findings[i])
  <2>1. /\ DOMAIN findings = 1..Len(findings) /\ Len(Reports) <= Len(findings)
        /\ Len(Reports) \in Nat /\ Len(findings) \in Nat
    BY <1>1 DEF Traced, Follows
  <2> QED
    BY <1>1, <2>1 DEF Traced, Follows
<1>3. findings[i].type = found[i].type /\ findings[i].sev = found[i].sev
  BY <1>1, <1>2 DEF ComesOf, Alike
<1>4. i \in Triggers(findings)
  BY <1>2, <1>3, Unreducibles DEF Triggers
<1>5. found[i].type \in HIGH_CONFIDENCE_MALICE_TYPES => hasConfirmedMalice(findings)
  BY <1>2, <1>3 DEF hasConfirmedMalice, Types
<1> QED
  BY <1>4, <1>5 DEF FloorsHold

\* A decisive finding of a scanner, of a type no table exempts it from, is never buried,
\* whatever the lists of findings, the tables and the registry say.
THEOREM DecisiveKept == Spec => []DecisiveNotBuried
<1>1. TypeOK /\ Traced /\ FloorsHold => DecisiveNotBuried
  BY DecisiveFromFloors
<1> QED
  BY <1>1, TracedCorrect, FloorsCorrect, PTL

-----------------------------------------------------------------------------
(* The archive *)

\* What the workstation has verified of a day may be freed: the server holds nothing
\* of it that the workstation lacks.
Backed(d) == dirs[d].whole \subseteq copies[d].whole

\* A day that is marked, or about to be, is over or was released hastily.
Closed(d) == d \in hasty \/ (d < utc /\ Backed(d))

\* A tarball that is only on the workstation stays there: its day is over, so that no
\* later download can put an unfinished file over it.
OnlyCopy(s, d) == s \in copies[d].whole /\ d < utc /\ s \notin dirs[d].part

Safe(s, d) == s \in dirs[d].whole \/ OnlyCopy(s, d) \/ <<s, d>> \in lost \/ d \in hasty

ArchiveInv ==
  /\ ArchiveTypeOK
  /\ \A k \in Downloads : saving[k] \in Saving => saving[k].day >= utc
  /\ \A k \in Downloads, s \in Suspects, d \in Days :
       Writes(k, s, d) => <<s, d>> \notin archived
  /\ \A d \in Days : d \in pull.days \/ dirs[d].pulled => Closed(d)
  /\ \A s \in Suspects, d \in Days : <<s, d>> \in archived => Safe(s, d)

LEMMA DaysAreNat ==
  ASSUME ArchiveAssumption
  PROVE  /\ MaxDay \in Nat /\ Days \subseteq Nat
         /\ \A u \in 0..MaxDay : u \in Days /\ u + 1 \in Days
BY DEF ArchiveAssumption, Days

LEMMA DirTypes ==
  /\ NoDir \in Dir
  /\ \A e \in Dir :
       /\ e.there \in BOOLEAN /\ e.pulled \in BOOLEAN
       /\ e.whole \subseteq Suspects /\ e.part \subseteq Suspects
       /\ [e EXCEPT !.there = TRUE] \in Dir
       /\ \A b \in BOOLEAN : [e EXCEPT !.pulled = b] \in Dir
       /\ \A P \in SUBSET Suspects : [e EXCEPT !.part = P] \in Dir
BY DEF Dir, NoDir

\* A download writes to one file, and its day is not over.
LEMMA SavingFacts ==
  ASSUME ArchiveAssumption
  PROVE  /\ \A k \in Downloads : {Uncalled, Over} \cap Saving = {}
         /\ \A s \in Suspects, d \in Days, b \in BOOLEAN :
              [suspect |-> s, day |-> d, writing |-> b] \in Saving
         /\ \A e \in Saving : /\ e.suspect \in Suspects /\ e.day \in Days /\ e.writing \in BOOLEAN
                              /\ e = [suspect |-> e.suspect, day |-> e.day, writing |-> e.writing]
<1>1. Saving \subseteq [suspect : Suspects, day : Nat, writing : BOOLEAN]
  BY DaysAreNat DEF Saving
<1> QED
  BY <1>1 DEF ArchiveAssumption, Saving

LEMMA ArchiveInitHolds ==
  ASSUME ArchiveAssumption, ArchiveInit
  PROVE  ArchiveInv
<1>1. ArchiveTypeOK
  <2>1. 0 \in 0..MaxDay
    BY DaysAreNat
  <2>2. [whole |-> {}, part |-> {}] \in Copy /\ [phase |-> "idle", days |-> {}] \in Pull
    BY DEF Copy, Pull
  <2> QED
    BY <2>1, <2>2, DirTypes DEF ArchiveInit, ArchiveTypeOK
<1>2. \A d \in Days : ~dirs[d].pulled /\ d \notin pull.days
  BY DEF ArchiveInit, NoDir
<1> QED
  BY <1>1, <1>2, SavingFacts DEF ArchiveInit, ArchiveInv

\* A step on one day that is not over, D, keeps the invariant when it takes a tarball
\* from the directory only with the claim that it is archived, and adds a claim only
\* with the tarball.
LEMMA DayChanges ==
  ASSUME ArchiveAssumption, ArchiveInv, ArchiveTypeOK',
         UNCHANGED <<utc, copies, pull, lost, hasty>>,
         \A k \in Downloads : saving'[k] \in Saving => saving'[k].day >= utc,
         \A k \in Downloads, s \in Suspects, d \in Days :
           Writes(k, s, d)' => <<s, d>> \notin archived',
         NEW D \in Days, D >= utc,
         \A d \in Days : /\ dirs'[d].pulled = dirs[d].pulled
                         /\ d # D => /\ dirs'[d].whole = dirs[d].whole
                                     /\ dirs'[d].part = dirs[d].part,
         \A s \in Suspects, d \in Days :
           /\ <<s, d>> \in archived' =>
                <<s, d>> \in archived \/ (d = D /\ s \in dirs'[D].whole)
           /\ <<s, d>> \in archived' /\ s \in dirs[d].whole => s \in dirs'[d].whole
  PROVE  ArchiveInv'
<1>1. \A d \in Days : d < utc => d # D
  BY DaysAreNat DEF ArchiveInv, ArchiveTypeOK
<1>2. \A d \in Days : Closed(d) => Closed(d)'
  BY <1>1 DEF Closed, Backed
<1>3. \A d \in Days : d \in pull'.days \/ dirs'[d].pulled => Closed(d)'
  BY <1>2 DEF ArchiveInv
<1>4. \A s \in Suspects, d \in Days : <<s, d>> \in archived' => Safe(s, d)'
  <2> SUFFICES ASSUME NEW s \in Suspects, NEW d \in Days, <<s, d>> \in archived'
               PROVE  Safe(s, d)'
    OBVIOUS
  <2>1. CASE <<s, d>> \in archived
    <3>1. Safe(s, d)
      BY <2>1 DEF ArchiveInv
    <3> QED
      BY <1>1, <3>1 DEF Safe, OnlyCopy
  <2>2. CASE <<s, d>> \notin archived
    BY <2>2 DEF Safe
  <2> QED
    BY <2>1, <2>2
<1> QED
  BY <1>3, <1>4 DEF ArchiveInv

-----------------------------------------------------------------------------
(* The steps of the monitor *)

\* The directories' tarballs are as they were, and no download writes that did not.
LEMMA NoneMoves ==
  ASSUME ArchiveAssumption, ArchiveInv, ArchiveTypeOK',
         UNCHANGED <<utc, copies, pull, archived, lost, hasty>>,
         \A k \in Downloads : saving'[k] \in Saving => saving'[k].day >= utc,
         \A k \in Downloads, s \in Suspects, d \in Days : Writes(k, s, d)' => Writes(k, s, d),
         \A d \in Days : /\ dirs'[d].whole = dirs[d].whole /\ dirs'[d].part = dirs[d].part
                         /\ dirs'[d].pulled = dirs[d].pulled
  PROVE  ArchiveInv'
<1>1. utc \in Days /\ utc >= utc
  BY DaysAreNat DEF ArchiveInv, ArchiveTypeOK
<1>2. \A k \in Downloads, s \in Suspects, d \in Days :
        Writes(k, s, d)' => <<s, d>> \notin archived'
  BY DEF ArchiveInv
<1> QED
  BY <1>1, <1>2, DayChanges

LEMMA SaveBeginsStep ==
  ASSUME ArchiveAssumption, ArchiveInv, NEW k \in Downloads, NEW s \in Suspects,
         SaveBegins(k, s)
  PROVE  ArchiveInv'
<1> DEFINE begun == [suspect |-> s, day |-> Paris, writing |-> FALSE]
<1>1. Paris \in Days /\ Paris >= utc
  BY DaysAreNat DEF Paris, ArchiveInv, ArchiveTypeOK
<1>2. begun \in Saving /\ begun.day = Paris /\ begun.writing = FALSE
  BY <1>1, SavingFacts
<1>3. saving' = [saving EXCEPT ![k] = begun]
  BY DEF SaveBegins
<1> HIDE DEF begun
<1>4. ArchiveTypeOK'
  BY <1>1, <1>2, <1>3, DirTypes DEF SaveBegins, ArchiveInv, ArchiveTypeOK, clock, histories
<1>5. \A j \in Downloads : saving'[j] \in Saving => saving'[j].day >= utc
  BY <1>1, <1>2, <1>3 DEF ArchiveInv, ArchiveTypeOK
<1>6. \A j \in Downloads, t \in Suspects, d \in Days : Writes(j, t, d)' => Writes(j, t, d)
  BY <1>2, <1>3 DEF Writes, ArchiveInv, ArchiveTypeOK
<1>7. \A d \in Days : /\ dirs'[d].whole = dirs[d].whole /\ dirs'[d].part = dirs[d].part
                      /\ dirs'[d].pulled = dirs[d].pulled
  BY <1>1, DirTypes DEF SaveBegins, ArchiveInv, ArchiveTypeOK, Dir
<1> QED
  BY <1>4, <1>5, <1>6, <1>7, NoneMoves DEF SaveBegins, clock, histories

LEMMA RecordOnlyStep ==
  ASSUME ArchiveAssumption, ArchiveInv, RecordOnly
  PROVE  ArchiveInv'
<1>1. Paris \in Days
  BY DaysAreNat DEF Paris, ArchiveInv, ArchiveTypeOK
<1>2. ArchiveTypeOK'
  BY <1>1, DirTypes DEF RecordOnly, ArchiveInv, ArchiveTypeOK, clock, histories
<1>3. \A d \in Days : /\ dirs'[d].whole = dirs[d].whole /\ dirs'[d].part = dirs[d].part
                      /\ dirs'[d].pulled = dirs[d].pulled
  BY <1>1, DirTypes DEF RecordOnly, ArchiveInv, ArchiveTypeOK, Dir
<1>4. saving' = saving
  BY DEF RecordOnly
<1>5. \A j \in Downloads : saving'[j] \in Saving => saving'[j].day >= utc
  BY <1>4 DEF ArchiveInv
<1>6. \A j \in Downloads, t \in Suspects, d \in Days : Writes(j, t, d)' => Writes(j, t, d)
  BY <1>4 DEF Writes
<1> QED
  BY <1>2, <1>3, <1>5, <1>6, NoneMoves DEF RecordOnly, clock, histories

LEMMA SaveRefusedStep ==
  ASSUME ArchiveAssumption, ArchiveInv, NEW k \in Downloads, SaveRefused(k)
  PROVE  ArchiveInv'
<1>1. ArchiveTypeOK'
  BY DEF SaveRefused, ArchiveInv, ArchiveTypeOK, clock, histories
<1>2. \A j \in Downloads : saving'[j] = Over \/ saving'[j] = saving[j]
  BY DEF SaveRefused, ArchiveInv, ArchiveTypeOK
<1>3. Over \notin Saving
  BY SavingFacts
<1>4. \A j \in Downloads : saving'[j] \in Saving => saving'[j].day >= utc
  BY <1>2, <1>3 DEF ArchiveInv
<1>5. \A j \in Downloads, t \in Suspects, d \in Days : Writes(j, t, d)' => Writes(j, t, d)
  BY <1>2, <1>3, SavingFacts DEF Writes
<1> QED
  BY <1>1, <1>4, <1>5, NoneMoves DEF SaveRefused, clock, histories

LEMMA CrashStep ==
  ASSUME ArchiveAssumption, ArchiveInv, Crash
  PROVE  ArchiveInv'
<1>1. ArchiveTypeOK'
  BY DEF Crash, ArchiveInv, ArchiveTypeOK, clock, histories
<1>2. \A j \in Downloads : saving'[j] \notin Saving
  BY SavingFacts DEF Crash
<1>3. \A j \in Downloads, t \in Suspects, d \in Days : ~Writes(j, t, d)'
  BY <1>2, SavingFacts DEF Writes
<1> QED
  BY <1>1, <1>2, <1>3, NoneMoves DEF Crash, clock, histories

\* A download that is or was writing works on a day that is not over.
LEMMA WriterFacts ==
  ASSUME ArchiveAssumption, ArchiveInv, NEW k \in Downloads, NEW s \in Suspects,
         NEW d \in Days, NEW b \in BOOLEAN,
         saving[k] = [suspect |-> s, day |-> d, writing |-> b]
  PROVE  /\ saving[k] \in Saving /\ d >= utc
         /\ \A t \in Suspects, e \in Days : Writes(k, t, e) => t = s /\ e = d
BY SavingFacts DEF ArchiveInv, Writes

\* What filing or taking away one suspect does to the directories.
Filed(d, P, W) == [dirs EXCEPT ![d].part = P, ![d].whole = W]

LEMMA FiledDir ==
  ASSUME ArchiveInv, NEW d \in Days, NEW P, NEW W, P \subseteq Suspects, W \subseteq Suspects,
         dirs' = Filed(d, P, W)
  PROVE  /\ dirs' \in [Days -> Dir]
         /\ dirs'[d].whole = W /\ dirs'[d].part = P
         /\ \A g \in Days : dirs'[g].pulled = dirs[g].pulled
         /\ \A g \in Days \ {d} : dirs'[g] = dirs[g]
<1> DEFINE e == dirs[d]
           filled == [[e EXCEPT !.part = P] EXCEPT !.whole = W]
<1>1. dirs \in [Days -> Dir] /\ e \in Dir
  BY DEF ArchiveInv, ArchiveTypeOK
<1>2. filled \in Dir /\ filled.whole = W /\ filled.part = P /\ filled.pulled = e.pulled
  BY <1>1 DEF Dir
<1>3. dirs' = [dirs EXCEPT ![d] = filled]
  BY <1>1 DEF Filed
<1> HIDE DEF filled
<1> QED
  BY <1>1, <1>2, <1>3

\* A file that is opened is empty, and no longer claimed.
LEMMA WriteBeginsStep ==
  ASSUME ArchiveAssumption, ArchiveInv, NEW k \in Downloads, NEW s \in Suspects,
         NEW d \in Days, WriteBegins(k, s, d)
  PROVE  ArchiveInv'
<1> DEFINE part == dirs[d].part \cup {s}
           whole == dirs[d].whole \ {s}
<1>1. saving[k] \in Saving /\ d >= utc
  BY WriterFacts DEF WriteBegins
<1>2. /\ dirs' = Filed(d, part, whole)
      /\ saving' = [saving EXCEPT ![k] = [suspect |-> s, day |-> d, writing |-> TRUE]]
      /\ archived' = archived \ {<<s, d>>}
      /\ UNCHANGED <<utc, ahead, copies, pull, lost, hasty>>
  BY DEF WriteBegins, clock, Filed
<1>3. part \subseteq Suspects /\ whole \subseteq Suspects
  BY DirTypes DEF ArchiveInv, ArchiveTypeOK
<1>4. /\ dirs' \in [Days -> Dir]
      /\ dirs'[d].whole = whole
      /\ \A e \in Days : dirs'[e].pulled = dirs[e].pulled
      /\ \A e \in Days \ {d} : dirs'[e] = dirs[e]
  <2> HIDE DEF part, whole
  <2> QED
    BY <1>2, <1>3, FiledDir
<1>5. /\ saving'[k] = [suspect |-> s, day |-> d, writing |-> TRUE] /\ saving'[k] \in Saving
      /\ \A j \in Downloads \ {k} : saving'[j] = saving[j]
  <2>1. saving \in [Downloads -> Saving \cup {Uncalled, Over}]
    BY DEF ArchiveInv, ArchiveTypeOK
  <2> QED
    BY <1>2, <2>1, SavingFacts
<1>6. ArchiveTypeOK'
  BY <1>2, <1>4, <1>5 DEF ArchiveInv, ArchiveTypeOK
<1>7. \A j \in Downloads : saving'[j] \in Saving => saving'[j].day >= utc
  BY <1>1, <1>5 DEF ArchiveInv
<1>8. \A j \in Downloads, t \in Suspects, e \in Days :
        Writes(j, t, e)' => <<t, e>> \notin archived'
  <2> SUFFICES ASSUME NEW j \in Downloads, NEW t \in Suspects, NEW e \in Days, Writes(j, t, e)'
               PROVE  <<t, e>> \notin archived'
    OBVIOUS
  <2>1. CASE j = k
    BY <1>2, <1>5, <2>1 DEF Writes
  <2>2. CASE j # k
    <3>1. Writes(j, t, e)
      BY <1>5, <2>2 DEF Writes
    <3> QED
      BY <1>2, <3>1 DEF ArchiveInv
  <2> QED
    BY <2>1, <2>2
<1>9. \A t \in Suspects, e \in Days :
        /\ <<t, e>> \in archived' => <<t, e>> \in archived
        /\ <<t, e>> \in archived' /\ t \in dirs[e].whole => t \in dirs'[e].whole
  BY <1>2, <1>4
<1> QED
  BY <1>1, <1>2, <1>4, <1>6, <1>7, <1>8, <1>9, DayChanges

\* What a download that broke off takes away is not claimed, since it was writing to it.
LEMMA SaveFailsStep ==
  ASSUME ArchiveAssumption, ArchiveInv, NEW k \in Downloads, NEW s \in Suspects,
         NEW d \in Days, SaveFails(k, s, d)
  PROVE  ArchiveInv'
<1> DEFINE whole == dirs[d].whole \ {s}
<1>1. saving[k] \in Saving /\ d >= utc /\ <<s, d>> \notin archived
  BY WriterFacts DEF SaveFails, Writes, ArchiveInv
<1>2. PICK left \in SUBSET ({s} \cap Tarballs(d)) :
        dirs' = [dirs EXCEPT ![d].part = (@ \ {s}) \cup left, ![d].whole = @ \ {s}]
  BY DEF SaveFails
<1> DEFINE part == (dirs[d].part \ {s}) \cup left
<1>3. part \subseteq Suspects /\ whole \subseteq Suspects
  BY DirTypes DEF ArchiveInv, ArchiveTypeOK
<1>4. dirs' = Filed(d, part, whole)
  BY <1>2 DEF Filed
<1>5. /\ dirs' \in [Days -> Dir]
      /\ dirs'[d].whole = whole
      /\ \A e \in Days : dirs'[e].pulled = dirs[e].pulled
      /\ \A e \in Days \ {d} : dirs'[e] = dirs[e]
  <2> HIDE DEF part, whole
  <2> QED
    BY <1>3, <1>4, FiledDir
<1>6. /\ saving' = [saving EXCEPT ![k] = Over]
      /\ UNCHANGED <<utc, ahead, copies, pull, archived, lost, hasty>>
  BY DEF SaveFails, clock, histories
<1>7. \A j \in Downloads : saving'[j] = Over \/ saving'[j] = saving[j]
  BY <1>6 DEF ArchiveInv, ArchiveTypeOK
<1>8. ArchiveTypeOK'
  BY <1>5, <1>6 DEF ArchiveInv, ArchiveTypeOK
<1>9. \A j \in Downloads : saving'[j] \in Saving => saving'[j].day >= utc
  BY <1>7, SavingFacts DEF ArchiveInv
<1>10. \A j \in Downloads, t \in Suspects, e \in Days :
         Writes(j, t, e)' => <<t, e>> \notin archived'
  BY <1>6, <1>7, SavingFacts DEF Writes, ArchiveInv
<1>11. \A t \in Suspects, e \in Days :
         /\ <<t, e>> \in archived' => <<t, e>> \in archived
         /\ <<t, e>> \in archived' /\ t \in dirs[e].whole => t \in dirs'[e].whole
  BY <1>1, <1>5, <1>6
<1> QED
  BY <1>1, <1>5, <1>6, <1>8, <1>9, <1>10, <1>11, DayChanges

\* A download claims what it leaves only when it was alone on the file.
LEMMA SaveEndsStep ==
  ASSUME ArchiveAssumption, ArchiveInv, NEW k \in Downloads, NEW s \in Suspects,
         NEW d \in Days, SaveEnds(k, s, d)
  PROVE  ArchiveInv'
<1>1. saving[k] \in Saving /\ d >= utc /\ <<s, d>> \notin archived
  BY WriterFacts DEF SaveEnds, Writes, ArchiveInv
<1>2. PICK part, whole :
        /\ part \subseteq Suspects /\ whole \subseteq Suspects
        /\ dirs' = Filed(d, part, whole)
        /\ \A t \in Suspects \ {s} : t \in whole <=> t \in dirs[d].whole
        /\ Shared(k, s, d) \/ s \in whole
  <2>1. dirs[d].whole \subseteq Suspects /\ dirs[d].part \subseteq Suspects
    BY DirTypes DEF ArchiveInv, ArchiveTypeOK
  <2>2. CASE dirs' = [dirs EXCEPT ![d].part = @ \ {s}, ![d].whole = @ \cup {s}]
    <3> WITNESS dirs[d].part \ {s}, dirs[d].whole \cup {s}
    <3> QED
      BY <2>1, <2>2 DEF Filed
  <2>3. CASE /\ Shared(k, s, d)
             /\ dirs' = [dirs EXCEPT ![d].part = @ \cup {s}, ![d].whole = @ \ {s}]
    <3> WITNESS dirs[d].part \cup {s}, dirs[d].whole \ {s}
    <3> QED
      BY <2>1, <2>3 DEF Filed
  <2> QED
    BY <2>2, <2>3 DEF SaveEnds
<1>3. /\ dirs' \in [Days -> Dir]
      /\ dirs'[d].whole = whole
      /\ \A e \in Days : dirs'[e].pulled = dirs[e].pulled
      /\ \A e \in Days \ {d} : dirs'[e] = dirs[e]
  BY <1>2, FiledDir
<1>4. /\ saving' = [saving EXCEPT ![k] = Over]
      /\ archived' = IF Shared(k, s, d) THEN archived ELSE archived \cup {<<s, d>>}
      /\ UNCHANGED <<utc, ahead, copies, pull, lost, hasty>>
  BY DEF SaveEnds, clock
<1>5. saving'[k] = Over /\ \A j \in Downloads \ {k} : saving'[j] = saving[j]
  BY <1>4 DEF ArchiveInv, ArchiveTypeOK
<1>6. ArchiveTypeOK'
  BY <1>3, <1>4 DEF ArchiveInv, ArchiveTypeOK
<1>7. \A j \in Downloads : saving'[j] \in Saving => saving'[j].day >= utc
  BY <1>5, SavingFacts DEF ArchiveInv
<1>8. \A j \in Downloads, t \in Suspects, e \in Days :
        Writes(j, t, e)' => <<t, e>> \notin archived'
  <2> SUFFICES ASSUME NEW j \in Downloads, NEW t \in Suspects, NEW e \in Days, Writes(j, t, e)'
               PROVE  <<t, e>> \notin archived'
    OBVIOUS
  <2>1. j # k /\ Writes(j, t, e)
    BY <1>5, SavingFacts DEF Writes
  <2>2. <<t, e>> \notin archived
    BY <2>1 DEF ArchiveInv
  <2>3. CASE t = s /\ e = d
    BY <1>4, <2>1, <2>2, <2>3 DEF Shared
  <2>4. CASE ~(t = s /\ e = d)
    BY <1>4, <2>2, <2>4
  <2> QED
    BY <2>3, <2>4
<1>9. \A t \in Suspects, e \in Days :
        /\ <<t, e>> \in archived' =>
             <<t, e>> \in archived \/ (e = d /\ t \in dirs'[d].whole)
        /\ <<t, e>> \in archived' /\ t \in dirs[e].whole => t \in dirs'[e].whole
  BY <1>1, <1>2, <1>3, <1>4
<1> QED
  BY <1>1, <1>3, <1>4, <1>6, <1>7, <1>8, <1>9, DayChanges

\* What a cleanup removes is on the workstation, nothing, or logged as a loss.
LEMMA CleanupStep ==
  ASSUME ArchiveAssumption, ArchiveInv, Cleanup
  PROVE  ArchiveInv'
<1> DEFINE aged == {d \in Days : Aged(d)}
           ceiling == {d \in aged : ~Released(d) /\ d + Hard <= utc}
           waiting == {d \in aged : ~Released(d)} \ ceiling
           out(S) == {d \in aged : Released(d)} \cup ceiling \cup S
<1>1. PICK squeezed \in SUBSET waiting :
        /\ dirs' = [d \in Days |-> IF d \in out(squeezed) THEN NoDir ELSE dirs[d]]
        /\ lost' = lost \cup UNION {dirs[d].whole \X {d} : d \in ceiling \cup squeezed}
        /\ UNCHANGED <<utc, ahead, saving, copies, pull, archived, hasty>>
  BY DEF Cleanup, clock
<1>2. \A d \in out(squeezed) : d \in Days /\ d < utc
  BY DaysAreNat DEF Aged, ArchiveAssumption, ArchiveInv, ArchiveTypeOK
<1>3. \A d \in Days : d \in out(squeezed) => Released(d) \/ d \in ceiling \cup squeezed
  OBVIOUS
<1>4. ceiling \cup squeezed \subseteq Days
  OBVIOUS
<1> HIDE DEF aged, ceiling, waiting, out
<1>5. ArchiveTypeOK'
  <2>1. dirs' \in [Days -> Dir]
    BY <1>1, DirTypes DEF ArchiveInv, ArchiveTypeOK
  <2>2. lost' \subseteq Suspects \X Days
    <3>1. \A d \in ceiling \cup squeezed : dirs[d].whole \X {d} \subseteq Suspects \X Days
      BY <1>4, DirTypes DEF ArchiveInv, ArchiveTypeOK
    <3> QED
      BY <1>1, <3>1 DEF ArchiveInv, ArchiveTypeOK
  <2> QED
    BY <1>1, <2>1, <2>2 DEF ArchiveInv, ArchiveTypeOK
<1>6. \A d \in Days : d \in pull'.days \/ dirs'[d].pulled => Closed(d)'
  BY <1>1 DEF ArchiveInv, Closed, Backed, NoDir
<1>7. \A s \in Suspects, d \in Days : <<s, d>> \in archived' => Safe(s, d)'
  <2> SUFFICES ASSUME NEW s \in Suspects, NEW d \in Days, <<s, d>> \in archived
               PROVE  Safe(s, d)'
    BY <1>1
  <2>1. Safe(s, d)
    BY DEF ArchiveInv
  <2>2. CASE d \notin out(squeezed)
    BY <1>1, <2>1, <2>2 DEF Safe, OnlyCopy
  <2>3. CASE d \in out(squeezed) /\ s \notin dirs[d].whole
    BY <1>1, <2>1, <2>3 DEF Safe, OnlyCopy, NoDir
  <2>4. CASE d \in ceiling \cup squeezed /\ s \in dirs[d].whole
    BY <1>1, <2>4 DEF Safe
  <2>5. CASE d \in out(squeezed) /\ Released(d) /\ s \in dirs[d].whole
    <3>1. dirs[d].pulled
      BY <2>5 DEF Released, Tarballs
    <3>2. Closed(d)
      BY <3>1 DEF ArchiveInv
    <3> QED
      BY <1>1, <2>5, <3>2 DEF Closed, Backed, Safe, OnlyCopy, NoDir
  <2> QED
    BY <1>3, <2>2, <2>3, <2>4, <2>5
<1>8. \A k \in Downloads, s \in Suspects, d \in Days :
        Writes(k, s, d)' => <<s, d>> \notin archived'
  BY <1>1 DEF Writes, ArchiveInv
<1> QED
  BY <1>1, <1>5, <1>6, <1>7, <1>8 DEF ArchiveInv

-----------------------------------------------------------------------------
(* Time, and the steps of the workstation *)

LEMMA MidnightStep ==
  ASSUME ArchiveAssumption, ArchiveInv, ParisMidnight \/ UtcMidnight
  PROVE  ArchiveInv'
<1>1. /\ utc \in Nat /\ utc' \in 0..MaxDay /\ utc <= utc' /\ ahead' \in BOOLEAN
      /\ UNCHANGED <<dirs, saving, copies, pull, archived, lost, hasty>>
  <2>1. utc \in 0..MaxDay /\ utc \in Nat
    BY DaysAreNat DEF ArchiveInv, ArchiveTypeOK
  <2>2. CASE ParisMidnight
    BY <2>1, <2>2 DEF ParisMidnight, histories
  <2>3. CASE UtcMidnight
    <3>1. /\ utc < MaxDay /\ utc' = utc + 1 /\ ahead' = FALSE
          /\ UNCHANGED <<dirs, saving, copies, pull, archived, lost, hasty>>
      BY <2>3, Zenon DEF UtcMidnight, histories
    <3>2. utc' \in 0..MaxDay /\ utc <= utc'
      BY <2>1, <3>1, DaysAreNat
    <3> QED
      BY <2>1, <3>1, <3>2
  <2> QED
    BY <2>2, <2>3
<1>2. ArchiveTypeOK'
  BY <1>1 DEF ArchiveInv, ArchiveTypeOK
<1>3. \A k \in Downloads : saving'[k] \in Saving => saving'[k].day >= utc'
  <2> SUFFICES ASSUME NEW k \in Downloads, saving[k] \in Saving
               PROVE  saving[k].day >= utc'
    BY <1>1
  <2>1. saving[k].day \in Nat /\ saving[k].day >= utc
    BY DaysAreNat, SavingFacts DEF ArchiveInv, ArchiveTypeOK
  <2> QED
    BY <1>1, <2>1 DEF ParisMidnight, UtcMidnight
<1>4. \A d \in Days : d < utc => d < utc'
  BY <1>1, DaysAreNat
<1>5. \A d \in Days : Closed(d) => Closed(d)'
  BY <1>1, <1>4 DEF Closed, Backed
<1>6. \A s \in Suspects, d \in Days : Safe(s, d) => Safe(s, d)'
  BY <1>1, <1>4 DEF Safe, OnlyCopy
<1>8. \A k \in Downloads, s \in Suspects, d \in Days :
        Writes(k, s, d)' => <<s, d>> \notin archived'
  BY <1>1 DEF Writes, ArchiveInv
<1> QED
  BY <1>1, <1>2, <1>3, <1>5, <1>6, <1>8 DEF ArchiveInv

\* A copy only grows, but for what is being written anew; what it verifies is backed.
LEMMA RsyncStep ==
  ASSUME ArchiveAssumption, ArchiveInv, Rsync
  PROVE  ArchiveInv'
<1> DEFINE verified == {d \in Days : /\ dirs[d].there \/ copies[d].whole # {}
                                     /\ Past(d) /\ Rsynced(d).part = {}}
<1>1. /\ copies' = [d \in Days |-> Rsynced(d)]
      /\ pull' = [phase |-> "mark", days |-> verified]
      /\ hasty' = hasty \cup {d \in verified : d > utc}
      /\ UNCHANGED <<utc, ahead, dirs, saving, archived, lost>>
  BY DEF Rsync, clock
<1>2. \A d \in Days : /\ copies'[d] \in Copy
                      /\ copies'[d].whole = dirs[d].whole \cup (copies[d].whole \ dirs[d].part)
  BY <1>1, DirTypes DEF Rsynced, Copy, ArchiveInv, ArchiveTypeOK
<1>3. \A d \in verified : d \in Days /\ d # utc
  BY DEF Past
<1> HIDE DEF verified
<1>4. ArchiveTypeOK'
  <2>1. copies' \in [Days -> Copy]
    BY <1>1, <1>2
  <2>2. pull' \in Pull
    BY <1>1, <1>3 DEF Pull
  <2> QED
    BY <1>1, <1>3, <2>1, <2>2 DEF ArchiveInv, ArchiveTypeOK
<1>5. \A d \in Days : Backed(d)'
  BY <1>1, <1>2 DEF Backed
<1>6. \A d \in Days : d \in pull'.days \/ dirs'[d].pulled => Closed(d)'
  <2> SUFFICES ASSUME NEW d \in Days, d \in pull'.days \/ dirs'[d].pulled
               PROVE  Closed(d)'
    OBVIOUS
  <2>1. CASE d \in verified
    <3>1. d > utc \/ d < utc
      BY <1>3, <2>1, DaysAreNat DEF ArchiveInv, ArchiveTypeOK
    <3> QED
      BY <1>1, <1>5, <2>1, <3>1 DEF Closed
  <2>2. CASE d \notin verified
    <3>1. Closed(d)
      BY <1>1, <2>2 DEF ArchiveInv
    <3> QED
      BY <1>1, <1>5, <3>1 DEF Closed
  <2> QED
    BY <2>1, <2>2
<1>7. \A s \in Suspects, d \in Days : Safe(s, d) => Safe(s, d)'
  BY <1>1, <1>2 DEF Safe, OnlyCopy
<1>8. \A k \in Downloads, s \in Suspects, d \in Days :
        Writes(k, s, d)' => <<s, d>> \notin archived'
  BY <1>1 DEF Writes, ArchiveInv
<1> QED
  BY <1>1, <1>4, <1>6, <1>7, <1>8 DEF ArchiveInv

LEMMA MarkStep ==
  ASSUME ArchiveAssumption, ArchiveInv, Mark
  PROVE  ArchiveInv'
<1>1. PICK marked \in SUBSET {d \in pull.days : dirs[d].there} :
        dirs' = [d \in Days |-> IF d \in marked THEN [dirs[d] EXCEPT !.pulled = TRUE]
                                ELSE dirs[d]]
  BY DEF Mark
<1>2. UNCHANGED <<utc, ahead, saving, copies, archived, lost, hasty>>
  BY DEF Mark, clock, histories
<1>3. pull' \in Pull /\ pull'.days = pull.days
  BY DEF Mark, Pull, ArchiveInv, ArchiveTypeOK
<1>4. \A d \in Days : /\ dirs'[d] \in Dir
                      /\ dirs'[d].whole = dirs[d].whole /\ dirs'[d].part = dirs[d].part
                      /\ dirs'[d].pulled => dirs[d].pulled \/ d \in pull.days
  BY <1>1, DirTypes DEF ArchiveInv, ArchiveTypeOK, Dir
<1>5. ArchiveTypeOK'
  BY <1>1, <1>2, <1>3, <1>4 DEF ArchiveInv, ArchiveTypeOK
<1>6. \A d \in Days : Closed(d) => Closed(d)'
  BY <1>2, <1>4 DEF Closed, Backed
<1>7. \A s \in Suspects, d \in Days : Safe(s, d) => Safe(s, d)'
  BY <1>2, <1>4 DEF Safe, OnlyCopy
<1>8. \A k \in Downloads, s \in Suspects, d \in Days :
        Writes(k, s, d)' => <<s, d>> \notin archived'
  BY <1>2 DEF Writes, ArchiveInv
<1> QED
  BY <1>2, <1>3, <1>4, <1>5, <1>6, <1>7, <1>8 DEF ArchiveInv

LEMMA PurgePulledStep ==
  ASSUME ArchiveAssumption, ArchiveInv, PurgePulled
  PROVE  ArchiveInv'
<1>1. PICK purged \in SUBSET pull.days :
        dirs' = [d \in Days |-> IF d \in purged THEN NoDir ELSE dirs[d]]
  BY DEF PurgePulled
<1>2. UNCHANGED <<utc, ahead, saving, copies, archived, lost, hasty>>
  BY DEF PurgePulled, clock, histories
<1>3. pull' \in Pull /\ pull'.days = {}
  BY DEF PurgePulled, Pull, ArchiveInv, ArchiveTypeOK
<1>4. ArchiveTypeOK'
  BY <1>1, <1>2, <1>3, DirTypes DEF ArchiveInv, ArchiveTypeOK
<1>5. \A d \in Days : d \in pull'.days \/ dirs'[d].pulled => Closed(d)'
  BY <1>1, <1>2, <1>3 DEF ArchiveInv, Closed, Backed, NoDir
<1>6. \A s \in Suspects, d \in Days : Safe(s, d) => Safe(s, d)'
  <2> SUFFICES ASSUME NEW s \in Suspects, NEW d \in Days, Safe(s, d)
               PROVE  Safe(s, d)'
    OBVIOUS
  <2>1. CASE d \notin purged
    BY <1>1, <1>2, <2>1 DEF Safe, OnlyCopy
  <2>2. CASE d \in purged
    <3>1. Closed(d)
      BY <2>2 DEF ArchiveInv
    <3> QED
      BY <1>1, <1>2, <2>2, <3>1 DEF Closed, Backed, Safe, OnlyCopy, NoDir
  <2> QED
    BY <2>1, <2>2
<1>8. \A k \in Downloads, s \in Suspects, d \in Days :
        Writes(k, s, d)' => <<s, d>> \notin archived'
  BY <1>2 DEF Writes, ArchiveInv
<1> QED
  BY <1>2, <1>4, <1>5, <1>6, <1>8 DEF ArchiveInv

-----------------------------------------------------------------------------
(* Theorems *)

LEMMA ArchiveInvPreserved ==
  ASSUME ArchiveAssumption, ArchiveInv, [ArchiveNext]_archiveVars
  PROVE  ArchiveInv'
<1>1. CASE UNCHANGED archiveVars
  BY <1>1 DEF archiveVars, clock, histories, ArchiveInv, ArchiveTypeOK, Closed, Backed, Safe, OnlyCopy,
    Writes
<1>2. ASSUME NEW k \in Downloads, SaveRefused(k) \/ \E s \in Suspects : SaveBegins(k, s)
      PROVE  ArchiveInv'
  BY <1>2, SaveRefusedStep, SaveBeginsStep
<1>6. ASSUME NEW k \in Downloads, NEW s \in Suspects, NEW d \in Days,
             WriteBegins(k, s, d) \/ SaveEnds(k, s, d) \/ SaveFails(k, s, d)
      PROVE  ArchiveInv'
  BY <1>6, WriteBeginsStep, SaveEndsStep, SaveFailsStep
<1>3. CASE RecordOnly \/ Crash \/ Cleanup
  BY <1>3, RecordOnlyStep, CrashStep, CleanupStep
<1>4. CASE ParisMidnight \/ UtcMidnight
  BY <1>4, MidnightStep
<1>5. CASE Rsync \/ Mark \/ PurgePulled
  BY <1>5, RsyncStep, MarkStep, PurgePulledStep
<1> QED
  BY <1>1, <1>2, <1>3, <1>4, <1>5, <1>6 DEF ArchiveNext

LEMMA ArchiveInvCorrect ==
  ASSUME ArchiveAssumption
  PROVE  ArchiveSpec => []ArchiveInv
<1>1. ArchiveInit => ArchiveInv
  BY ArchiveInitHolds
<1>2. ArchiveInv /\ [ArchiveNext]_archiveVars => ArchiveInv'
  BY ArchiveInvPreserved
<1> QED
  BY <1>1, <1>2, PTL DEF ArchiveSpec

\* The variables of the archive keep their types, whatever the pull, the retention and
\* the death of the process do (tarball-archive.js, pull-archive.sh).
THEOREM ArchiveTypeCorrect ==
  ASSUME ArchiveAssumption
  PROVE  ArchiveSpec => []ArchiveTypeOK
<1>1. ArchiveInv => ArchiveTypeOK
  BY DEF ArchiveInv
<1> QED
  BY <1>1, ArchiveInvCorrect, PTL

\* A tarball reported as archived is on the server, on the workstation or logged as
\* lost, for every number of suspects, downloads and days and every retention
\* (cleanupOldArchives, pull-archive.sh), outside the days released hastily and the files
\* that a second download is on.
THEOREM NothingFreedUnbacked ==
  ASSUME ArchiveAssumption
  PROVE  ArchiveSpec => []ArchivedIsKept
<1>1. ArchiveInv => ArchivedIsKept
  BY DEF ArchiveInv, ArchivedIsKept, Safe, OnlyCopy, Held
<1> QED
  BY <1>1, ArchiveInvCorrect, PTL

-----------------------------------------------------------------------------
(* The pool of downloads *)

Missing(line, cached, n) == Opening(line, n) \ cached

LEMMA FrontStep ==
  ASSUME NEW line, NEW n \in Nat
  PROVE  Opening(line, 0) = {} /\ Opening(line, n + 1) = Opening(line, n) \cup {line[n + 1]}
<1>1. 1..0 = {} /\ 1..(n + 1) = (1..n) \cup {n + 1}
  OBVIOUS
<1> QED
  BY <1>1 DEF Opening

LEMMA FrontFinite ==
  ASSUME NEW line, NEW n \in Nat
  PROVE  IsFiniteSet(Opening(line, n)) /\ Cardinality(Opening(line, n)) <= n
<1> DEFINE f == [k \in 1..n |-> line[k]]
<1>1. f \in Surjection(1..n, Opening(line, n))
  BY DEF Surjection, Opening
<1>2. IsFiniteSet(1..n) /\ Cardinality(1..n) = n
  BY IntervalSize
<1> HIDE DEF f
<1> QED
  BY <1>1, <1>2, FS_Surjection

LEMMA MissingSize ==
  ASSUME NEW line, NEW cached, NEW n \in Nat
  PROVE  /\ IsFiniteSet(Missing(line, cached, n)) /\ Cardinality(Missing(line, cached, n)) \in Nat
         /\ Cardinality(Missing(line, cached, n)) <= n
         /\ Cardinality(Missing(line, cached, n + 1)) <= Cardinality(Missing(line, cached, n)) + 1
         /\ Cardinality(Missing(line, cached, 0)) = 0
<1>1. IsFiniteSet(Opening(line, n)) /\ Cardinality(Opening(line, n)) <= n
      /\ Cardinality(Opening(line, n)) \in Nat
  BY FrontFinite, FS_CardinalityType
<1>2. Missing(line, cached, n) \in SUBSET Opening(line, n)
  BY DEF Missing
<1>3. /\ IsFiniteSet(Missing(line, cached, n)) /\ Cardinality(Missing(line, cached, n)) \in Nat
      /\ Cardinality(Missing(line, cached, n)) <= Cardinality(Opening(line, n))
  BY <1>1, <1>2, FS_Subset, FS_CardinalityType
<1>4. \/ Missing(line, cached, n + 1) = Missing(line, cached, n)
      \/ Missing(line, cached, n + 1) = Missing(line, cached, n) \cup {line[n + 1]}
  BY FrontStep DEF Missing
<1>5. Cardinality(Missing(line, cached, n) \cup {line[n + 1]})
        <= Cardinality(Missing(line, cached, n)) + 1
  <2> DEFINE S == Missing(line, cached, n)
  <2>1. IsFiniteSet(S) /\ Cardinality(S) \in Nat
    BY <1>3
  <2> HIDE DEF S
  <2>2. Cardinality(S \cup {line[n + 1]}) = IF line[n + 1] \in S THEN Cardinality(S) ELSE Cardinality(S) + 1
    BY <2>1, FS_AddElement
  <2>3. Cardinality(S \cup {line[n + 1]}) <= Cardinality(S) + 1
    BY <2>1, <2>2
  <2> QED
    BY <2>3 DEF S
<1>6. Missing(line, cached, 0) = {}
  BY FrontStep DEF Missing
<1> QED
  BY <1>1, <1>3, <1>4, <1>5, <1>6, FS_EmptySet

\* Where the pump stops.
Stop(line, cached, free, n) ==
  /\ Cardinality(Missing(line, cached, n)) <= free
  /\ n = Len(line) \/ Cardinality(Missing(line, cached, n)) = free
  /\ \A m \in 0..(n - 1) : Cardinality(Missing(line, cached, m)) < free

LEMMA PumpStops ==
  ASSUME NEW S, NEW line \in Seq(S), NEW cached, NEW free \in Nat
  PROVE  \E n \in 0..Len(line) : Stop(line, cached, free, n)
<1> DEFINE M(n) == Cardinality(Missing(line, cached, n))
           Ends == {n \in 0..Len(line) : n = Len(line) \/ ~(M(n) < free)}
<1>1. Len(line) \in Nat /\ M(0) = 0 /\ \A n \in Nat : M(n) \in Nat /\ M(n + 1) <= M(n) + 1
  <2>1. ASSUME NEW n \in Nat PROVE M(n) \in Nat /\ M(n + 1) <= M(n) + 1 /\ M(0) = 0
    <3>1. n \in Nat
      OBVIOUS
    <3> QED
      BY ONLY <3>1, MissingSize
  <2>2. M(0) = 0
    BY <2>1
  <2>3. \A n \in Nat : M(n) \in Nat /\ M(n + 1) <= M(n) + 1
    BY <2>1
  <2> QED
    BY <2>2, <2>3
<1> HIDE DEF M
<1>2. Ends \in SUBSET Nat /\ Ends # {}
  <2>1. Len(line) \in Ends
    BY <1>1
  <2> QED
    BY <2>1
<1>3. PICK n \in Ends : \A k \in Ends : n <= k
  BY <1>2, LeastMember
<1>4. n \in 0..Len(line) /\ n \in Nat
  BY <1>1, <1>3
<1>5. \A m \in 0..(n - 1) : M(m) < free
  <2>1. SUFFICES ASSUME NEW m \in 0..(n - 1) PROVE m \notin Ends /\ m \in 0..Len(line)
    OBVIOUS
  <2>2. m \in 0..Len(line) /\ ~(n <= m)
    BY <1>1, <1>4
  <2> QED
    BY <1>3, <2>2
<1>6. M(n) <= free
  <2>1. CASE n = 0
    BY <1>1, <2>1
  <2>2. CASE n # 0
    <3>1. n - 1 \in Nat /\ n - 1 \in 0..(n - 1) /\ (n - 1) + 1 = n
      BY <1>4, <2>2
    <3>2. M(n - 1) < free /\ M(n) <= M(n - 1) + 1 /\ M(n - 1) \in Nat /\ M(n) \in Nat
      BY <1>1, <1>4, <1>5, <3>1
    <3> QED
      BY <3>2
  <2> QED
    BY <2>1, <2>2
<1>7. n = Len(line) \/ M(n) = free
  BY <1>1, <1>3, <1>4, <1>6
<1> QED
  BY <1>4, <1>5, <1>6, <1>7 DEF Stop, M

\* What the pump makes of a line of tasks none of which is downloading: its accounts.
LEMMA PumpAccounts ==
  ASSUME CacheAssumption, NEW line \in Seq(Keys), IsInjective(line),
         NEW busy \in SUBSET Keys, Range(line) \cap busy = {},
         NEW cached, NEW known, known = Range(line) \cup busy,
         Cardinality(busy) <= Concurrency, Len(line) + Cardinality(busy) <= MaxInflight,
         Pumped(line, busy, known, cached)
  PROVE  /\ pending' \in Seq(Keys) /\ downloads' \in SUBSET Keys /\ inFlight' \in SUBSET Keys
         /\ PrefetchAccounted'
<1> DEFINE free == Concurrency - Cardinality(busy)
<1>1. /\ IsFiniteSet(busy) /\ Cardinality(busy) \in Nat /\ free \in Nat
      /\ Concurrency \in Nat /\ MaxInflight \in Nat /\ Len(line) \in Nat
  BY FS_Subset, FS_CardinalityType DEF CacheAssumption
<1> HIDE DEF free
<1>2. PICK n : /\ n = CHOOSE m \in 0..Len(line) : Stop(line, cached, free, m)
               /\ pending' = SubSeq(line, n + 1, Len(line))
               /\ downloads' = busy \cup Missing(line, cached, n)
               /\ inFlight' = known \ (Opening(line, n) \cap cached)
  BY DEF Pumped, Stop, Missing, Opening, free
<1>3. n \in 0..Len(line) /\ Stop(line, cached, free, n)
  BY <1>1, <1>2, PumpStops
<1> DEFINE T == Opening(line, n)
           M == Missing(line, cached, n)
<1>4. n \in Nat /\ n <= Len(line) /\ Cardinality(M) <= free
  BY <1>1, <1>3 DEF Stop
<1>5. M = T \ cached /\ IsFiniteSet(M) /\ Cardinality(M) \in Nat /\ Cardinality(M) <= n
  BY <1>4, MissingSize DEF Missing
<1>6. T \in SUBSET Range(line)
  BY <1>3, InjectiveHead
<1>7. /\ pending' \in Seq(Keys) /\ Len(pending') = Len(line) - n /\ IsInjective(pending')
      /\ Range(pending') = Range(line) \ T
  <2>1. ASSUME NEW rest, rest = SubSeq(line, n + 1, Len(line))
        PROVE  /\ rest \in Seq(Keys) /\ Len(rest) = Len(line) - n /\ IsInjective(rest)
               /\ Range(rest) = Range(line) \ Opening(line, n)
    <3>1. line \in Seq(Keys) /\ IsInjective(line) /\ n \in 0..Len(line)
      BY <1>3
    <3> QED
      BY ONLY <3>1, <2>1, InjectiveRest
  <2> QED
    BY <1>2, <2>1
<1>8. Range(line) \in SUBSET Keys
  BY RangeFacts
<1> HIDE DEF T, M
<1>9. downloads' = busy \cup M /\ inFlight' = known \ (T \cap cached)
  BY <1>2 DEF T, M
<1>10. /\ Range(pending') \cap downloads' = {} /\ inFlight' = Range(pending') \cup downloads'
       /\ downloads' \in SUBSET Keys /\ inFlight' \in SUBSET Keys
  BY <1>5, <1>6, <1>7, <1>8, <1>9
<1>11. Cardinality(downloads') = Cardinality(busy) + Cardinality(M)
  <2>1. busy \cap M = {}
    BY <1>5, <1>6
  <2>2. Cardinality(busy \cup M) = Cardinality(busy) + Cardinality(M) - Cardinality(busy \cap M)
    BY <1>1, <1>5, FS_Union
  <2>3. Cardinality(busy \cap M) = 0
    BY <2>1, FS_EmptySet
  <2> QED
    BY <1>1, <1>5, <1>9, <2>2, <2>3
<1>12. /\ Cardinality(downloads') <= Concurrency
       /\ Len(pending') + Cardinality(downloads') <= MaxInflight
  BY <1>1, <1>4, <1>5, <1>7, <1>11 DEF free
<1> QED
  BY <1>7, <1>10, <1>12 DEF PrefetchAccounted, IsInjective, Range

\* A line of tasks that the pool may hold.
Admissible(line) ==
  /\ line \in Seq(Keys) /\ IsInjective(line) /\ Range(pending) \subseteq Range(line)
  /\ Range(line) \cap downloads = {} /\ Len(line) + Cardinality(downloads) <= MaxInflight

LEMMA OfferedIsAdmissible ==
  ASSUME CacheAssumption, CacheTypeOK, PrefetchAccounted,
         NEW line, Admissible(line), NEW k \in Keys
  PROVE  Admissible(Offered(line, k))
<1>1. CASE ~Accepted(line, k)
  BY <1>1 DEF Offered
<1>2. CASE Accepted(line, k)
  <2>1. /\ line \in Seq(Keys) /\ IsInjective(line) /\ k \notin Range(line) \cup inFlight
        /\ Len(line) + Cardinality(downloads) < MaxInflight
    BY <1>2 DEF Accepted, Admissible
  <2>2. /\ Append(line, k) \in Seq(Keys) /\ Len(Append(line, k)) = Len(line) + 1
        /\ Range(Append(line, k)) = Range(line) \cup {k}
    <3>1. line \in Seq(Keys) /\ k \in Keys
      BY <2>1
    <3> QED
      BY ONLY <3>1, RangeAppend
  <2>3. IsInjective(Append(line, k))
    <3>1. line \in Seq(Keys) /\ k \in Keys /\ k \notin Range(line) /\ IsInjective(line)
      BY <2>1
    <3> QED
      BY ONLY <3>1, InjectiveAppend
  <2>4. Cardinality(downloads) \in Nat /\ MaxInflight \in Nat /\ Len(line) \in Nat
    <3>1. IsFiniteSet(downloads)
      BY FS_Subset DEF CacheAssumption, CacheTypeOK
    <3> QED
      BY <2>1, <3>1, FS_CardinalityType DEF CacheAssumption
  <2>5. Len(Append(line, k)) + Cardinality(downloads) <= MaxInflight
    BY <2>1, <2>2, <2>4
  <2>6. k \notin downloads
    BY <2>1 DEF PrefetchAccounted
  <2>7. Range(pending) \subseteq Range(line) \cup {k} /\ (Range(line) \cup {k}) \cap downloads = {}
    BY <2>6 DEF Admissible
  <2>8. Offered(line, k) = Append(line, k)
    BY <1>2 DEF Offered
  <2> HIDE <1>2
  <2> QED
    BY <2>2, <2>3, <2>5, <2>7, <2>8 DEF Admissible
<1> QED
  BY <1>1, <1>2

LEMMA PublishAccounts ==
  ASSUME CacheAssumption, CacheTypeOK, PrefetchAccounted, Publish
  PROVE  CacheTypeOK' /\ PrefetchAccounted'
<1>1. PICK k \in Keys, l \in Keys :
        /\ Schedule(k, l)
        /\ scan' = [n \in Keys |-> IF n \in {k, l} /\ scan[n] = "none"
                                   THEN "queued" ELSE scan[n]]
        /\ UNCHANGED <<cache, booting, captured, faults>>
  BY DEF Publish
<1>2. PICK line : /\ line = Offered(Offered(pending, k), l)
                  /\ Pumped(line, downloads, inFlight \cup Range(line), Cached(files))
  BY <1>1 DEF Schedule
<1>3. Admissible(line)
  <2>1. Admissible(pending)
    BY DEF Admissible, CacheTypeOK, PrefetchAccounted
  <2> QED
    BY <1>2, <2>1, OfferedIsAdmissible
<1>4. /\ inFlight \cup Range(line) = Range(line) \cup downloads
      /\ downloads \in SUBSET Keys /\ Cardinality(downloads) <= Concurrency
  BY <1>3 DEF Admissible, PrefetchAccounted, CacheTypeOK
<1>5. /\ pending' \in Seq(Keys) /\ downloads' \in SUBSET Keys /\ inFlight' \in SUBSET Keys
      /\ PrefetchAccounted'
  <2>1. ASSUME NEW known, known = inFlight \cup Range(line)
        PROVE  /\ pending' \in Seq(Keys) /\ downloads' \in SUBSET Keys /\ inFlight' \in SUBSET Keys
               /\ PrefetchAccounted'
    <3>1. /\ line \in Seq(Keys) /\ IsInjective(line) /\ downloads \in SUBSET Keys
          /\ Range(line) \cap downloads = {} /\ known = Range(line) \cup downloads
          /\ Cardinality(downloads) <= Concurrency
          /\ Len(line) + Cardinality(downloads) <= MaxInflight
          /\ Pumped(line, downloads, known, Cached(files))
      BY <1>2, <1>3, <1>4, <2>1 DEF Admissible
    <3> QED
      BY ONLY <3>1, CacheAssumption, PumpAccounts
  <2> QED
    BY <2>1
<1>6. scan' \in [Keys -> {"none", "queued", "fetching"}]
  BY <1>1 DEF CacheTypeOK
<1>7. UNCHANGED <<files, index, indexFile, booting, captured, faults>>
  BY <1>1 DEF cache
<1> QED
  BY <1>5, <1>6, <1>7 DEF CacheTypeOK

-----------------------------------------------------------------------------
(* The cache *)

\* An entry is no younger than its file, and that of a capture that still counts is no
\* older: an entry is lost, or left behind, but never ages apart from its file.
NoYounger(entries) ==
  \A k \in Keys : files[k] # NoFile /\ entries[k] # NoFile => files[k].age <= entries[k]

NoOlder(entries) ==
  \A k \in captured : entries[k] = NoFile \/ entries[k] <= files[k].age

Aligned == NoYounger(index) /\ NoYounger(indexFile) /\ NoOlder(index) /\ NoOlder(indexFile)

CacheInv == CacheTypeOK /\ PrefetchAccounted /\ CaptureKept /\ Aligned

LEMMA CacheInitHolds ==
  ASSUME CacheAssumption, CacheInit
  PROVE  CacheInv
<1>1. CacheTypeOK
  <2>1. /\ files \in [Keys -> File \cup {NoFile}]
        /\ index \in [Keys -> Ages \cup {NoFile}] /\ indexFile \in [Keys -> Ages \cup {NoFile}]
    BY DEF CacheInit, Empty
  <2>2. pending \in Seq(Keys)
    BY DEF CacheInit
  <2>3. scan \in [Keys -> {"none", "queued", "fetching"}] /\ faults \in 0..MaxFaults
    BY DEF CacheInit, CacheAssumption
  <2> QED
    BY <2>1, <2>2, <2>3 DEF CacheInit, CacheTypeOK
<1>2. PrefetchAccounted
  <2>1. Cardinality(downloads) = 0 /\ Len(pending) = 0 /\ downloads = {} /\ inFlight = {}
    BY FS_EmptySet DEF CacheInit
  <2>2. IsInjective(pending) /\ Range(pending) = {}
    BY DEF CacheInit, IsInjective, Range
  <2> QED
    BY <2>1, <2>2 DEF PrefetchAccounted, CacheAssumption
<1>3. captured = {} /\ \A k \in Keys : files[k] = NoFile
  BY DEF CacheInit, Empty
<1> QED
  BY <1>1, <1>2, <1>3 DEF CacheInv, CaptureKept, Aligned, NoYounger, NoOlder

\* The pump, from a line that is waiting already.
LEMMA PumpedWaiting ==
  ASSUME CacheAssumption, CacheTypeOK, PrefetchAccounted, NEW k \in downloads,
         NEW cached, Pumped(pending, downloads \ {k}, inFlight \ {k}, cached)
  PROVE  /\ pending' \in Seq(Keys) /\ downloads' \in SUBSET Keys /\ inFlight' \in SUBSET Keys
         /\ PrefetchAccounted'
<1>1. /\ pending \in Seq(Keys) /\ downloads \in SUBSET Keys /\ IsFiniteSet(downloads)
      /\ Cardinality(downloads) \in Nat /\ Len(pending) \in Nat
      /\ Concurrency \in Nat /\ MaxInflight \in Nat
  <2>1. IsFiniteSet(downloads)
    BY FS_Subset DEF CacheAssumption, CacheTypeOK
  <2> QED
    BY <2>1, FS_CardinalityType DEF CacheAssumption, CacheTypeOK
<1>2. ASSUME NEW busy, busy = downloads \ {k}, NEW known, known = inFlight \ {k}
      PROVE  /\ pending' \in Seq(Keys) /\ downloads' \in SUBSET Keys
             /\ inFlight' \in SUBSET Keys /\ PrefetchAccounted'
  <2>1. IsFiniteSet(busy) /\ Cardinality(busy) = Cardinality(downloads) - 1
    BY <1>1, <1>2, FS_RemoveElement
  <2>2. IsInjective(pending) /\ Range(pending) \cap busy = {} /\ known = Range(pending) \cup busy
    BY <1>2 DEF PrefetchAccounted
  <2>3. Cardinality(busy) <= Concurrency /\ Len(pending) + Cardinality(busy) <= MaxInflight
    BY <1>1, <2>1 DEF PrefetchAccounted
  <2>4. busy \in SUBSET Keys /\ Pumped(pending, busy, known, cached)
    BY <1>1, <1>2
  <2>5. pending \in Seq(Keys)
    BY <1>1
  <2> QED
    BY ONLY <2>2, <2>3, <2>4, <2>5, CacheAssumption, PumpAccounts
<1> QED
  BY <1>2

\* cacheTarball writes a whole file with entries of its age.
LEMMA CacheTarballKeeps ==
  ASSUME CacheAssumption, CacheInv, NEW k \in Keys, CacheTarball(k)
  PROVE  /\ files' \in [Keys -> File \cup {NoFile}]
         /\ index' \in [Keys -> Ages \cup {NoFile}] /\ indexFile' \in [Keys -> Ages \cup {NoFile}]
         /\ captured' \in SUBSET Keys /\ CaptureKept' /\ Aligned'
<1>1. /\ files \in [Keys -> File \cup {NoFile}] /\ index \in [Keys -> Ages \cup {NoFile}]
      /\ captured \in SUBSET Keys /\ CaptureKept /\ NoYounger(index) /\ NoOlder(index)
  BY DEF CacheInv, CacheTypeOK, Aligned
<1> DEFINE new == [age |-> 0, whole |-> TRUE]
<1>2. new \in File /\ new.age = 0 /\ new.whole /\ new # NoFile
  <2>1. new \in File /\ new.age = 0 /\ new.whole
    BY DEF File, Ages
  <2>2. NoFile \notin File
    BY DEF CacheAssumption
  <2> QED
    BY ONLY <2>1, <2>2
<1> HIDE DEF new
<1>3. /\ files' = [files EXCEPT ![k] = new] /\ index' = [index EXCEPT ![k] = 0]
      /\ indexFile' = index' /\ captured' = captured \cup {k}
  BY DEF CacheTarball, new
<1>4. /\ files' \in [Keys -> File \cup {NoFile}] /\ index' \in [Keys -> Ages \cup {NoFile}]
      /\ captured' \in SUBSET Keys
  BY <1>1, <1>2, <1>3 DEF Ages
<1>5. \A j \in Keys : IF j = k THEN files'[j] = new /\ index'[j] = 0
                      ELSE files'[j] = files[j] /\ index'[j] = index[j]
  BY <1>1, <1>3
<1>6. CaptureKept'
  BY <1>1, <1>2, <1>3, <1>5, Zenon DEF CaptureKept
<1>7. NoYounger(index)'
  BY <1>1, <1>2, <1>5 DEF NoYounger
<1>8. NoOlder(index)'
  BY <1>1, <1>2, <1>3, <1>5 DEF NoOlder
<1> QED
  BY <1>3, <1>4, <1>6, <1>7, <1>8 DEF Aligned, NoYounger, NoOlder

LEMMA DownloadedStep ==
  ASSUME CacheAssumption, CacheInv, NEW k \in Keys, Downloaded(k)
  PROVE  CacheInv'
<1>1. /\ k \in downloads /\ UNCHANGED <<scan, booting, faults>>
      /\ Pumped(pending, downloads \ {k}, inFlight \ {k}, Cached(files'))
      /\ CacheTarball(k) \/ UNCHANGED <<cache, captured>>
  BY DEF Downloaded
<1>2. /\ pending' \in Seq(Keys) /\ downloads' \in SUBSET Keys /\ inFlight' \in SUBSET Keys
      /\ PrefetchAccounted'
  <2>1. ASSUME NEW cached, cached = Cached(files')
        PROVE  /\ pending' \in Seq(Keys) /\ downloads' \in SUBSET Keys
               /\ inFlight' \in SUBSET Keys /\ PrefetchAccounted'
    <3>1. /\ CacheTypeOK /\ PrefetchAccounted /\ k \in downloads
          /\ Pumped(pending, downloads \ {k}, inFlight \ {k}, cached)
      BY <1>1, <2>1 DEF CacheInv
    <3> QED
      BY ONLY <3>1, CacheAssumption, PumpedWaiting
  <2> QED
    BY <2>1
<1>3. /\ files' \in [Keys -> File \cup {NoFile}]
      /\ index' \in [Keys -> Ages \cup {NoFile}] /\ indexFile' \in [Keys -> Ages \cup {NoFile}]
      /\ captured' \in SUBSET Keys /\ CaptureKept' /\ Aligned'
  <2>1. CASE CacheTarball(k)
    BY <2>1, CacheTarballKeeps
  <2>2. CASE UNCHANGED <<cache, captured>>
    BY <2>2 DEF cache, CacheInv, CacheTypeOK, CaptureKept, Aligned, NoYounger, NoOlder
  <2> QED
    BY <1>1, <2>1, <2>2
<1> QED
  BY <1>1, <1>2, <1>3 DEF CacheInv, CacheTypeOK

\* A step that moves neither the pool nor the cache, or fills the cache.
LEMMA ScanStep ==
  ASSUME CacheAssumption, CacheInv, NEW k \in Keys, ScanBegins(k) \/ ScanHits(k) \/ ScanFetched(k)
  PROVE  CacheInv'
<1>1. /\ UNCHANGED <<pool, booting, faults>> /\ scan' \in [Keys -> {"none", "queued", "fetching"}]
      /\ CacheTarball(k) \/ UNCHANGED <<cache, captured>>
  BY DEF ScanBegins, ScanHits, ScanFetched, CacheInv, CacheTypeOK
<1>2. /\ files' \in [Keys -> File \cup {NoFile}]
      /\ index' \in [Keys -> Ages \cup {NoFile}] /\ indexFile' \in [Keys -> Ages \cup {NoFile}]
      /\ captured' \in SUBSET Keys /\ CaptureKept' /\ Aligned'
  <2>1. CASE CacheTarball(k)
    BY <2>1, CacheTarballKeeps
  <2>2. CASE UNCHANGED <<cache, captured>>
    BY <2>2 DEF cache, CacheInv, CacheTypeOK, CaptureKept, Aligned, NoYounger, NoOlder
  <2> QED
    BY <1>1, <2>1, <2>2
<1>3. PrefetchAccounted'
  BY <1>1 DEF pool, CacheInv, PrefetchAccounted, IsInjective, Range
<1> QED
  BY <1>1, <1>2, <1>3 DEF CacheInv, CacheTypeOK, pool

\* What remains of the cache is what it was, and what remains captured is there.
LEMMA Reduced ==
  ASSUME CacheInv, NEW gone \in SUBSET Keys, NEW out \in SUBSET Keys,
         files' = [k \in Keys |-> IF k \in gone THEN NoFile ELSE files[k]],
         index' = [k \in Keys |-> IF k \in out THEN NoFile ELSE index[k]],
         indexFile' = indexFile \/ indexFile' = index',
         captured' \in SUBSET (captured \ gone)
  PROVE  /\ files' \in [Keys -> File \cup {NoFile}]
         /\ index' \in [Keys -> Ages \cup {NoFile}] /\ indexFile' \in [Keys -> Ages \cup {NoFile}]
         /\ captured' \in SUBSET Keys /\ CaptureKept' /\ Aligned'
<1>1. /\ files \in [Keys -> File \cup {NoFile}] /\ index \in [Keys -> Ages \cup {NoFile}]
      /\ indexFile \in [Keys -> Ages \cup {NoFile}] /\ captured \in SUBSET Keys
  BY DEF CacheInv, CacheTypeOK
<1>2. /\ files' \in [Keys -> File \cup {NoFile}]
      /\ index' \in [Keys -> Ages \cup {NoFile}] /\ indexFile' \in [Keys -> Ages \cup {NoFile}]
      /\ captured' \in SUBSET Keys
  BY <1>1
<1>3. /\ \A k \in Keys : files'[k] = NoFile \/ files'[k] = files[k]
      /\ \A k \in Keys : index'[k] = NoFile \/ index'[k] = index[k]
      /\ \A k \in captured' : k \in captured /\ k \in Keys /\ files'[k] = files[k]
  BY <1>1
<1>4. \A k \in Keys : \/ indexFile'[k] = NoFile \/ indexFile'[k] = indexFile[k]
                      \/ indexFile'[k] = index[k]
  BY <1>3
<1>5. CaptureKept /\ NoYounger(index) /\ NoYounger(indexFile) /\ NoOlder(index) /\ NoOlder(indexFile)
  BY DEF CacheInv, Aligned
<1>6. CaptureKept'
  BY <1>3, <1>5, Zenon DEF CaptureKept
<1>7. NoYounger(index)' /\ NoYounger(indexFile)'
  BY ONLY <1>3, <1>4, <1>5 DEF NoYounger
<1>8. NoOlder(index)' /\ NoOlder(indexFile)'
  BY ONLY <1>3, <1>4, <1>5 DEF NoOlder
<1> QED
  BY <1>2, <1>6, <1>7, <1>8 DEF Aligned, NoYounger, NoOlder

\* The young are not expired: a capture within its retention is neither out nor an orphan.
LEMMA PurgeReduces ==
  ASSUME CacheAssumption, CacheInv, Purge
  PROVE  CacheInv' /\ \A k \in Keys : files'[k] = NoFile \/ ~Stale(files'[k])
<1>1. PICK evicted \in SUBSET Keys, out \in SUBSET Keys, tracked \in SUBSET Keys :
        /\ out = {k \in Keys : Expired(k)} \cup evicted
        /\ tracked = {k \in Keys : index[k] # NoFile} \ out
        /\ files' = [k \in Keys |-> IF k \in out \cup Orphans(tracked) THEN NoFile ELSE files[k]]
        /\ index' = [k \in Keys |-> IF k \in out THEN NoFile ELSE index[k]]
        /\ indexFile' = indexFile \/ indexFile' = index'
        /\ captured' = {k \in captured \ evicted :
                          files[k] # NoFile /\ files[k].age < Retention[k]}
        /\ booting' = FALSE /\ UNCHANGED <<pool, scan, faults>>
  <2>1. PICK evicted \in Evictions :
          LET out == {k \in Keys : Expired(k)} \cup evicted
              tracked == {k \in Keys : index[k] # NoFile} \ out
          IN  /\ files' = [k \in Keys |-> IF k \in out \cup Orphans(tracked) THEN NoFile ELSE files[k]]
              /\ index' = [k \in Keys |-> IF k \in out THEN NoFile ELSE index[k]]
              /\ indexFile' = IF out = {} THEN indexFile ELSE index'
              /\ captured' = {k \in captured \ evicted :
                                files[k] # NoFile /\ files[k].age < Retention[k]}
              /\ booting' = FALSE /\ UNCHANGED <<pool, scan, faults>>
    BY DEF Purge
  <2>2. evicted \in SUBSET Keys
    BY DEF Evictions
  <2> DEFINE out == {k \in Keys : Expired(k)} \cup evicted
             tracked == {k \in Keys : index[k] # NoFile} \ out
  <2>3. out \in SUBSET Keys /\ tracked \in SUBSET Keys
    BY <2>2
  <2>4. indexFile' = indexFile \/ indexFile' = index'
    BY <2>1
  <2> QED
    BY <2>1, <2>2, <2>3, <2>4
<1>2. Orphans(tracked) = {k \in Keys \ tracked : files[k] # NoFile /\ files[k].age >= 2}
  BY DEF Orphans, Stale
<1> DEFINE gone == out \cup Orphans(tracked)
<1>3. gone \in SUBSET Keys
  BY <1>1, <1>2
<1>4. /\ files \in [Keys -> File \cup {NoFile}] /\ index \in [Keys -> Ages \cup {NoFile}]
      /\ captured \in SUBSET Keys /\ NoYounger(index) /\ NoOlder(index)
      /\ Retention \in [Keys -> 0..2] /\ NoFile \notin Ages /\ NoFile \notin File
  BY DEF CacheInv, CacheTypeOK, Aligned, CacheAssumption
<1>5. \A k \in Keys : /\ Retention[k] \in 0..2 /\ (index[k] # NoFile => index[k] \in 0..2)
                      /\ (files[k] # NoFile => files[k].age \in 0..2)
  BY <1>4 DEF Ages, File
<1>6. captured' \in SUBSET (captured \ gone)
  <2>1. SUFFICES ASSUME NEW k \in captured' PROVE k \in captured /\ k \notin gone
    OBVIOUS
  <2>2. k \in captured /\ k \in Keys /\ k \notin evicted /\ files[k] # NoFile /\ files[k].age < Retention[k]
    BY <1>1, <1>4
  <2>3. ~Expired(k)
    BY <1>4, <1>5, <2>2 DEF Expired, NoOlder
  <2>4. ~(files[k].age >= 2)
    BY <1>5, <2>2
  <2> QED
    BY <1>1, <1>2, <2>2, <2>3, <2>4
<1>7. \A k \in Keys : files'[k] = NoFile \/ ~Stale(files'[k])
  <2>1. SUFFICES ASSUME NEW k \in Keys, files'[k] # NoFile PROVE ~(files'[k].age >= 2)
    BY DEF Stale
  <2>2. k \notin gone /\ files'[k] = files[k]
    BY <1>1, <2>1
  <2>3. CASE k \in tracked
    <3>1. index[k] # NoFile /\ ~Expired(k)
      BY <1>1, <2>3
    <3> QED
      BY <1>4, <1>5, <2>1, <2>2, <3>1 DEF Expired, NoYounger
  <2>4. CASE k \notin tracked
    BY <1>2, <2>1, <2>2, <2>4
  <2> QED
    BY <2>3, <2>4
<1>8. files' = [k \in Keys |-> IF k \in gone THEN NoFile ELSE files[k]]
  BY <1>1
<1> HIDE DEF gone
<1>9. /\ files' \in [Keys -> File \cup {NoFile}]
      /\ index' \in [Keys -> Ages \cup {NoFile}] /\ indexFile' \in [Keys -> Ages \cup {NoFile}]
      /\ captured' \in SUBSET Keys /\ CaptureKept' /\ Aligned'
  <2>1. index' = [k \in Keys |-> IF k \in out THEN NoFile ELSE index[k]] /\ out \in SUBSET Keys
        /\ (indexFile' = indexFile \/ indexFile' = index')
    BY <1>1
  <2> QED
    BY ONLY CacheInv, <1>3, <1>6, <1>8, <2>1, Reduced
<1>10. booting' \in BOOLEAN /\ UNCHANGED <<pending, downloads, inFlight, scan, faults>>
  BY <1>1 DEF pool
<1>11. PrefetchAccounted'
  BY <1>10 DEF CacheInv, PrefetchAccounted, IsInjective, Range
<1> QED
  BY <1>7, <1>9, <1>10, <1>11 DEF CacheInv, CacheTypeOK

LEMMA TickStep ==
  ASSUME CacheAssumption, CacheInv, Tick
  PROVE  CacheInv'
<1>1. /\ files \in [Keys -> File \cup {NoFile}] /\ index \in [Keys -> Ages \cup {NoFile}]
      /\ indexFile \in [Keys -> Ages \cup {NoFile}] /\ captured \in SUBSET Keys
      /\ CaptureKept /\ NoYounger(index) /\ NoYounger(indexFile) /\ NoOlder(index) /\ NoOlder(indexFile)
      /\ NoFile \notin Ages /\ NoFile \notin File
  BY DEF CacheInv, CacheTypeOK, Aligned, CacheAssumption
<1>2. /\ \A k \in Keys : files'[k] = IF files[k] = NoFile THEN NoFile
                                     ELSE [files[k] EXCEPT !.age = Older(@)]
      /\ \A k \in Keys : index'[k] = Older(index[k]) /\ indexFile'[k] = Older(indexFile[k])
      /\ DOMAIN files' = Keys /\ DOMAIN index' = Keys /\ DOMAIN indexFile' = Keys
      /\ UNCHANGED <<pending, downloads, inFlight, scan, booting, captured, faults>>
  BY DEF Tick, pool
<1>3. /\ \A n \in Ages : Older(n) \in Ages
      /\ \A n, p \in Ages : n <= p => Older(n) <= Older(p)
      /\ Older(NoFile) = NoFile /\ \A n \in Ages : Older(n) # NoFile
  <2>1. \A n \in Ages : n # NoFile
    BY <1>1
  <2>2. \A n \in Ages : Older(n) = IF n = 2 THEN 2 ELSE n + 1
    BY <2>1 DEF Older
  <2>3. \A n \in Ages : Older(n) \in Ages
    BY <2>2 DEF Ages
  <2> QED
    BY <2>1, <2>2, <2>3 DEF Ages, Older
<1>4. \A k \in Keys : files[k] # NoFile =>
        /\ files[k].age \in Ages /\ files'[k] \in File /\ files'[k] # NoFile
        /\ files'[k].age = Older(files[k].age) /\ files'[k].whole = files[k].whole
  <2>1. SUFFICES ASSUME NEW k \in Keys, files[k] # NoFile
                 PROVE  /\ files[k].age \in Ages /\ files'[k] \in File /\ files'[k] # NoFile
                        /\ files'[k].age = Older(files[k].age) /\ files'[k].whole = files[k].whole
    OBVIOUS
  <2>2. files[k] \in File
    BY <1>1, <2>1
  <2>3. /\ files[k].age \in Ages /\ files'[k] \in File
        /\ files'[k].age = Older(files[k].age) /\ files'[k].whole = files[k].whole
    BY <1>2, <1>3, <2>1, <2>2 DEF File
  <2> QED
    BY <1>1, <2>3
<1>5. /\ files' \in [Keys -> File \cup {NoFile}]
      /\ index' \in [Keys -> Ages \cup {NoFile}] /\ indexFile' \in [Keys -> Ages \cup {NoFile}]
  <2>1. /\ \A k \in Keys : files'[k] \in File \cup {NoFile}
        /\ \A k \in Keys : index'[k] \in Ages \cup {NoFile} /\ indexFile'[k] \in Ages \cup {NoFile}
    BY <1>1, <1>2, <1>3, <1>4
  <2>2. /\ files' = [k \in Keys |-> files'[k]] /\ index' = [k \in Keys |-> index'[k]]
        /\ indexFile' = [k \in Keys |-> indexFile'[k]]
    BY DEF Tick
  <2> QED
    BY <2>1, <2>2
<1>6. \A k \in Keys : files'[k] # NoFile => files[k] # NoFile
  BY <1>2
<1>7. CaptureKept'
  BY ONLY <1>1, <1>2, <1>4 DEF CaptureKept
<1>8. ASSUME NEW k \in Keys, NEW n \in Ages \cup {NoFile}, files[k] # NoFile
      PROVE  /\ Older(n) # NoFile <=> n # NoFile
             /\ n # NoFile /\ files[k].age <= n => files'[k].age <= Older(n)
             /\ n # NoFile /\ n <= files[k].age => Older(n) <= files'[k].age
  BY <1>3, <1>4, <1>8
<1>9. \A k \in captured : k \in Keys /\ files[k] # NoFile
  BY <1>1 DEF CaptureKept
<1>10. NoYounger(index)' /\ NoYounger(indexFile)'
  BY <1>1, <1>2, <1>6, <1>8 DEF NoYounger
<1>11. NoOlder(index)' /\ NoOlder(indexFile)'
  BY <1>1, <1>2, <1>8, <1>9 DEF NoOlder
<1>12. PrefetchAccounted'
  BY <1>2 DEF CacheInv, PrefetchAccounted, IsInjective, Range
<1>13. Aligned'
  BY <1>10, <1>11 DEF Aligned, NoYounger, NoOlder
<1> QED
  BY <1>2, <1>5, <1>7, <1>12, <1>13 DEF CacheInv, CacheTypeOK

LEMMA PublishStep ==
  ASSUME CacheAssumption, CacheInv, Publish
  PROVE  CacheInv'
<1>1. CacheTypeOK' /\ PrefetchAccounted'
  BY PublishAccounts DEF CacheInv
<1>2. UNCHANGED <<files, index, indexFile, captured>>
  BY DEF Publish, cache
<1>3. CaptureKept' /\ Aligned'
  BY <1>2 DEF CacheInv, CaptureKept, Aligned, NoYounger, NoOlder
<1> QED
  BY <1>1, <1>3 DEF CacheInv

\* Whatever the process was doing, the index it loads is that of the file, or empty.
LEMMA DieStep ==
  ASSUME CacheAssumption, CacheInv, Die
  PROVE  CacheInv'
<1>1. /\ files \in [Keys -> File \cup {NoFile}] /\ index \in [Keys -> Ages \cup {NoFile}]
      /\ indexFile \in [Keys -> Ages \cup {NoFile}] /\ captured \in SUBSET Keys
      /\ CaptureKept /\ NoYounger(indexFile) /\ NoOlder(indexFile)
  BY DEF CacheInv, CacheTypeOK, Aligned
<1>2. /\ index' = indexFile \/ index' = Empty
      /\ pending' = <<>> /\ downloads' = {} /\ inFlight' = {} /\ booting' = TRUE
      /\ scan' = [k \in Keys |-> IF scan[k] = "none" THEN "none" ELSE "queued"]
      /\ indexFile' = indexFile /\ faults < MaxFaults /\ faults' = faults + 1
  BY DEF Die
<1>3. /\ files' \in [Keys -> File \cup {NoFile}] /\ captured' \in SUBSET captured
      /\ \A k \in Keys : \/ files'[k] = files[k]
                         \/ k \notin captured' /\ (files'[k] = NoFile \/ files'[k].age = 0)
  <2>1. CASE UNCHANGED <<files, captured>>
    BY <1>1, <2>1
  <2>2. ASSUME NEW k \in Keys, NEW whole \in BOOLEAN,
               files' = [files EXCEPT ![k] = [age |-> 0, whole |-> whole]],
               captured' = captured \ {k}
        PROVE  /\ files' \in [Keys -> File \cup {NoFile}] /\ captured' \in SUBSET captured
               /\ \A j \in Keys : \/ files'[j] = files[j]
                                  \/ j \notin captured' /\ (files'[j] = NoFile \/ files'[j].age = 0)
    <3> DEFINE new == [age |-> 0, whole |-> whole]
    <3>1. new \in File /\ new.age = 0
      BY DEF File, Ages
    <3>2. files' = [files EXCEPT ![k] = new]
      BY <2>2
    <3> HIDE DEF new
    <3>3. files' \in [Keys -> File \cup {NoFile}]
      BY <1>1, <3>1, <3>2
    <3>4. \A j \in Keys : files'[j] = IF j = k THEN new ELSE files[j]
      BY <1>1, <3>2
    <3> QED
      BY <2>2, <3>1, <3>3, <3>4
  <2>3. ASSUME NEW removed,
               files' = [k \in Keys |-> IF k \in removed THEN NoFile ELSE files[k]],
               captured' = captured \ removed
        PROVE  /\ files' \in [Keys -> File \cup {NoFile}] /\ captured' \in SUBSET captured
               /\ \A j \in Keys : \/ files'[j] = files[j]
                                  \/ j \notin captured' /\ (files'[j] = NoFile \/ files'[j].age = 0)
    BY <1>1, <2>3
  <2>4. downloads \in SUBSET Keys
    BY DEF CacheInv, CacheTypeOK
  <2> QED
    BY <2>1, <2>2, <2>3, <2>4 DEF Die
<1>4. CacheTypeOK'
  <2>1. scan' \in [Keys -> {"none", "queued", "fetching"}]
    BY <1>2
  <2>2. faults' \in 0..MaxFaults
    BY <1>2 DEF CacheInv, CacheTypeOK, CacheAssumption
  <2>3. pending' \in Seq(Keys) /\ index' \in [Keys -> Ages \cup {NoFile}]
    BY <1>1, <1>2 DEF Empty
  <2> QED
    BY <1>1, <1>2, <1>3, <2>1, <2>2, <2>3 DEF CacheTypeOK
<1>5. PrefetchAccounted'
  <2>1. Cardinality(downloads') = 0 /\ Len(pending') = 0
    BY <1>2, FS_EmptySet
  <2>2. IsInjective(pending)' /\ Range(pending)' = {}
    BY <1>2 DEF IsInjective, Range
  <2> QED
    BY <1>2, <2>1, <2>2 DEF PrefetchAccounted, CacheAssumption
<1>6. CaptureKept'
  BY <1>1, <1>3 DEF CaptureKept
<1>7. NoYounger(indexFile)' /\ NoOlder(indexFile)'
  <2>1. \A k \in Keys : indexFile'[k] # NoFile => indexFile'[k] \in Nat
    BY <1>1, <1>2 DEF Ages
  <2>2. ASSUME NEW k \in Keys, files'[k] # NoFile, indexFile'[k] # NoFile
        PROVE  files'[k].age <= indexFile'[k]
    BY <1>1, <1>2, <1>3, <2>1, <2>2 DEF NoYounger
  <2>3. ASSUME NEW k \in captured'
        PROVE  indexFile'[k] = NoFile \/ indexFile'[k] <= files'[k].age
    BY <1>1, <1>2, <1>3, <2>3 DEF NoOlder
  <2> QED
    BY <2>2, <2>3 DEF NoYounger, NoOlder
<1>8. NoYounger(index)' /\ NoOlder(index)'
  <2>1. CASE index' = indexFile
    BY <1>2, <1>7, <2>1 DEF NoYounger, NoOlder
  <2>2. CASE index' = Empty
    <3>1. \A k \in Keys : index'[k] = NoFile
      BY <2>2 DEF Empty
    <3> QED
      BY <1>1, <1>3, <3>1 DEF NoYounger, NoOlder
  <2> QED
    BY <1>2, <2>1, <2>2
<1> QED
  BY <1>4, <1>5, <1>6, <1>7, <1>8 DEF CacheInv, Aligned, NoYounger, NoOlder

LEMMA CacheInvPreserved ==
  ASSUME CacheAssumption, CacheInv, [CacheNext]_cacheVars
  PROVE  CacheInv'
<1>1. CASE UNCHANGED cacheVars
  <2>1. /\ UNCHANGED <<pending, downloads, inFlight, files, index, indexFile>>
        /\ UNCHANGED <<scan, booting, captured, faults>>
    BY <1>1 DEF cacheVars, pool, cache
  <2>2. CacheTypeOK' /\ PrefetchAccounted'
    BY <2>1 DEF CacheInv, CacheTypeOK, PrefetchAccounted, IsInjective, Range
  <2>3. CaptureKept' /\ Aligned'
    BY <2>1 DEF CacheInv, CaptureKept, Aligned, NoYounger, NoOlder
  <2> QED
    BY <2>2, <2>3 DEF CacheInv
<1> QED
  BY <1>1, PublishStep, PurgeReduces, TickStep, DieStep, DownloadedStep, ScanStep DEF CacheNext

LEMMA CacheInvCorrect ==
  ASSUME CacheAssumption
  PROVE  CacheSpec => []CacheInv
<1>1. CacheInit => CacheInv
  BY CacheInitHolds
<1>2. CacheInv /\ [CacheNext]_cacheVars => CacheInv'
  BY CacheInvPreserved
<1> QED
  BY <1>1, <1>2, PTL DEF CacheSpec

\* A captured tarball is there for as long as its trigger asked for, whatever the purges,
\* the orphans' collection and the deaths of the process do to the index.
THEOREM CapturesKept ==
  ASSUME CacheAssumption
  PROVE  CacheSpec => []CaptureKept
<1>1. CacheInv => CaptureKept
  BY DEF CacheInv
<1> QED
  BY <1>1, CacheInvCorrect, PTL

\* A purge leaves no tarball that is past every retention.
THEOREM NothingStaysForEver ==
  ASSUME CacheAssumption
  PROVE  CacheSpec => StaleReclaimed
<1>1. CacheInv /\ [CacheNext]_cacheVars =>
        [Purge => \A k \in Keys : files'[k] = NoFile \/ ~Stale(files'[k])]_cacheVars
  BY PurgeReduces
<1> QED
  BY <1>1, CacheInvCorrect, PTL DEF CacheSpec, StaleReclaimed

-----------------------------------------------------------------------------
(* The ledger *)

\* The newlines among the first n symbols.
Lines(file, n) == {i \in 1..n : file[i] = Newline}

LEMMA LinesStep ==
  ASSUME NEW file, NEW n \in Nat
  PROVE  /\ IsFiniteSet(Lines(file, n)) /\ Cardinality(Lines(file, n)) \in Nat
         /\ Cardinality(Lines(file, 0)) = 0
         /\ Lines(file, n + 1) = IF file[n + 1] = Newline THEN Lines(file, n) \cup {n + 1}
                                                          ELSE Lines(file, n)
         /\ Cardinality(Lines(file, n + 1)) = IF file[n + 1] = Newline
                                              THEN Cardinality(Lines(file, n)) + 1
                                              ELSE Cardinality(Lines(file, n))
<1>1. IsFiniteSet(Lines(file, n)) /\ Cardinality(Lines(file, n)) \in Nat
  <2>1. IsFiniteSet(1..n) /\ Lines(file, n) \in SUBSET (1..n)
    BY IntervalSize DEF Lines
  <2> QED
    BY <2>1, FS_Subset, FS_CardinalityType
<1>2. Lines(file, 0) = {}
  BY DEF Lines
<1>3. Lines(file, n + 1) = IF file[n + 1] = Newline THEN Lines(file, n) \cup {n + 1}
                                                    ELSE Lines(file, n)
  <2>1. \A i : i \in 1..(n + 1) <=> i \in 1..n \/ i = n + 1
    OBVIOUS
  <2> QED
    BY <2>1 DEF Lines
<1>4. n + 1 \notin Lines(file, n)
  BY DEF Lines
<1>5. Cardinality(Lines(file, n) \cup {n + 1}) = Cardinality(Lines(file, n)) + 1
  BY <1>1, <1>4, FS_AddElement
<1> QED
  BY <1>1, <1>2, <1>3, <1>5, FS_EmptySet

\* Among the first lines of a file there is one that ends the drop-th.
LEMMA CutExists ==
  ASSUME NEW file, NEW size \in Nat, NEW drop \in Nat \ {0},
         drop <= Cardinality(Lines(file, size))
  PROVE  \E i \in Lines(file, size) : Cardinality(Lines(file, i)) = drop
<1> DEFINE L(n) == Cardinality(Lines(file, n))
           Enough == {n \in Nat : L(n) >= drop}
<1>1. /\ L(0) = 0 /\ \A n \in Nat : L(n) \in Nat
      /\ \A n \in Nat : L(n + 1) = IF file[n + 1] = Newline THEN L(n) + 1 ELSE L(n)
  <2>1. ASSUME NEW n \in Nat
        PROVE  /\ L(0) = 0 /\ L(n) \in Nat
               /\ L(n + 1) = IF file[n + 1] = Newline THEN L(n) + 1 ELSE L(n)
    <3>1. n \in Nat
      OBVIOUS
    <3> QED
      BY ONLY <3>1, LinesStep
  <2> HIDE DEF L
  <2> QED
    BY <2>1
<1>2. L(size) >= drop
  <2>1. L(size) \in Nat
    BY <1>1
  <2> QED
    BY <2>1
<1> HIDE DEF L
<1>3. PICK i \in Enough : \A k \in Enough : i <= k
  <2>1. Enough \in SUBSET Nat /\ Enough # {}
    BY <1>2
  <2> QED
    BY <2>1, LeastMember
<1>4. i \in Nat /\ i # 0 /\ L(i) >= drop /\ i <= size
  BY <1>1, <1>2, <1>3
<1>5. i - 1 \in Nat /\ (i - 1) + 1 = i /\ ~(L(i - 1) >= drop)
  BY <1>3, <1>4
<1>6. L(i) = IF file[i] = Newline THEN L(i - 1) + 1 ELSE L(i - 1)
  BY <1>1, <1>5
<1>7. file[i] = Newline /\ L(i) = drop
  BY <1>1, <1>4, <1>5, <1>6
<1>8. i \in Lines(file, size)
  BY <1>4, <1>7 DEF Lines
<1> QED
  BY <1>7, <1>8 DEF L

\* Records are in the order of their appends, and no line is empty.
Rising(file, last) ==
  /\ \A i, j \in DOMAIN file :
        i < j /\ file[i] # Newline /\ file[j] # Newline => file[i] < file[j]
  /\ \A i \in DOMAIN file : file[i] <= last

NoBlanks(file) == \A i \in DOMAIN file : file[i] = Newline => i > 1 /\ file[i - 1] # Newline

\* A record alone on a finished line.
Finished(file, i) ==
  /\ i \in DOMAIN file /\ i + 1 \in DOMAIN file /\ file[i] # Newline /\ file[i + 1] = Newline
  /\ i = 1 \/ file[i - 1] = Newline

Recent(file, n) == \E i \in DOMAIN file : Finished(file, i) /\ file[i] = n

LEMMA SymbolsOf ==
  ASSUME NEW S \in SUBSET Nat, NEW file \in Seq(S)
  PROVE  /\ DOMAIN file = 1..Len(file) /\ Len(file) \in Nat
         /\ \A i \in DOMAIN file : file[i] \in Nat
<1>1. /\ DOMAIN file = 1..Len(file) /\ Len(file) \in Nat
      /\ \A i \in DOMAIN file : file[i] \in S
  OBVIOUS
<1>2. S \subseteq Nat
  OBVIOUS
<1> QED
  BY ONLY <1>1, <1>2

\* More than MaxLedger lines follow what is dropped: each ends in a record of its own, and
\* all are later than those that are gone.
LEMMA DroppedIsOld ==
  ASSUME NEW S \in SUBSET Nat, NEW file \in Seq(S), NEW last \in Nat,
         Rising(file, last), NoBlanks(file),
         NEW size \in 1..Len(file), NEW cut \in Lines(file, size),
         NEW i \in 1..cut, file[i] # Newline
  PROVE  Cardinality(Lines(file, size)) - Cardinality(Lines(file, cut)) <= last - file[i]
<1> DEFINE Q == Lines(file, size) \ Lines(file, cut)
<1>1. /\ Len(file) \in Nat /\ DOMAIN file = 1..Len(file) /\ size \in Nat /\ cut \in 1..size
      /\ file[cut] = Newline /\ \A k \in DOMAIN file : file[k] \in Nat
  <2>1. /\ DOMAIN file = 1..Len(file) /\ Len(file) \in Nat
        /\ \A k \in DOMAIN file : file[k] \in Nat
    BY SymbolsOf
  <2>2. cut \in 1..size /\ file[cut] = Newline
    BY DEF Lines
  <2> QED
    BY <2>1, <2>2
<1>2. Q = {q \in (cut + 1)..size : file[q] = Newline}
  BY <1>1 DEF Lines
<1>3. /\ IsFiniteSet(Lines(file, size)) /\ IsFiniteSet(Lines(file, cut))
      /\ Cardinality(Lines(file, size)) \in Nat /\ Cardinality(Lines(file, cut)) \in Nat
  <2>1. size \in Nat /\ cut \in Nat
    BY <1>1
  <2> QED
    BY ONLY <2>1, LinesStep
<1>4. Lines(file, cut) \in SUBSET Lines(file, size)
  BY <1>1 DEF Lines
<1>5. Cardinality(Q) = Cardinality(Lines(file, size)) - Cardinality(Lines(file, cut))
      /\ IsFiniteSet(Q)
  <2>1. Lines(file, size) \cap Lines(file, cut) = Lines(file, cut)
    BY <1>4
  <2> QED
    BY <1>3, <2>1, FS_Difference
<1>6. \A q \in Q : /\ q - 1 \in DOMAIN file /\ i < q - 1 /\ file[q - 1] # Newline
                   /\ file[q - 1] \in (file[i] + 1)..last
  <2>1. SUFFICES ASSUME NEW q \in Q
                 PROVE  /\ q - 1 \in DOMAIN file /\ i < q - 1 /\ file[q - 1] # Newline
                        /\ file[q - 1] \in (file[i] + 1)..last
    OBVIOUS
  <2>2. q \in DOMAIN file /\ q \in Nat /\ q > cut /\ q > 1 /\ file[q - 1] # Newline
    <3>1. q \in (cut + 1)..size /\ file[q] = Newline
      BY <1>2
    <3>2. q \in DOMAIN file /\ q \in Nat /\ q > cut /\ q > 1
      BY <1>1, <3>1
    <3> QED
      BY <3>1, <3>2 DEF NoBlanks
  <2>3. q - 1 # cut /\ q - 1 \in DOMAIN file /\ i \in DOMAIN file /\ i # cut
    BY <1>1, <2>2
  <2>4. i < q - 1
    BY <1>1, <2>2, <2>3
  <2>5. file[i] < file[q - 1] /\ file[q - 1] <= last
    BY <2>2, <2>3, <2>4 DEF Rising
  <2> QED
    BY <1>1, <2>2, <2>3, <2>4, <2>5
<1>7. \A p, q \in Q : p # q => file[p - 1] # file[q - 1]
  <2>1. ASSUME NEW p \in Q, NEW q \in Q, p < q
        PROVE  file[p - 1] < file[q - 1]
    <3>1. p - 1 < q - 1
      BY <1>1, <1>2, <2>1
    <3> QED
      BY <1>6, <3>1 DEF Rising
  <2>2. \A q \in Q : q \in Nat /\ file[q - 1] \in Nat
    BY <1>1, <1>2, <1>6
  <2> QED
    BY <2>1, <2>2
<1> DEFINE f == [q \in Q |-> file[q - 1]]
           T == (file[i] + 1)..last
<1>8. f \in Injection(Q, T)
  <2>1. f \in [Q -> T]
    BY <1>6
  <2>2. \A p, q \in Q : f[p] = f[q] => p = q
    BY <1>7
  <2> QED
    BY <2>1, <2>2 DEF Injection, IsInjective
<1>9. file[i] \in Nat /\ file[i] <= last
  <2>1. i \in DOMAIN file
    BY <1>1
  <2> QED
    BY <1>1, <2>1 DEF Rising
<1>10. IsFiniteSet(T) /\ Cardinality(T) = IF file[i] + 1 > last THEN 0 ELSE last - (file[i] + 1) + 1
  <2>1. file[i] + 1 \in Int /\ last \in Int
    BY <1>9
  <2> QED
    BY ONLY <2>1, FS_Interval
<1> HIDE DEF f, T, Q
<1>11. Cardinality(Q) <= Cardinality(T)
  BY <1>8, <1>10, FS_Injection
<1> QED
  BY <1>3, <1>5, <1>9, <1>10, <1>11

\* What is being compacted ends with a line, and is still the beginning of the ledger.
Compacting ==
  /\ compaction.phase # "idle" =>
       compaction.size \in 1..Len(ledger) /\ ledger[compaction.size] = Newline
  /\ compaction.phase = "copy" =>
       /\ compaction.drop >= 1
       /\ compaction.drop + MaxLedger = Cardinality(Lines(ledger, compaction.size))

RecentThere == \A n \in 1..appends \ damaged : appends - n < MaxLedger => Recent(ledger, n)

LedgerInv ==
  /\ LedgerTypeOK
  /\ Rising(ledger, appends) /\ NoBlanks(ledger)
  /\ Compacting /\ RecentThere

LEMMA LedgerInvSuffices == LedgerInv => RecentKept
<1> SUFFICES ASSUME LedgerInv PROVE RecentKept
  OBVIOUS
<1>1. \A i \in DOMAIN ledger : Finished(ledger, i) => Readable(i)
  BY DEF Finished, Readable
<1>2. \A i, j \in DOMAIN ledger : Readable(i) /\ Readable(j) /\ i < j => ledger[i] < ledger[j]
  BY DEF LedgerInv, Rising, Readable
<1>3. \A n \in 1..appends \ damaged :
        appends - n < MaxLedger => \E i \in DOMAIN ledger : Readable(i) /\ ledger[i] = n
  BY <1>1 DEF LedgerInv, RecentThere, Recent
<1> QED
  BY <1>2, <1>3 DEF RecentKept

\* A file that only grew.
Grown(file, more) ==
  /\ Len(file) <= Len(more)
  /\ \A i \in DOMAIN file : more[i] = file[i]

LEMMA GrownKeeps ==
  ASSUME NEW S, NEW file \in Seq(S), NEW more \in Seq(S), Grown(file, more)
  PROVE  /\ \A n : Recent(file, n) => Recent(more, n)
         /\ \A size \in 1..Len(file) : /\ size \in 1..Len(more) /\ more[size] = file[size]
                                       /\ Lines(more, size) = Lines(file, size)
<1>1. /\ DOMAIN file = 1..Len(file) /\ DOMAIN more = 1..Len(more)
      /\ Len(file) \in Nat /\ Len(more) \in Nat /\ Len(file) <= Len(more)
      /\ \A i \in 1..Len(file) : more[i] = file[i]
  BY DEF Grown
<1>2. ASSUME NEW n, Recent(file, n)
      PROVE  Recent(more, n)
  <2>1. PICK i \in DOMAIN file : Finished(file, i) /\ file[i] = n
    BY <1>2 DEF Recent
  <2>2. /\ i \in 1..Len(file) /\ i + 1 \in 1..Len(file)
        /\ i = 1 \/ (i - 1 \in 1..Len(file) /\ file[i - 1] = Newline)
    BY <1>1, <2>1 DEF Finished
  <2>3. Finished(more, i) /\ more[i] = n /\ i \in DOMAIN more
    BY <1>1, <2>1, <2>2 DEF Finished
  <2> QED
    BY <2>3 DEF Recent
<1>3. ASSUME NEW size \in 1..Len(file)
      PROVE  /\ size \in 1..Len(more) /\ more[size] = file[size]
             /\ Lines(more, size) = Lines(file, size)
  <2>1. \A i \in 1..size : more[i] = file[i]
    BY <1>1
  <2> QED
    BY <1>1, <2>1 DEF Lines
<1> QED
  BY <1>2, <1>3

\* The invariant of a step that appends symbols, and may tear a line.
LEMMA GrowthKeeps ==
  ASSUME LedgerAssumption, LedgerInv, LedgerTypeOK', Grown(ledger, ledger'),
         Rising(ledger', appends'), NoBlanks(ledger'),
         appends' = appends + 1, damaged \subseteq damaged',
         appends' \in damaged' \/ Recent(ledger', appends'),
         \/ compaction' = compaction
         \/ /\ compaction'.phase = "count" /\ compaction'.size \in 1..Len(ledger')
            /\ ledger'[compaction'.size] = Newline
  PROVE  LedgerInv'
<1>1. /\ ledger \in Seq(0..MaxAppends) /\ ledger' \in Seq(0..MaxAppends)
      /\ appends \in Nat /\ appends' = appends + 1 /\ MaxLedger \in Nat \ {0}
  BY DEF LedgerInv, LedgerTypeOK, LedgerAssumption
<1>2. /\ \A n : Recent(ledger, n) => Recent(ledger', n)
      /\ \A size \in 1..Len(ledger) : /\ size \in 1..Len(ledger') /\ ledger'[size] = ledger[size]
                                      /\ Lines(ledger', size) = Lines(ledger, size)
  <2>1. ASSUME NEW more, more = ledger'
        PROVE  /\ \A n : Recent(ledger, n) => Recent(more, n)
               /\ \A size \in 1..Len(ledger) : /\ size \in 1..Len(more) /\ more[size] = ledger[size]
                                               /\ Lines(more, size) = Lines(ledger, size)
    <3>1. ledger \in Seq(0..MaxAppends) /\ more \in Seq(0..MaxAppends) /\ Grown(ledger, more)
      BY <1>1, <2>1
    <3> QED
      BY ONLY <3>1, GrownKeeps
  <2> QED
    BY <2>1
<1>3. RecentThere'
  <2>1. SUFFICES ASSUME NEW n \in 1..appends' \ damaged', appends' - n < MaxLedger
                 PROVE  Recent(ledger', n)
    BY DEF RecentThere
  <2>2. CASE n = appends'
    BY <2>2
  <2>3. CASE n # appends'
    <3>1. n \in 1..appends \ damaged /\ appends - n < MaxLedger
      BY <1>1, <2>1, <2>3
    <3> QED
      BY <1>2, <3>1 DEF LedgerInv, RecentThere
  <2> QED
    BY <2>2, <2>3
<1>4. Compacting'
  <2>1. CASE compaction' = compaction
    <3>1. Compacting
      BY DEF LedgerInv
    <3> QED
      BY <1>2, <2>1, <3>1 DEF Compacting
  <2>2. CASE /\ compaction'.phase = "count" /\ compaction'.size \in 1..Len(ledger')
             /\ ledger'[compaction'.size] = Newline
    BY <2>2 DEF Compacting
  <2> QED
    BY <2>1, <2>2
<1> QED
  BY <1>3, <1>4 DEF LedgerInv

\* One more record, and the end of its line.
LEMMA RecordAdded ==
  ASSUME NEW S \in SUBSET Nat, NEW file \in Seq(S), NEW last \in Nat, NEW next \in S,
         last < next,
         Rising(file, last), NoBlanks(file), NEW more, more = Append(file, next)
  PROVE  /\ more \in Seq(S) /\ Len(more) = Len(file) + 1 /\ more[Len(more)] = next
         /\ Rising(more, next) /\ NoBlanks(more) /\ Grown(file, more)
<1>1. /\ more \in Seq(S) /\ Len(more) = Len(file) + 1 /\ Len(file) \in Nat
      /\ DOMAIN file = 1..Len(file) /\ DOMAIN more = 1..(Len(file) + 1)
      /\ \A i \in 1..Len(file) : more[i] = file[i] /\ file[i] \in Nat
      /\ more[Len(file) + 1] = next
  <2>1. file \in Seq(S) /\ S \in SUBSET Nat /\ next \in S /\ more = Append(file, next)
    OBVIOUS
  <2>2. /\ more \in Seq(S) /\ Len(more) = Len(file) + 1 /\ Len(file) \in Nat
        /\ DOMAIN file = 1..Len(file) /\ DOMAIN more = 1..Len(more)
        /\ \A i \in 1..Len(file) : more[i] = file[i] /\ file[i] \in S
        /\ more[Len(file) + 1] = next
    BY ONLY <2>1
  <2> QED
    BY ONLY <2>1, <2>2
<1>2. Grown(file, more)
  BY <1>1 DEF Grown
<1>3. Rising(more, next)
  <2>1. ASSUME NEW i \in DOMAIN more, NEW j \in DOMAIN more, i < j,
               more[i] # Newline, more[j] # Newline
        PROVE  more[i] < more[j]
    <3>1. i \in 1..Len(file) /\ more[i] = file[i] /\ file[i] <= last /\ file[i] \in Nat
      BY <1>1, <2>1 DEF Rising
    <3>2. CASE j = Len(file) + 1
      BY <1>1, <3>1, <3>2
    <3>3. CASE j # Len(file) + 1
      <4>1. j \in 1..Len(file) /\ more[j] = file[j]
        BY <1>1, <3>3
      <4> QED
        BY <1>1, <2>1, <3>1, <4>1 DEF Rising
    <3> QED
      BY <3>2, <3>3
  <2>2. ASSUME NEW i \in DOMAIN more
        PROVE  more[i] <= next
    BY <1>1 DEF Rising
  <2> QED
    BY <2>1, <2>2 DEF Rising
<1>4. NoBlanks(more)
  <2>1. SUFFICES ASSUME NEW i \in DOMAIN more, more[i] = Newline
                 PROVE  i > 1 /\ more[i - 1] # Newline
    BY DEF NoBlanks
  <2>2. i \in 1..Len(file) /\ file[i] = Newline
    BY <1>1, <2>1 DEF Newline
  <2>3. i > 1 /\ file[i - 1] # Newline
    BY <1>1, <2>2 DEF NoBlanks
  <2> QED
    BY <1>1, <2>2, <2>3
<1> QED
  BY <1>1, <1>2, <1>3, <1>4

LEMMA LineEnded ==
  ASSUME NEW S \in SUBSET Nat, NEW file \in Seq(S), NEW last \in Nat, Newline \in S,
         file # <<>>, file[Len(file)] # Newline,
         Rising(file, last), NoBlanks(file), NEW more, more = Append(file, Newline)
  PROVE  /\ more \in Seq(S) /\ Len(more) = Len(file) + 1 /\ more[Len(more)] = Newline
         /\ Rising(more, last) /\ NoBlanks(more) /\ Grown(file, more)
<1>1. /\ more \in Seq(S) /\ Len(more) = Len(file) + 1 /\ Len(file) \in Nat /\ Len(file) >= 1
      /\ DOMAIN file = 1..Len(file) /\ DOMAIN more = 1..(Len(file) + 1)
      /\ \A i \in 1..Len(file) : more[i] = file[i] /\ file[i] \in Nat
      /\ more[Len(file) + 1] = Newline
  <2>1. /\ file \in Seq(S) /\ S \in SUBSET Nat /\ Newline \in S /\ more = Append(file, Newline)
        /\ file # <<>>
    OBVIOUS
  <2>2. /\ more \in Seq(S) /\ Len(more) = Len(file) + 1 /\ Len(file) \in Nat /\ Len(file) >= 1
        /\ DOMAIN file = 1..Len(file) /\ DOMAIN more = 1..Len(more)
        /\ \A i \in 1..Len(file) : more[i] = file[i] /\ file[i] \in S
        /\ more[Len(file) + 1] = Newline
    BY ONLY <2>1
  <2> QED
    BY ONLY <2>1, <2>2
<1>2. Grown(file, more)
  BY <1>1 DEF Grown
<1>3. Rising(more, last)
  <2>1. ASSUME NEW i \in DOMAIN more, NEW j \in DOMAIN more, i < j,
               more[i] # Newline, more[j] # Newline
        PROVE  more[i] < more[j]
    <3>1. /\ i \in 1..Len(file) /\ more[i] = file[i]
          /\ j \in 1..Len(file) /\ more[j] = file[j]
      BY <1>1, <2>1
    <3> QED
      BY <1>1, <2>1, <3>1 DEF Rising
  <2>2. ASSUME NEW i \in DOMAIN more
        PROVE  more[i] <= last
    BY <1>1 DEF Rising, Newline
  <2> QED
    BY <2>1, <2>2 DEF Rising
<1>4. NoBlanks(more)
  <2>1. SUFFICES ASSUME NEW i \in DOMAIN more, more[i] = Newline
                 PROVE  i > 1 /\ more[i - 1] # Newline
    BY DEF NoBlanks
  <2>2. CASE i = Len(file) + 1
    BY <1>1, <2>2
  <2>3. CASE i # Len(file) + 1
    <3>1. i \in 1..Len(file) /\ file[i] = Newline
      BY <1>1, <2>1, <2>3
    <3>2. i > 1 /\ file[i - 1] # Newline
      BY <1>1, <3>1 DEF NoBlanks
    <3> QED
      BY <1>1, <3>1, <3>2
  <2> QED
    BY <2>2, <2>3
<1> QED
  BY <1>1, <1>2, <1>3, <1>4

LEMMA AppendStep ==
  ASSUME LedgerAssumption, LedgerInv, AppendScanLedger
  PROVE  LedgerInv'
<1> DEFINE S == 0..MaxAppends
           n == appends + 1
           half == Append(ledger, n)
           more == Append(half, Newline)
<1>1. /\ S \in SUBSET Nat /\ Newline \in S /\ n \in S /\ n # Newline
      /\ ledger \in Seq(S) /\ appends \in Nat /\ MaxAppends \in Nat /\ Interval \in Nat \ {0}
      /\ Rising(ledger, appends) /\ NoBlanks(ledger) /\ damaged \in SUBSET (1..appends)
  BY DEF LedgerInv, LedgerTypeOK, LedgerAssumption, AppendScanLedger, Newline
<1>2. /\ ledger' = ledger \o <<n, Newline>> /\ appends' = n /\ appends < MaxAppends
      /\ damaged' = IF Torn THEN damaged \cup {n} ELSE damaged
      /\ since' = (since + 1) % Interval
      /\ compaction' = IF since' = 0 /\ compaction = Resting
                       THEN [phase |-> "count", size |-> Len(ledger'), drop |-> 0]
                       ELSE compaction
  BY DEF AppendScanLedger
<1>3. ledger' = more
  BY <1>1, <1>2
<1> HIDE DEF S, n
<1>4. /\ half \in Seq(S) /\ Len(half) = Len(ledger) + 1 /\ half[Len(half)] = n
      /\ Rising(half, n) /\ NoBlanks(half) /\ Grown(ledger, half)
  <2>1. ASSUME NEW h, h = half
        PROVE  /\ h \in Seq(S) /\ Len(h) = Len(ledger) + 1 /\ h[Len(h)] = n
               /\ Rising(h, n) /\ NoBlanks(h) /\ Grown(ledger, h)
    <3>1. /\ S \in SUBSET Nat /\ ledger \in Seq(S) /\ appends \in Nat /\ n \in S
          /\ appends < n
          /\ Rising(ledger, appends) /\ NoBlanks(ledger) /\ h = Append(ledger, n)
      BY <1>1, <2>1 DEF n
    <3>2. h \in Seq(S) /\ Rising(h, n) /\ NoBlanks(h) /\ Grown(ledger, h)
      BY ONLY <3>1, RecordAdded
    <3>3. Len(h) = Len(ledger) + 1 /\ h[Len(h)] = n
      BY ONLY <3>1, AppendProperties
    <3> QED
      BY <3>2, <3>3
  <2> QED
    BY <2>1
<1> HIDE DEF half
<1>5. /\ more \in Seq(S) /\ Len(more) = Len(half) + 1 /\ more[Len(more)] = Newline
      /\ Rising(more, n) /\ NoBlanks(more) /\ Grown(half, more)
  <2>1. n \in Nat /\ half # <<>> /\ half[Len(half)] # Newline
    <3>1. Len(ledger) \in Nat
      BY <1>1
    <3> QED
      BY <1>1, <1>4, <3>1
  <2>2. ASSUME NEW h, h = more
        PROVE  /\ h \in Seq(S) /\ Len(h) = Len(half) + 1 /\ h[Len(h)] = Newline
               /\ Rising(h, n) /\ NoBlanks(h) /\ Grown(half, h)
    <3>1. /\ S \in SUBSET Nat /\ half \in Seq(S) /\ Newline \in S
          /\ Rising(half, n) /\ NoBlanks(half) /\ h = Append(half, Newline)
      BY <1>1, <1>4, <2>2
    <3> QED
      BY ONLY <2>1, <3>1, LineEnded
  <2> QED
    BY <2>2
<1> HIDE DEF more
<1>6. /\ DOMAIN ledger = 1..Len(ledger) /\ DOMAIN half = 1..Len(half) /\ DOMAIN more = 1..Len(more)
      /\ Len(ledger) \in Nat
  BY <1>1, <1>4, <1>5
<1>7. Grown(ledger, more)
  BY <1>4, <1>5, <1>6 DEF Grown
<1>8. ~Torn => Recent(more, n)
  <2>1. SUFFICES ASSUME ~Torn PROVE Recent(more, n)
    OBVIOUS
  <2> DEFINE i == Len(half)
  <2>2. i \in 1..Len(more) /\ i + 1 = Len(more) /\ i + 1 \in 1..Len(more) /\ more[i] = n
    BY <1>4, <1>5, <1>6 DEF Grown
  <2>3. i = 1 \/ more[i - 1] = Newline
    <3>1. ledger = <<>> \/ ledger[Len(ledger)] = Newline
      BY <2>1 DEF Torn, Last
    <3>2. CASE ledger = <<>>
      BY <1>4, <3>2
    <3>3. CASE ledger # <<>>
      <4>1. Len(ledger) \in 1..Len(ledger) /\ i - 1 = Len(ledger)
        BY <1>1, <1>4, <1>6, <3>3
      <4>2. more[Len(ledger)] = ledger[Len(ledger)]
        BY <1>6, <1>7, <4>1 DEF Grown
      <4> QED
        BY <3>1, <3>3, <4>1, <4>2
    <3> QED
      BY <3>2, <3>3
  <2>4. Finished(more, i)
    BY <1>1, <1>5, <1>6, <2>2, <2>3 DEF Finished
  <2> QED
    BY <1>6, <2>2, <2>4 DEF Recent
<1>9. n \in damaged' \/ Recent(more, n)
  BY <1>2, <1>8
<1>10. Len(more) \in 1..Len(more) /\ Len(more) \in Nat
  BY <1>4, <1>5, <1>6
<1>11. compaction' = compaction \/ compaction' = [phase |-> "count", size |-> Len(more), drop |-> 0]
  BY <1>2, <1>3
<1>12. LedgerTypeOK'
  <2>1. since' \in 0..(Interval - 1)
    <3>1. since + 1 \in Nat /\ Interval \in Nat /\ Interval > 0
      BY <1>1 DEF LedgerInv, LedgerTypeOK
    <3> QED
      BY <1>2, <3>1
  <2>2. compaction' \in [phase : {"idle", "count", "copy"}, size : Nat, drop : Nat]
    BY <1>10, <1>11 DEF LedgerInv, LedgerTypeOK
  <2>3. appends' \in 0..MaxAppends /\ damaged' \subseteq 1..appends'
    BY <1>1, <1>2 DEF n
  <2> QED
    BY <1>3, <1>5, <2>1, <2>2, <2>3 DEF LedgerTypeOK, S
<1>13. damaged \subseteq damaged'
  BY <1>2
<1>14. \/ compaction' = compaction
       \/ /\ compaction'.phase = "count" /\ compaction'.size \in 1..Len(ledger')
          /\ ledger'[compaction'.size] = Newline
  BY <1>3, <1>5, <1>10, <1>11
<1>15. /\ Grown(ledger, ledger') /\ Rising(ledger', appends') /\ NoBlanks(ledger')
       /\ appends' = appends + 1 /\ (appends' \in damaged' \/ Recent(ledger', appends'))
  BY <1>2, <1>3, <1>5, <1>7, <1>9 DEF n
<1> QED
  BY ONLY LedgerAssumption, LedgerInv, <1>12, <1>13, <1>14, <1>15, GrowthKeeps

LEMMA AppendFailsStep ==
  ASSUME LedgerAssumption, LedgerInv, AppendFails
  PROVE  LedgerInv'
<1> DEFINE S == 0..MaxAppends
           n == appends + 1
<1>1. /\ S \in SUBSET Nat /\ n \in S /\ n = appends + 1
      /\ ledger \in Seq(S) /\ appends \in Nat
      /\ Rising(ledger, appends) /\ NoBlanks(ledger) /\ damaged \in SUBSET (1..appends)
  BY DEF LedgerInv, LedgerTypeOK, LedgerAssumption, AppendFails
<1>2. /\ appends' = n /\ damaged' = damaged \cup {appends'}
      /\ ledger' = ledger \/ ledger' = Append(ledger, n)
      /\ UNCHANGED <<since, compaction>> /\ n \in 0..MaxAppends
  BY <1>1 DEF AppendFails
<1> HIDE DEF S, n
<1>3. /\ ledger' \in Seq(S) /\ Rising(ledger', appends') /\ NoBlanks(ledger')
      /\ Grown(ledger, ledger')
  <2>1. CASE ledger' = ledger
    <3>1. /\ DOMAIN ledger = 1..Len(ledger) /\ Len(ledger) \in Nat
          /\ \A i \in DOMAIN ledger : ledger[i] \in Nat
      BY <1>1, SymbolsOf
    <3>2. Rising(ledger, n)
      BY <1>1, <3>1 DEF Rising
    <3> QED
      BY <1>1, <1>2, <2>1, <3>1, <3>2 DEF Grown
  <2>2. CASE ledger' = Append(ledger, n)
    <3>1. ASSUME NEW h, h = ledger'
          PROVE  /\ h \in Seq(S) /\ Rising(h, n) /\ NoBlanks(h) /\ Grown(ledger, h)
      <4>1. /\ S \in SUBSET Nat /\ ledger \in Seq(S) /\ appends \in Nat /\ n \in S
            /\ appends < n
            /\ Rising(ledger, appends) /\ NoBlanks(ledger) /\ h = Append(ledger, n)
        BY <1>1, <2>2, <3>1
      <4> QED
        BY ONLY <4>1, RecordAdded
    <3> QED
      BY <1>2, <3>1
  <2> QED
    BY <1>2, <2>1, <2>2
<1>4. LedgerTypeOK'
  <2>1. appends' \in 0..MaxAppends /\ damaged' \subseteq 1..appends'
    BY <1>1, <1>2
  <2> QED
    BY <1>2, <1>3, <2>1 DEF LedgerInv, LedgerTypeOK, S
<1>5. /\ damaged \subseteq damaged' /\ appends' \in damaged' /\ appends' = appends + 1
      /\ compaction' = compaction
  BY <1>1, <1>2
<1> QED
  BY ONLY LedgerAssumption, LedgerInv, <1>3, <1>4, <1>5, GrowthKeeps

\* A step that leaves the ledger alone, and the compaction in order.
LEMMA QuietKeeps ==
  ASSUME LedgerInv, UNCHANGED <<ledger, appends, damaged>>,
         since' \in 0..(Interval - 1),
         compaction' \in [phase : {"idle", "count", "copy"}, size : Nat, drop : Nat],
         Compacting'
  PROVE  LedgerInv'
  BY DEF LedgerInv, LedgerTypeOK, RecentThere

LEMMA RestStep ==
  ASSUME LedgerAssumption, LedgerInv, Restart \/ CompactionFails
  PROVE  LedgerInv'
<1>1. /\ UNCHANGED <<ledger, appends, damaged>> /\ compaction' = Resting
      /\ since' = 0 \/ since' = since
  BY DEF Restart, CompactionFails
<1>2. since' \in 0..(Interval - 1)
  BY <1>1 DEF LedgerInv, LedgerTypeOK, LedgerAssumption
<1>3. /\ compaction' \in [phase : {"idle", "count", "copy"}, size : Nat, drop : Nat]
      /\ Compacting'
  BY <1>1 DEF Resting, Compacting
<1> QED
  BY <1>1, <1>2, <1>3, QuietKeeps

LEMMA CountStep ==
  ASSUME LedgerAssumption, LedgerInv, Count
  PROVE  LedgerInv'
<1> DEFINE total == Cardinality(Newlines(compaction.size))
<1>1. /\ compaction \in [phase : {"idle", "count", "copy"}, size : Nat, drop : Nat]
      /\ since \in 0..(Interval - 1) /\ MaxLedger \in Nat /\ Compacting
  BY DEF LedgerInv, LedgerTypeOK, LedgerAssumption
<1>2. /\ compaction.phase = "count" /\ UNCHANGED <<ledger, since, appends, damaged>>
      /\ compaction' = IF total <= MaxLedger THEN Resting
                       ELSE [compaction EXCEPT !.phase = "copy", !.drop = total - MaxLedger]
  BY DEF Count
<1>3. total = Cardinality(Lines(ledger, compaction.size)) /\ total \in Nat
  <2>1. compaction.size \in Nat /\ Newlines(compaction.size) = Lines(ledger, compaction.size)
    BY <1>1 DEF Newlines, Lines
  <2>2. Cardinality(Lines(ledger, compaction.size)) \in Nat
    BY ONLY <2>1, LinesStep
  <2> QED
    BY <2>1, <2>2
<1> HIDE DEF total
<1>4. /\ compaction' \in [phase : {"idle", "count", "copy"}, size : Nat, drop : Nat]
      /\ Compacting'
  <2>1. CASE total <= MaxLedger
    BY <1>2, <2>1 DEF Resting, Compacting
  <2>2. CASE ~(total <= MaxLedger)
    <3>1. /\ compaction'.phase = "copy" /\ compaction'.size = compaction.size
          /\ compaction'.drop = total - MaxLedger /\ total - MaxLedger \in Nat
          /\ total - MaxLedger >= 1 /\ (total - MaxLedger) + MaxLedger = total
      BY <1>1, <1>2, <1>3, <2>2
    <3>2. compaction' \in [phase : {"idle", "count", "copy"}, size : Nat, drop : Nat]
      BY <1>1, <1>2, <2>2, <3>1
    <3>3. compaction.size \in 1..Len(ledger) /\ ledger[compaction.size] = Newline
      BY <1>1, <1>2 DEF Compacting
    <3> QED
      BY <1>2, <1>3, <3>1, <3>2, <3>3 DEF Compacting
  <2> QED
    BY <2>1, <2>2
<1> QED
  BY <1>1, <1>2, <1>4, QuietKeeps

\* A file without its beginning, up to the end of a line.
LEMMA RestOfLines ==
  ASSUME NEW S \in SUBSET Nat, NEW file \in Seq(S), NEW last \in Nat,
         Rising(file, last), NoBlanks(file),
         NEW cut \in 1..Len(file), file[cut] = Newline,
         NEW rest, rest = SubSeq(file, cut + 1, Len(file))
  PROVE  /\ rest \in Seq(S) /\ Rising(rest, last) /\ NoBlanks(rest)
         /\ \A i \in DOMAIN file : i > cut /\ Finished(file, i) => Recent(rest, file[i])
<1>1. /\ DOMAIN file = 1..Len(file) /\ Len(file) \in Nat /\ cut \in Nat
      /\ \A i \in DOMAIN file : file[i] \in Nat
  BY SymbolsOf
<1> DEFINE m == Len(file) - cut
<1>a. m \in Nat /\ Len(file) \in Nat /\ cut \in 1..Len(file) /\ Len(file) = cut + m
  BY <1>1
<1> HIDE DEF m
<1>2. rest \in Seq(S) /\ Len(rest) = m /\ DOMAIN rest = 1..m
  <2>1. rest \in Seq(S) /\ Len(rest) = IF cut + 1 <= Len(file) THEN Len(file) - (cut + 1) + 1 ELSE 0
    <3>1. /\ file \in Seq(S) /\ cut + 1 \in Nat \ {0} /\ Len(file) \in 0..Len(file)
          /\ rest = SubSeq(file, cut + 1, Len(file))
      BY <1>a
    <3> QED
      BY ONLY <3>1, RangeSubSeq
  <2>2. Len(rest) = m
    <3>1. cut + 1 <= Len(file) => m = Len(file) - (cut + 1) + 1
      BY <1>a
    <3>2. ~(cut + 1 <= Len(file)) => m = 0
      BY <1>a
    <3> QED
      BY ONLY <2>1, <3>1, <3>2
  <2>3. DOMAIN rest = 1..Len(rest)
    BY <2>1, RangeFacts
  <2> QED
    BY ONLY <2>1, <2>2, <2>3
<1>3. \A i \in 1..m : cut + i \in DOMAIN file /\ rest[i] = file[cut + i]
  BY <1>1, <1>a
<1>4. Rising(rest, last)
  <2>1. ASSUME NEW i \in DOMAIN rest, NEW j \in DOMAIN rest, i < j,
               rest[i] # Newline, rest[j] # Newline
        PROVE  rest[i] < rest[j]
    <3>1. /\ cut + i \in DOMAIN file /\ cut + j \in DOMAIN file /\ cut + i < cut + j
          /\ rest[i] = file[cut + i] /\ rest[j] = file[cut + j]
      <4>1. i \in 1..m /\ j \in 1..m /\ cut \in Nat
        BY <1>1, <1>2
      <4> QED
        BY ONLY <1>3, <2>1, <4>1
    <3> QED
      BY <2>1, <3>1 DEF Rising
  <2>2. ASSUME NEW i \in DOMAIN rest
        PROVE  rest[i] <= last
    BY <1>2, <1>3 DEF Rising
  <2> QED
    BY <2>1, <2>2 DEF Rising
<1>5. NoBlanks(rest)
  <2>1. SUFFICES ASSUME NEW i \in DOMAIN rest, rest[i] = Newline
                 PROVE  i > 1 /\ rest[i - 1] # Newline
    BY DEF NoBlanks
  <2>2. i \in Nat /\ i >= 1 /\ cut + i \in DOMAIN file /\ file[cut + i] = Newline
    <3>1. i \in 1..m /\ m \in Nat
      BY <1>2, <1>a
    <3> QED
      BY ONLY <1>3, <2>1, <3>1
  <2>3. file[(cut + i) - 1] # Newline
    BY <2>2 DEF NoBlanks
  <2>4. i # 1
    <3>1. SUFFICES ASSUME i = 1 PROVE FALSE
      OBVIOUS
    <3>2. (cut + i) - 1 = cut
      BY <1>1, <3>1
    <3> QED
      BY <2>3, <3>2
  <2>5. i - 1 \in 1..m /\ cut + (i - 1) = (cut + i) - 1
    <3>1. i \in 1..m /\ m \in Nat /\ cut \in Nat
      BY <1>1, <1>2, <1>a
    <3> QED
      BY ONLY <2>4, <3>1
  <2> QED
    BY <1>3, <2>2, <2>3, <2>4, <2>5
<1>6. ASSUME NEW i \in DOMAIN file, i > cut, Finished(file, i)
      PROVE  Recent(rest, file[i])
  <2> DEFINE j == i - cut
  <2>1. /\ j \in 1..m /\ j + 1 \in 1..m
        /\ cut + j = i /\ cut + (j + 1) = i + 1
    <3>1. i \in 1..Len(file) /\ i + 1 \in 1..Len(file)
      BY <1>1, <1>6 DEF Finished
    <3> QED
      BY ONLY <1>a, <1>6, <3>1
  <2>2. rest[j] = file[i] /\ rest[j + 1] = file[i + 1]
    BY <1>3, <2>1
  <2>3. j = 1 \/ rest[j - 1] = Newline
    <3>1. CASE j # 1
      <4>1. j - 1 \in 1..m /\ cut + (j - 1) = i - 1 /\ i # 1
        BY <1>a, <2>1, <3>1
      <4>2. rest[j - 1] = file[i - 1]
        BY <1>3, <4>1
      <4> QED
        BY <1>6, <4>1, <4>2 DEF Finished
    <3> QED
      BY <3>1
  <2>4. Finished(rest, j)
    BY <1>2, <1>6, <2>1, <2>2, <2>3 DEF Finished
  <2> HIDE DEF j
  <2> QED
    BY <1>2, <2>1, <2>2, <2>4 DEF Recent
<1> QED
  BY <1>2, <1>4, <1>5, <1>6

\* The tail that is kept, with what came after, is the ledger without its first lines.
LEMMA SwapIsRest ==
  ASSUME LedgerAssumption, LedgerInv, Swap
  PROVE  \E cut \in Lines(ledger, compaction.size) :
           /\ Cardinality(Lines(ledger, cut)) = compaction.drop
           /\ ledger' = SubSeq(ledger, cut + 1, Len(ledger))
<1> DEFINE size == compaction.size
           drop == compaction.drop
           S == 0..MaxAppends
<1>1. /\ compaction.phase = "copy" /\ ledger' = KeptTail(size, drop) \o LiveTail(size)
      /\ ledger \in Seq(S) /\ size \in 1..Len(ledger) /\ ledger[size] = Newline
      /\ drop \in Nat \ {0} /\ MaxLedger \in Nat \ {0}
      /\ drop + MaxLedger = Cardinality(Lines(ledger, size))
  BY DEF Swap, LedgerInv, LedgerTypeOK, LedgerAssumption, Compacting
<1> HIDE DEF size, drop, S
<1>2. \A n : Newlines(n) = Lines(ledger, n)
  BY DEF Newlines, Lines
<1>3. Len(ledger) \in Nat /\ size \in Nat /\ size <= Len(ledger)
  BY <1>1
<1>4. \E i \in Lines(ledger, size) : Cardinality(Lines(ledger, i)) = drop
  <2>1. drop <= Cardinality(Lines(ledger, size))
    BY <1>1
  <2> QED
    BY <1>1, <1>3, <2>1, CutExists
<1> DEFINE cut == CHOOSE i \in Newlines(size) : Cardinality(Newlines(i)) = drop
           kept == SubSeq(ledger, cut + 1, size)
<1>5. KeptTail(size, drop) = IF Last(kept) = Newline THEN kept ELSE Append(kept, Newline)
  BY DEF KeptTail
<1>6. cut \in Lines(ledger, size) /\ Cardinality(Lines(ledger, cut)) = drop
  BY <1>2, <1>4
<1> HIDE DEF cut
<1>7. cut \in 1..size
  BY <1>6 DEF Lines
<1>8. cut # size
  BY <1>1, <1>6
<1>9. cut \in Nat /\ cut + 1 \in 1..size /\ cut < size
  BY <1>3, <1>7, <1>8
<1>10. kept \in Seq(S) /\ Len(kept) = size - cut /\ kept[size - cut] = ledger[size]
  <2>1. size - cut \in 1..(size - cut) /\ (cut + 1) + (size - cut) - 1 = size
    BY ONLY <1>3, <1>9
  <2>2. /\ kept \in Seq(S)
        /\ Len(kept) = IF cut + 1 <= size THEN size - (cut + 1) + 1 ELSE 0
    <3>1. /\ ledger \in Seq(S) /\ cut + 1 \in Nat \ {0} /\ size \in 0..Len(ledger)
      BY <1>1, <1>3, <1>9
    <3> QED
      BY ONLY <3>1, RangeSubSeq
  <2>3. Len(kept) = size - cut
    BY ONLY <1>3, <1>9, <2>2
  <2>4. kept[size - cut] = ledger[size]
    <3>1. /\ cut + 1 \in 1..Len(ledger) /\ size \in 1..Len(ledger) /\ size - cut \in 1..Len(kept)
          /\ ledger \in Seq(S)
      BY ONLY <1>1, <1>3, <1>9, <2>1, <2>3
    <3>2. kept[size - cut] = ledger[(cut + 1) + (size - cut) - 1]
      <4>1. /\ cut + 1 \in Int /\ size \in Int /\ \A i \in (cut + 1)..size : ledger[i] \in S
            /\ size - cut \in 1..(size - (cut + 1) + 1)
        <5>1. \A i \in 1..Len(ledger) : ledger[i] \in S
          BY <1>1
        <5>2. /\ Len(ledger) \in Nat /\ size \in Nat /\ size <= Len(ledger)
              /\ cut \in Nat /\ cut < size
          BY <1>3, <1>9
        <5>3. \A i \in (cut + 1)..size : ledger[i] \in S
          BY ONLY <5>1, <5>2
        <5>4. /\ cut + 1 \in Int /\ size \in Int
              /\ size - cut \in 1..(size - (cut + 1) + 1)
          BY ONLY <5>2
        <5> QED
          BY ONLY <5>3, <5>4
      <4>2. \A i \in 1..(size - (cut + 1) + 1) : kept[i] = ledger[(cut + 1) + i - 1]
        BY ONLY <4>1, SubSeqProperties
      <4> QED
        BY <4>1, <4>2
    <3> QED
      BY ONLY <2>1, <3>2
  <2> QED
    BY ONLY <2>2, <2>3, <2>4
<1>11. Last(kept) = Newline
  BY <1>1, <1>10 DEF Last
<1>12. ledger' = SubSeq(ledger, cut + 1, size) \o SubSeq(ledger, size + 1, Len(ledger))
  BY <1>1, <1>5, <1>11 DEF LiveTail
<1>13. SubSeq(ledger, cut + 1, size) \o SubSeq(ledger, size + 1, Len(ledger))
          = SubSeq(ledger, cut + 1, Len(ledger))
  BY <1>1, <1>3, <1>9
<1> QED
  BY <1>6, <1>12, <1>13 DEF size, drop

LEMMA SwapStep ==
  ASSUME LedgerAssumption, LedgerInv, Swap
  PROVE  LedgerInv'
<1>1. PICK cut \in Lines(ledger, compaction.size) :
        /\ Cardinality(Lines(ledger, cut)) = compaction.drop
        /\ ledger' = SubSeq(ledger, cut + 1, Len(ledger))
  BY SwapIsRest
<1> DEFINE size == compaction.size
           S == 0..MaxAppends
<1>2. /\ S \in SUBSET Nat /\ ledger \in Seq(S) /\ size \in 1..Len(ledger)
      /\ appends \in Nat /\ MaxLedger \in Nat
      /\ compaction.drop + MaxLedger = Cardinality(Lines(ledger, size))
      /\ Rising(ledger, appends) /\ NoBlanks(ledger) /\ RecentThere
  BY DEF Swap, LedgerInv, LedgerTypeOK, LedgerAssumption, Compacting
<1>3. /\ compaction' = Resting /\ UNCHANGED <<since, appends, damaged>>
  BY DEF Swap
<1> HIDE DEF size, S
<1>4. /\ DOMAIN ledger = 1..Len(ledger) /\ Len(ledger) \in Nat
      /\ \A i \in DOMAIN ledger : ledger[i] \in Nat
  BY <1>2, SymbolsOf
<1>5. cut \in Lines(ledger, size) /\ cut \in 1..Len(ledger) /\ ledger[cut] = Newline
  BY <1>1, <1>2, <1>4 DEF Lines, size
<1>6. /\ Cardinality(Lines(ledger, cut)) \in Nat
      /\ Cardinality(Lines(ledger, size)) = Cardinality(Lines(ledger, cut)) + MaxLedger
  <2>1. cut \in Nat
    BY <1>4, <1>5
  <2>2. Cardinality(Lines(ledger, cut)) \in Nat
    BY ONLY <2>1, LinesStep
  <2> QED
    BY <1>1, <1>2, <2>2
<1>7. /\ ledger' \in Seq(S) /\ Rising(ledger', appends) /\ NoBlanks(ledger')
      /\ \A i \in DOMAIN ledger : i > cut /\ Finished(ledger, i) => Recent(ledger', ledger[i])
  <2>1. ASSUME NEW rest, rest = ledger'
        PROVE  /\ rest \in Seq(S) /\ Rising(rest, appends) /\ NoBlanks(rest)
               /\ \A i \in DOMAIN ledger : i > cut /\ Finished(ledger, i) => Recent(rest, ledger[i])
    <3>1. rest = SubSeq(ledger, cut + 1, Len(ledger))
      BY <1>1, <2>1
    <3> QED
      BY ONLY <1>2, <1>5, <3>1, RestOfLines
  <2> QED
    BY <2>1
<1>8. RecentThere'
  <2>1. SUFFICES ASSUME NEW n \in 1..appends \ damaged, appends - n < MaxLedger
                 PROVE  Recent(ledger', n)
    BY <1>3 DEF RecentThere
  <2>2. PICK i \in DOMAIN ledger : Finished(ledger, i) /\ ledger[i] = n
    BY <1>2, <2>1 DEF RecentThere, Recent
  <2>3. CASE i > cut
    BY <1>7, <2>2, <2>3
  <2>4. CASE ~(i > cut)
    <3>1. i \in 1..cut /\ ledger[i] # Newline
      BY <1>4, <1>5, <2>2, <2>4 DEF Finished
    <3>2. Cardinality(Lines(ledger, size)) - Cardinality(Lines(ledger, cut)) <= appends - ledger[i]
      BY ONLY <1>2, <1>5, <3>1, DroppedIsOld
    <3> QED
      BY <1>2, <1>6, <2>1, <2>2, <3>2
  <2> QED
    BY <2>3, <2>4
<1>9. LedgerTypeOK'
  <2>1. compaction' \in [phase : {"idle", "count", "copy"}, size : Nat, drop : Nat]
    BY <1>3 DEF Resting
  <2> QED
    BY <1>3, <1>7, <2>1 DEF LedgerInv, LedgerTypeOK, S
<1>10. Compacting'
  BY <1>3 DEF Compacting, Resting
<1> QED
  BY <1>3, <1>7, <1>8, <1>9, <1>10 DEF LedgerInv

LEMMA LedgerInvPreserved ==
  ASSUME LedgerAssumption, LedgerInv, [LedgerNext]_ledgerVars
  PROVE  LedgerInv'
<1>1. CASE UNCHANGED ledgerVars
  BY <1>1 DEF ledgerVars, LedgerInv, LedgerTypeOK, Compacting, RecentThere
<1> QED
  BY <1>1, AppendStep, AppendFailsStep, RestStep, CountStep, SwapStep DEF LedgerNext

LEMMA LedgerInvCorrect ==
  ASSUME LedgerAssumption
  PROVE  LedgerSpec => []LedgerInv
<1>1. LedgerInit => LedgerInv
  <2> SUFFICES ASSUME LedgerInit PROVE LedgerInv
    OBVIOUS
  <2>1. LedgerTypeOK
    BY DEF LedgerInit, LedgerTypeOK, LedgerAssumption, Resting
  <2>2. Rising(ledger, appends) /\ NoBlanks(ledger)
    BY DEF LedgerInit, Rising, NoBlanks
  <2>3. Compacting /\ RecentThere
    BY DEF LedgerInit, Compacting, Resting, RecentThere
  <2> QED
    BY <2>1, <2>2, <2>3 DEF LedgerInv
<1>2. LedgerInv /\ [LedgerNext]_ledgerVars => LedgerInv'
  BY LedgerInvPreserved
<1> QED
  BY <1>1, <1>2, PTL DEF LedgerSpec

\* The ledger never loses a recent record, whatever the compactions, the torn lines and
\* the deaths of the process, for every cap and every interval between compactions.
THEOREM RecentRecordsKept ==
  ASSUME LedgerAssumption
  PROVE  LedgerSpec => []RecentKept
<1>1. LedgerInv => RecentKept
  BY LedgerInvSuffices
<1> QED
  BY <1>1, LedgerInvCorrect, PTL

-----------------------------------------------------------------------------
(* The stores together *)

\* The stores keep their types, and the pool of downloads its accounts: no version is
\* downloaded twice at once, and the pool keeps to its bounds.
THEOREM StoresKept ==
  ASSUME ArchiveAssumption, CacheAssumption, LedgerAssumption
  PROVE  ArchiveSpec /\ CacheSpec /\ LedgerSpec => []StoresAccounted
<1>1. ArchiveInv /\ CacheInv /\ LedgerInv => StoresAccounted
  BY DEF ArchiveInv, CacheInv, LedgerInv, StoresAccounted
<1> QED
  BY <1>1, ArchiveInvCorrect, CacheInvCorrect, LedgerInvCorrect, PTL

=============================================================================
