------------------------------- MODULE Scoring -------------------------------
(***************************************************************************)
(* From the scanners' findings to the score of a package: the passes that  *)
(* process() of src/pipeline/processor.js runs one after the other over    *)
(* one list of findings and one score, each with its own exemptions.       *)
(*                                                                         *)
(* The passes are the actions.  What they read besides the findings (the   *)
(* import graph, the targets of the install scripts, the registry's        *)
(* metadata, the versions before, the contextual features, the sandbox) is *)
(* chosen when it is read.                                                 *)
(***************************************************************************)
EXTENDS RiskScore, Selection

CONSTANTS
  Files,           \* of the packages
  Packages,        \* lists of what the scanners can report
  Graphs,          \* sets of reachable files; {} when there is no graph
  Scopes,          \* install scripts' target files and those files' imports
  Profiles,        \* what the registry says of a package
  Histories,       \* findings, as <<type, file>>, the last versions all had
  Intents,         \* the intent findings of a package and their score
  CapSets,         \* contextual features: the lowest cap, a scope's typosquat
  Bundled,         \* the files a bundler wrote
  Linked,          \* pairs of files one of which imports the other
  CountRules,      \* FP_COUNT_THRESHOLDS: [max, from, floor, anyShare]
  Soften, Expected,\* what a benign message does: before and after the paths
  Compounds,       \* SCORING_COMPOUNDS
  LoaderMax,       \* dynamic loads a file may have
  DIST_EXEMPT_TYPES, DIST_BUNDLER_ARTIFACT_TYPES, VETO_TYPES,
  REACHABILITY_EXEMPT_TYPES, EXFIL_SINK_TYPES, LIFECYCLE_GUARD_TYPES,
  DELTA_IOC_EXEMPT, STRING_IOC_CORROBORATION_TYPES, MATURE_CAP_IOC_TYPES,
  SINGLE_FIRE_CRITICAL_TYPES

NotCounted == -1
LoaderTypes == {"dynamic_require", "dynamic_import"}

Kinds == DOMAIN Confidence
\* What the passes read in a message; of an indicator, its family and evidence.
Notes == {"", "benign", "degraded", "dangerous", "sensitive", "network", "dead"}
Iocs == {<<>>} \cup (STRING \X Nat)

Report == [type : Kinds, sev : Severity, file : Files, note : Notes, ioc : Iocs]
CompoundRule ==
  [type : Kinds, requires : SUBSET Kinds, severity : Severity, fileFrom : Kinds,
   high : BOOLEAN, unbundled : BOOLEAN, scoped : BOOLEAN, together : SUBSET Kinds,
   linked : BOOLEAN]

ASSUME CapsAssumption == \A caps \in CapSets : caps.max \in 0..100
ASSUME ReportsAssumption ==
  /\ Manifest \in Files
  /\ {"lifecycle_file_exec", "detached_credential_exfil"} \subseteq Kinds
  /\ Packages \subseteq Seq(Report)
  /\ \A intent \in Intents : intent.findings \in Seq(Report)
ASSUME TablesAssumption ==
  /\ \A t \in DOMAIN Soften : Soften[t].to \in Severity
  /\ \A t \in DOMAIN Expected : Expected[t].to \in Severity
  /\ \A t \in LoaderTypes \cap DOMAIN CountRules : ~CountRules[t].floor

\* Each compound has a type of its own, which no scanner reports, no earlier
\* correlation makes and no compound asks for.
ASSUME CompoundsAssumption ==
  /\ Compounds \in Seq(CompoundRule)
  /\ \A m, n \in DOMAIN Compounds : Compounds[m].type = Compounds[n].type => m = n
  /\ \A c \in ToSet(Compounds) :
       /\ c.fileFrom \in c.requires
       /\ c.type \notin {"lifecycle_file_exec", "detached_credential_exfil"}
       /\ \A d \in ToSet(Compounds) : c.type \notin d.requires
       /\ \A p \in Packages : c.type \notin Types(p)

VARIABLES
  found,      \* the findings as the scanners reported them
  findings,   \* the findings as the passes left them
  reachable, targets, profile,
  score, level,
  stage

vars == <<found, findings, reachable, targets, profile, score, level, stage>>
context == <<found, reachable, targets>>

AFinding ==
  [type : Kinds, sev : Severity, file : Files, note : Notes, ioc : Iocs,
   orig : Severity, was : Severity \cup {NotCounted}, by : Kinds \cup {None},
   compound : BOOLEAN, unscoped : BOOLEAN, lone : BOOLEAN]

Finding(t) ==
  [type |-> t.type, sev |-> t.sev, file |-> t.file, note |-> t.note,
   ioc |-> t.ioc, orig |-> t.sev, was |-> NotCounted, by |-> None,
   compound |-> FALSE, unscoped |-> FALSE, lone |-> FALSE]

Compound(type, sev, file, unscoped) ==
  [Finding([type |-> type, sev |-> sev, file |-> file, note |-> "", ioc |-> <<>>])
     EXCEPT !.compound = TRUE, !.unscoped = unscoped]

Lower(fs, i, sev) == [fs EXCEPT ![i].sev = sev]
OfType(fs, t) == {i \in DOMAIN fs : fs[i].type = t}

-----------------------------------------------------------------------------
\* detached_credential_exfil: a file, no bundle, detaches a process and reads
\* credentials, and not all hosts it talks to are benign.
DetachedExfil(fs, benign, i) ==
  LET Has(t) == \E j \in OfType(fs, t) : fs[j].file = fs[i].file
  IN  /\ fs[i].file \notin Bundled \cup benign
      /\ \A j \in 1..(i - 1) : fs[j].file # fs[i].file
      /\ Has("detached_process") /\ Has("suspicious_dataflow")
      /\ ~Has("detached_credential_exfil")

withDetachedExfil(fs, benign) ==
  LET firsts == KeepAt(fs, {i \in DOMAIN fs : DetachedExfil(fs, benign, i)})
  IN  fs \o [k \in DOMAIN firsts |->
               Finding([type |-> "detached_credential_exfil", sev |-> CRITICAL,
                        file |-> firsts[k].file, note |-> "", ioc |-> <<>>])]

\* lifecycle_file_exec: an install script runs a file with a HIGH finding.
withLifecycleFileExec(fs) ==
  IF /\ \E i \in DOMAIN fs : fs[i].type = "lifecycle_script" /\ fs[i].file = Manifest
     /\ \E i \in DOMAIN fs : fs[i].file \in targets.run /\ fs[i].sev >= HIGH
  THEN Append(fs, Compound("lifecycle_file_exec", CRITICAL, Manifest, FALSE))
  ELSE fs

-----------------------------------------------------------------------------
(* The false-positive reductions, in their order.                          *)

pluginLoader(fs) ==
  LET loads == {i \in DOMAIN fs : fs[i].type \in LoaderTypes}
      Crowded(file) == Cardinality({i \in loads : fs[i].file = file}) > LoaderMax
  IN  [i \in DOMAIN fs |->
         IF i \in loads /\ fs[i].sev = HIGH /\ Crowded(fs[i].file)
         THEN [fs[i] EXCEPT !.sev = LOW] ELSE fs[i]]

networkSinkFiles(fs) ==
  {fs[i].file : i \in {j \in DOMAIN fs :
     \/ fs[j].type \in {"suspicious_dataflow", "suspicious_module_sink"}
     \/ fs[j].type = "cross_file_dataflow" /\ fs[j].note = "network"}}

\* Too many findings of one type are a framework's, unless one is immune or
\* the type dominates the package.
Discounted(fs, i) ==
  LET f == fs[i]
      n == Cardinality(OfType(fs, f.type))
      rule == CountRules[f.type]
  IN  /\ f.type \in DOMAIN CountRules
      /\ n > rule.max
      /\ f.sev \in rule.from
      /\ ~(f.type = "dynamic_require" /\ f.note = "dangerous")
      /\ ~(f.type = "env_access" /\ f.file \in networkSinkFiles(fs))
      /\ rule.anyShare \/ 10 * n < 4 * Len(fs)

countThreshold(fs) ==
  [i \in DOMAIN fs |-> IF Discounted(fs, i)
                       THEN [fs[i] EXCEPT !.was = fs[i].sev, !.sev = LOW]
                       ELSE fs[i]]

\* One finding of a type with a floor, the first, gets its severity back.
dilutionFloor(fs) ==
  LET counted(t) == {i \in OfType(fs, t) : fs[i].was # NotCounted}
      Kept(i) == /\ fs[i].was # NotCounted
                 /\ CountRules[fs[i].type].floor
                 /\ \A j \in counted(fs[i].type) : i <= j
  IN  [i \in DOMAIN fs |-> IF Kept(i)
                           THEN [fs[i] EXCEPT !.sev = fs[i].was, !.was = NotCounted]
                           ELSE fs[i]]

hasExfilSink(fs) ==
  \E i \in DOMAIN fs : fs[i].type \in EXFIL_SINK_TYPES /\ fs[i].sev # LOW

sinkCoupling(fs) ==
  [i \in DOMAIN fs |->
     IF fs[i].type = "credential_regex_harvest" /\ fs[i].sev >= HIGH /\ ~hasExfilSink(fs)
     THEN [fs[i] EXCEPT !.sev = LOW] ELSE fs[i]]

\* A finding that tells the bundle of its file was tampered with.
hasBundleVetoSignal(fs, file) ==
  \E i \in DOMAIN fs :
    /\ fs[i].file = file /\ fs[i].sev # LOW
    /\ \/ fs[i].type \in VETO_TYPES
       \/ fs[i].type = "env_access" /\ fs[i].note = "sensitive"

Softened(fs, i, table) ==
  IF fs[i].note = "benign" /\ fs[i].type \in DOMAIN table
     /\ fs[i].sev = table[fs[i].type].from
  THEN Lower(fs, i, table[fs[i].type].to) ELSE fs

InBundle(fs, i) ==
  IF fs[i].file \notin Bundled \/ fs[i].type \in DIST_EXEMPT_TYPES
     \/ hasBundleVetoSignal(fs, fs[i].file)
  THEN fs
  ELSE Lower(fs, i, Most(LOW, fs[i].sev -
              (IF fs[i].type \in DIST_BUNDLER_ARTIFACT_TYPES THEN 2 ELSE 1)))

exemptFiles(fs) ==
  {fs[i].file : i \in {j \in DOMAIN fs : fs[j].type \in REACHABILITY_EXEMPT_TYPES}}
Unreached(fs, i) ==
  IF /\ reachable # {} /\ fs[i].type \notin REACHABILITY_EXEMPT_TYPES
     /\ ~isPackageLevelThreat(fs[i])
     /\ IF fs[i].file \in reachable \cup exemptFiles(fs)
        THEN fs[i].note = "dead" ELSE TRUE
  THEN Lower(fs, i, LOW) ELSE fs

\* One finding through the loop; it reads what the loop did to earlier ones.
reduceOne(fs, i) ==
  Softened(Unreached(InBundle(Softened(fs, i, Soften), i), i), i, Expected)

\* With a live install script, one discounted finding of these types returns.
lifecycleGuard(fs) ==
  LET live == \E i \in OfType(fs, "lifecycle_script") : fs[i].sev # LOW
      lost(t) == {i \in OfType(fs, t) : fs[i].was # NotCounted /\ fs[i].sev = LOW}
      Back(i) == /\ fs[i].type \in LIFECYCLE_GUARD_TYPES
                 /\ i \in lost(fs[i].type)
                 /\ \A j \in lost(fs[i].type) : i <= j
  IN  [i \in DOMAIN fs |-> IF live /\ Back(i)
                           THEN [fs[i] EXCEPT !.sev = MEDIUM] ELSE fs[i]]

ReducedOneByOne(fs) ==
  LET after[n \in 0..Len(fs)] == IF n = 0 THEN fs ELSE reduceOne(after[n - 1], n)
  IN  after[Len(fs)]

\* Mutant: the guard looks before the paths are taken into account.
applyFPReductionsGuardedEarly(fs) ==
  ReducedOneByOne(lifecycleGuard(
    sinkCoupling(dilutionFloor(countThreshold(pluginLoader(fs))))))

applyFPReductions(fs) ==
  lifecycleGuard(ReducedOneByOne(
    sinkCoupling(dilutionFloor(countThreshold(pluginLoader(fs))))))

-----------------------------------------------------------------------------
\* A finding the last versions all had is LOW, unless it is decisive.
applyDeltaMultiplier(fs, stable) ==
  [i \in DOMAIN fs |->
     IF /\ fs[i].type \notin HIGH_CONFIDENCE_MALICE_TYPES \cup DELTA_IOC_EXEMPT
        /\ <<fs[i].type, fs[i].file>> \in stable
     THEN [fs[i] EXCEPT !.sev = LOW] ELSE fs[i]]

-----------------------------------------------------------------------------
(* The compounds.                                                          *)

Component(fs, c) == {i \in DOMAIN fs : fs[i].type \in c.requires}

\* Mutant: the reduced severity is asked for.
PartsPresentReduced(fs, c) ==
  /\ c.requires \subseteq Types(fs)
  /\ \E i \in Component(fs, c) : fs[i].sev >= (IF c.high THEN HIGH ELSE MEDIUM)

\* All parts are there, one of them not LOW when the scanner reported it.
PartsPresent(fs, c) ==
  /\ c.requires \subseteq Types(fs)
  /\ \E i \in Component(fs, c) : fs[i].orig >= (IF c.high THEN HIGH ELSE MEDIUM)

OnlyBundled(fs, c) ==
  LET inFiles == {i \in Component(fs, c) : fs[i].file # Manifest}
  IN  c.unbundled /\ inFiles # {} /\ \A i \in inFiles : fs[i].file \in Bundled

lifecycleScope(fs, c) ==
  IF ~c.scoped THEN "pass"
  ELSE IF targets.run = {} THEN "unscoped"
  ELSE IF \E i \in Component(fs, c) :
            /\ fs[i].type # "lifecycle_script"
            /\ fs[i].file \in targets.run \cup targets.imports
       THEN "pass" ELSE "skip"

FilesWith(fs, t) == {fs[i].file : i \in OfType(fs, t)}
Together(fs, c) ==
  \/ c.together = {}
  \/ \E file \in UNION {FilesWith(fs, t) : t \in c.together} :
       \A t \in c.together : file \in FilesWith(fs, t)
  \/ /\ c.linked
     /\ \E t \in c.together, u \in c.together :
          t # u /\ (FilesWith(fs, t) \X FilesWith(fs, u)) \cap Linked # {}

Added(fs, c, unscoped) ==
  IF c.type \in Types(fs) THEN fs
  ELSE LET first == CHOOSE i \in OfType(fs, c.fileFrom) :
                      \A j \in OfType(fs, c.fileFrom) : i <= j
       IN  Append(fs, Compound(c.type,
             IF unscoped THEN Least(c.severity, HIGH) ELSE c.severity,
             fs[first].file, unscoped))

\* Mutant: the parts are replaced however strong they are.
ReplacedAll(fs, c) ==
  [i \in DOMAIN fs |->
     IF fs[i].type \in c.requires /\ fs[i].by = None
     THEN [fs[i] EXCEPT !.by = c.type] ELSE fs[i]]

\* The first free finding of each part, when it is weaker than the compound,
\* no longer scores: the compound scores for it.
Replaced(fs, c) ==
  LET free(t) == {i \in OfType(fs, t) : fs[i].by = None}
      Stands(i) == /\ fs[i].type \in c.requires
                   /\ \A j \in OfType(fs, fs[i].type) : fs[j].by # c.type
                   /\ i \in free(fs[i].type)
                   /\ \A j \in free(fs[i].type) : i <= j
                   /\ fs[i].sev < c.severity
  IN  [i \in DOMAIN fs |-> IF Stands(i) THEN [fs[i] EXCEPT !.by = c.type] ELSE fs[i]]

Fired(fs, c) ==
  IF ~PartsPresent(fs, c) \/ OnlyBundled(fs, c) \/ lifecycleScope(fs, c) = "skip"
  THEN fs
  ELSE IF lifecycleScope(fs, c) = "unscoped" THEN Added(fs, c, TRUE)
  ELSE IF Together(fs, c) THEN Replaced(Added(fs, c, FALSE), c)
  ELSE fs

applyCompoundBoosts(fs) ==
  LET after[n \in 0..Len(Compounds)] ==
        IF n = 0 THEN fs ELSE Fired(after[n - 1], Compounds[n])
  IN  after[Len(Compounds)]

-----------------------------------------------------------------------------
\* A lone string of a campaign is not decisive: another sign of malice or a
\* second string of the same campaign has to be there.
applyStringIocCorroboration(fs) ==
  LET strings == {i \in OfType(fs, "ioc_string_match") : fs[i].sev = CRITICAL}
      behavioral == \E i \in DOMAIN fs :
        /\ fs[i].type # "ioc_string_match" /\ fs[i].sev # LOW
        /\ fs[i].compound \/ fs[i].type \in STRING_IOC_CORROBORATION_TYPES
      families == {fs[i].ioc[1] : i \in strings}
      evidence == {fs[i].ioc[2] : i \in strings}
      multiplicity == Cardinality(families) = 1 /\ Cardinality(evidence) >= 2
  IN  [i \in DOMAIN fs |-> IF i \in strings /\ ~behavioral /\ ~multiplicity
                           THEN [fs[i] EXCEPT !.lone = TRUE] ELSE fs[i]]

\* The findings of one intent pair analysis; a file out of reach makes it LOW.
WithIntents(fs, intents) ==
  fs \o [i \in DOMAIN intents |->
           IF reachable # {} /\ intents[i].file \notin reachable
           THEN [Finding(intents[i]) EXCEPT !.sev = LOW]
           ELSE Finding(intents[i])]

-----------------------------------------------------------------------------
(* The passes over the score.                                              *)

hasStealthObfuscationCompound(fs) ==
  /\ Types(fs) \cap {"silent_stealth_process", "detached_process"} # {}
  /\ "js_obfuscation_pattern" \in Types(fs)

hasConfirmedMalice(fs) ==
  \/ Types(fs) \cap HIGH_CONFIDENCE_MALICE_TYPES # {}
  \/ \E i \in DOMAIN fs : fs[i].compound
  \/ hasStagedC2(fs)
  \/ hasStealthObfuscationCompound(fs)

hasMaliceSignal(fs) ==
  hasConfirmedMalice(fs) \/ \E i \in DOMAIN fs : fs[i].sev >= HIGH

points(f) == (SEVERITY_WEIGHTS[f.sev] * Confidence[f.type] + 50) \div 100

\* The lowest of the caps whose feature applies, 100 where none does; without
\* a scope in common the typosquat's points are taken back.
applyContextualFPCaps(fs, s, caps) ==
  LET lowered == Least(s, caps.max)
      typo == MapThenSumSet(LAMBDA i : points(fs[i]),
                OfType(fs, "typosquat_detected") \cup OfType(fs, "lifecycle_typosquat"))
  IN  IF caps.scopedTyposquat /\ "typosquat_detected" \in Types(fs)
      THEN IF lowered - typo \in 0..lowered THEN lowered - typo ELSE 0
      ELSE lowered

applyMatureStableCap(fs, s, p) ==
  IF p.latest /\ p.mature
     /\ Types(fs) \cap (HIGH_CONFIDENCE_MALICE_TYPES \cup MATURE_CAP_IOC_TYPES) = {}
  THEN Least(s, 25) ELSE s

\* The string matches have to be CRITICAL and corroborated, the others HIGH.
Triggers(fs) ==
  {i \in DOMAIN fs :
     /\ fs[i].type \in SINGLE_FIRE_CRITICAL_TYPES
     /\ IF fs[i].type = "ioc_string_match"
        THEN fs[i].sev = CRITICAL /\ ~fs[i].lone ELSE fs[i].sev >= HIGH}

applySingleFireCriticalFloor(fs, s) ==
  IF Triggers(fs) # {} THEN Most(s, 75) ELSE s

\* The factor of the registry's metadata, in units of 1/10000.  Provenance
\* is trusted only where nothing points at malice; a version of a pre-release
\* channel gets 85% of the effect, any other old version none.
reputationFactor(fs, p) ==
  LET bonus == IF p.attested /\ ~hasMaliceSignal(fs) THEN 10 ELSE 0
      factor == Most(10, Least(150, 100 + p.shift - bonus))
  IN  IF ~p.latest /\ ~p.prerelease THEN 10000
      ELSE IF p.latest THEN factor * 100
      ELSE 10000 + (factor - 100) * 85

\* Mutant: the registry's word lowers the score of confirmed malice.
applyReputationFactorUnfloored(fs, s, p) ==
  LET factor == reputationFactor(fs, p)
  IN  IF factor = 10000 THEN s ELSE Capped((s * factor + 5000) \div 10000)

applyReputationFactor(fs, s, p) ==
  LET factor == reputationFactor(fs, p)
      weighed == Capped((s * factor + 5000) \div 10000)
  IN  IF factor = 10000 THEN s
      ELSE IF hasConfirmedMalice(fs) THEN Most(weighed, 20) ELSE weighed

Verdicts == {"none", "inconclusive", "clean", "chain", "confirmed"}
applySandboxVerdict(s, verdict) ==
  CASE verdict = "confirmed" -> Most(s, 75)
    [] verdict = "chain"     -> Most(s, 60)
    [] verdict = "clean"     -> Most(0, s - 8)
    [] OTHER                 -> s

-----------------------------------------------------------------------------
(* The pipeline.                                                           *)

Stages == {"found", "correlated", "reduced", "decayed", "boosted", "scored",
           "capped", "matured", "floored", "weighed", "final"}

Unknown == [known |-> FALSE, latest |-> FALSE, prerelease |-> FALSE,
            mature |-> FALSE, attested |-> FALSE, shift |-> 0]

Init ==
  /\ found \in Packages
  /\ findings = [i \in DOMAIN found |-> Finding(found[i])]
  /\ reachable \in Graphs
  /\ targets \in Scopes
  /\ profile = Unknown
  /\ score = 0 /\ level = "SAFE"
  /\ stage = "found"

\* A pass over the findings, before there is a score.
Pass(from, to, fs) ==
  /\ stage = from
  /\ stage' = to
  /\ findings' = fs
  /\ UNCHANGED <<context, score, level>>

\* Mutant: the level stays the one of the first score.
AdjustScoreOnly(from, to, s) ==
  /\ stage = from
  /\ stage' = to
  /\ score' = s
  /\ level' = IF from = "boosted" THEN riskLevel(s) ELSE level
  /\ UNCHANGED <<context, profile>>

\* A pass over the score and with it the level.
Adjust(from, to, s) ==
  /\ stage = from
  /\ stage' = to
  /\ score' = s
  /\ level' = riskLevel(s)
  /\ UNCHANGED <<context, profile>>

Correlate ==
  /\ \E benign \in SUBSET {findings[i].file : i \in OfType(findings, "detached_process")} :
       Pass("found", "correlated",
            withLifecycleFileExec(withDetachedExfil(findings, benign)))
  /\ UNCHANGED profile

Reduce == Pass("correlated", "reduced", applyFPReductions(findings)) /\ UNCHANGED profile

\* Without the registry's metadata there is nothing to compare with.
Decay ==
  \E p \in Profiles, stable \in Histories :
    /\ p.known \/ stable = {}
    /\ profile' = p
    /\ Pass("reduced", "decayed", applyDeltaMultiplier(findings, stable))

Boost == Pass("decayed", "boosted", applyCompoundBoosts(findings)) /\ UNCHANGED profile

Calculate ==
  \E intent \in Intents :
    LET fs == applyStringIocCorroboration(WithIntents(findings, intent.findings))
    IN  /\ findings' = fs
        /\ Adjust("boosted", "scored", calculateRiskScore(fs, intent.score))

Cap ==
  \E caps \in CapSets :
    /\ Adjust("scored", "capped", applyContextualFPCaps(findings, score, caps))
    /\ UNCHANGED findings

Mature ==
  /\ Adjust("capped", "matured", applyMatureStableCap(findings, score, profile))
  /\ UNCHANGED findings

Floor ==
  /\ Adjust("matured", "floored", applySingleFireCriticalFloor(findings, score))
  /\ UNCHANGED findings

Weigh ==
  /\ Adjust("floored", "weighed", applyReputationFactor(findings, score, profile))
  /\ UNCHANGED findings

Sandbox ==
  \E verdict \in Verdicts :
    /\ Adjust("weighed", "final", applySandboxVerdict(score, verdict))
    /\ UNCHANGED findings

\* The result is returned.
Done == stage = "final" /\ UNCHANGED vars

Next == Correlate \/ Reduce \/ Decay \/ Boost \/ Calculate \/ Cap \/ Mature
          \/ Floor \/ Weigh \/ Sandbox \/ Done

Spec == Init /\ [][Next]_vars

-----------------------------------------------------------------------------
(* Properties.                                                             *)

\* The score stays within 0..100 and the level is always the one of the
\* score, although every pass sets both.
TypeOK ==
  /\ found \in Packages /\ reachable \in Graphs /\ targets \in Scopes
  /\ profile \in Profiles \cup {Unknown}
  /\ findings \in Seq(AFinding)
  /\ score \in 0..100
  /\ level = riskLevel(score)
  /\ stage \in Stages

\* No reduction, by count, by path or by history, keeps a compound from
\* firing: it asks for what the scanners reported, not for what the
\* reductions left.
CompoundsSurviveReductions ==
  stage \notin {"found", "correlated", "reduced", "decayed"} =>
    \A c \in ToSet(Compounds) :
      /\ c.requires \subseteq Types(found)
      /\ \E i \in Component(found, c) : found[i].sev >= (IF c.high THEN HIGH ELSE MEDIUM)
      /\ ~OnlyBundled(found, c) /\ Together(found, c)
      /\ lifecycleScope(found, c) # "skip"
      => \E i \in OfType(findings, c.type) :
           \/ findings[i].sev = c.severity
           \/ findings[i].sev = HIGH /\ findings[i].unscoped

\* A compound scores for the parts it replaces: firing it never takes the
\* package's score below the alert threshold of 20 or below a level it had
\* reached.  (Within a level rounding may cost a point.)
BoostsNeverLower ==
  [][Boost => \A t \in {20, 25, 50, 75} :
                calculateRiskScore(findings, 0) >= t
                  => calculateRiskScore(findings', 0) >= t]_vars

\* The reductions leave one finding of a kind: a type with a floor keeps one
\* as it was reported, and next to a live install script one finding of a
\* guarded type stays above LOW, whatever the count, the path and the graph
\* did to the others.
Undiluted ==
  stage = "reduced" =>
    /\ \A t \in Types(found) \cap DOMAIN CountRules :
         /\ CountRules[t].floor /\ t # "credential_regex_harvest"
         /\ \A i \in OfType(found, t) :
              /\ found[i].file \notin Bundled /\ found[i].note = ""
              /\ reachable = {} \/ found[i].file \in reachable
         => \E i \in OfType(findings, t) : findings[i].sev = findings[i].orig
    /\ (\E i \in OfType(findings, "lifecycle_script") : findings[i].sev # LOW) =>
         \A t \in LIFECYCLE_GUARD_TYPES :
           (\E i \in OfType(findings, t) : findings[i].was # NotCounted) =>
             \E i \in OfType(findings, t) : findings[i].sev # LOW

\* The floors, of what the passes before left.
FloorsHold ==
  /\ stage = "floored" /\ Triggers(findings) # {} => score >= 75
  /\ stage = "weighed" /\ hasConfirmedMalice(findings)
       /\ (Triggers(findings) # {} \/ reputationFactor(findings, profile) # 10000)
     => score >= 20
  /\ stage = "final" /\ hasConfirmedMalice(findings) /\ Triggers(findings) # {}
     => score >= 12

\* The types no reduction touches.
Unreducible ==
  ((SINGLE_FIRE_CRITICAL_TYPES \ {"ioc_string_match"})
     \cap DIST_EXEMPT_TYPES \cap REACHABILITY_EXEMPT_TYPES
     \cap (HIGH_CONFIDENCE_MALICE_TYPES \cup DELTA_IOC_EXEMPT))
  \ (DOMAIN CountRules \cup DOMAIN Soften \cup DOMAIN Expected \cup LoaderTypes
       \cup {"credential_regex_harvest"})

\* A decisive finding of a scanner is worth 75 whatever the reductions, the
\* caps and the package's maturity say, and one of confirmed malice is above
\* the alert threshold of 20 whatever the registry says.
DecisiveNotBuried ==
  /\ FloorsHold
  /\ \A i \in DOMAIN found :
       found[i].type \in Unreducible /\ found[i].sev >= HIGH =>
         /\ stage = "floored" => score >= 75
         /\ stage = "weighed" /\ found[i].type \in HIGH_CONFIDENCE_MALICE_TYPES
              => score >= 20

\* What the code says of a hash: its match stays CRITICAL.
HashStaysCritical ==
  stage = "floored" /\ "known_malicious_hash" \in Types(found) => score >= 75

=============================================================================
