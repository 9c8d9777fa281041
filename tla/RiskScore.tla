------------------------------ MODULE RiskScore ------------------------------
(***************************************************************************)
(* The risk score of a list of findings: calculateRiskScore of             *)
(* src/scoring.js with the group scores, floors, bonuses and the ceiling   *)
(* it is made of.                                                          *)
(*                                                                         *)
(* A finding is a record                                                   *)
(*   [type, sev, file, note, ioc, orig, was, by, compound, unscoped, lone] *)
(* whose message is reduced to a note: what the passes read in it.         *)
(* A score is a number of points; sums are kept in millionths of a point,  *)
(* exactly, where the code adds floating-point numbers.                    *)
(***************************************************************************)
EXTENDS Integers, Sequences, FiniteSets, SequencesExt

CONSTANTS
  Confidence,                     \* a rule's confidence factor, in percent
  PACKAGE_LEVEL_TYPES, HIGH_CONFIDENCE_MALICE_TYPES, PYPI_IMPORT_TIME_RCE_TYPES,
  Vendored,                       \* the files below node_modules
  Deep                            \* the files more than three segments deep

Manifest == "package.json"
None == "none"

LOW == 0
MEDIUM == 1
HIGH == 2
CRITICAL == 3
Severity == LOW..CRITICAL

SEVERITY_WEIGHTS == [s \in Severity |-> <<1, 3, 10, 25>>[s + 1]]

Point == 1000000
Least(x, y) == IF x <= y THEN x ELSE y
Most(x, y) == IF x >= y THEN x ELSE y

\* A score never leaves 0..100.
Capped(x) == IF x \in 0..99 THEN x ELSE 100

riskLevel(s) ==
  IF s >= 75 THEN "CRITICAL" ELSE IF s >= 50 THEN "HIGH"
  ELSE IF s >= 25 THEN "MEDIUM" ELSE IF s > 0 THEN "LOW" ELSE "SAFE"

Types(fs) == {fs[i].type : i \in DOMAIN fs}

isPackageLevelThreat(f) ==
  f.type \in PACKAGE_LEVEL_TYPES \/ f.file = Manifest \/ f.file \in Vendored

-----------------------------------------------------------------------------
\* MEDIUM findings of these types are worth at most so many points together.
MediumCap(type) ==
  CASE type = "prototype_hook" -> 15
    [] type = "suspicious_dataflow" -> 3
    [] OTHER -> 0

\* The n-th finding of a kind counts alpha^(n-1), alpha in tenths; the sixth
\* of a decaying kind is below the rounding.
DecayTenths == [s \in Severity |-> <<3, 4, 10, 10>>[s + 1]]
Repeated(sev, n) ==
  IF DecayTenths[sev] = 10 THEN n * 10000
  ELSE MapThenSumSet(LAMBDA i : DecayTenths[sev]^i * 10^(4 - i), 0..(Least(n, 5) - 1))

KindWorth(sev, type, n) ==
  LET points == SEVERITY_WEIGHTS[sev] * Confidence[type]
  IN  IF sev = MEDIUM /\ MediumCap(type) > 0
      THEN Least(n * points, 100 * MediumCap(type)) * 10000
      ELSE points * Repeated(sev, n)

\* The score of the findings at the indices I.
computeGroupScore(fs, I) ==
  LET live == {i \in I : fs[i].by = None}
      kinds == {<<fs[i].sev, fs[i].type>> : i \in live}
      Count(k) == Cardinality({i \in live : <<fs[i].sev, fs[i].type>> = k})
      total == MapThenSumSet(LAMBDA k : KindWorth(k[1], k[2], Count(k)), kinds)
  IN  Capped((total + Point \div 2) \div Point)

-----------------------------------------------------------------------------
Degraded(f) == f.note = "degraded" /\ f.sev # CRITICAL
PackageFindings(fs) ==
  {i \in DOMAIN fs : ~Degraded(fs[i]) /\ isPackageLevelThreat(fs[i])}
FileFindings(fs) ==
  {i \in DOMAIN fs : ~Degraded(fs[i]) /\ ~isPackageLevelThreat(fs[i])}
InFile(fs, file) == {i \in FileFindings(fs) : fs[i].file = file}
Notable(fs, I) == \E i \in I : fs[i].sev # LOW

\* The files whose findings earn the package the deep_suspicious_file finding.
DeepFindings(fs) ==
  {i \in FileFindings(fs) :
     fs[i].file \in Deep /\ Notable(fs, InFile(fs, fs[i].file))}

applyPackageLevelBoosts(fs) ==
  IF DeepFindings(fs) = {} THEN fs
  ELSE LET first == CHOOSE i \in DeepFindings(fs) :
                      \A j \in DeepFindings(fs) : i <= j
       IN  Append(fs, [fs[first] EXCEPT
             !.type = "deep_suspicious_file", !.sev = LOW, !.orig = LOW,
             !.note = "", !.ioc = <<>>, !.was = -1, !.by = None,
             !.compound = FALSE, !.unscoped = FALSE, !.lone = FALSE])

CriticalPkgTypes(fs, I) ==
  {fs[i].type : i \in {j \in I : fs[j].sev = CRITICAL /\ ~fs[j].unscoped}}

FlooredAt50(fs, I) ==
  LET s == computeGroupScore(fs, I)
  IN  IF s >= 25 /\ CriticalPkgTypes(fs, I) # {} THEN Most(s, 50) ELSE s

\* After a boost the package score is computed again, without the floor for
\* two different CRITICAL types.
packageScore(fs) ==
  LET I == PackageFindings(fs)
      boosted == applyPackageLevelBoosts(fs)
  IN  IF boosted # fs THEN FlooredAt50(boosted, I \cup {Len(boosted)})
      ELSE IF Cardinality(CriticalPkgTypes(fs, I)) >= 2
           THEN Most(FlooredAt50(fs, I), 75)
           ELSE FlooredAt50(fs, I)

\* The best file counts in full, every other one with a MEDIUM finding for a
\* quarter, up to 25 points.
fileScore(fs, file) == computeGroupScore(fs, InFile(fs, file))
FilesOf(fs) == {fs[i].file : i \in FileFindings(fs)}
maxFileScore(fs) ==
  IF FilesOf(fs) = {} THEN 0
  ELSE Max({fileScore(fs, file) : file \in FilesOf(fs)})
crossFileBonus(fs) ==
  LET eligible == {file \in FilesOf(fs) : Notable(fs, InFile(fs, file))}
      Quarter(s) == (s + 3) \div 4
      best == Max({fileScore(fs, file) : file \in eligible})
  IN  IF eligible = {} THEN 0
      ELSE Least(25, MapThenSumSet(LAMBDA file : Quarter(fileScore(fs, file)), eligible)
                     - Quarter(best))

lifecycleBoost(fs) ==
  IF /\ \E i \in PackageFindings(fs) : fs[i].type = "lifecycle_script" /\ fs[i].sev # LOW
     /\ Notable(fs, FileFindings(fs))
  THEN 10 ELSE 0

degradedScore(fs) ==
  Least(15, MapThenSumSet(LAMBDA i : SEVERITY_WEIGHTS[fs[i].sev],
                          {i \in DOMAIN fs : Degraded(fs[i])}))

hasStagedC2(fs) ==
  /\ "staged_payload" \in Types(fs)
  /\ \E i \in DOMAIN fs : fs[i].type = "suspicious_domain" /\ fs[i].sev = HIGH

\* What exempts a package from the ceiling of 35.
AboveCeiling(fs) ==
  \/ Types(fs) \cap {"lifecycle_script", "lifecycle_file_exec",
                     "lifecycle_shell_pipe", "lifecycle_remote_fetch"} # {}
  \/ Types(fs) \cap (HIGH_CONFIDENCE_MALICE_TYPES \cup PYPI_IMPORT_TIME_RCE_TYPES) # {}
  \/ \E i \in DOMAIN fs : fs[i].compound
  \/ hasStagedC2(fs)
  \/ \E i \in DOMAIN fs :
       fs[i].type = "ioc_string_match" /\ fs[i].sev = CRITICAL /\ ~fs[i].lone

\* The score of findings fs with an intent score of intent points.
calculateRiskScore(fs, intent) ==
  LET sum == maxFileScore(fs) + crossFileBonus(fs) + Least(intent, 30)
               + packageScore(fs) + lifecycleBoost(fs) + degradedScore(fs)
  IN  IF AboveCeiling(fs) THEN Capped(sum)
      ELSE Least(Capped(sum), 35)

=============================================================================
