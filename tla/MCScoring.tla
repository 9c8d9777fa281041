------------------------------ MODULE MCScoring ------------------------------
(***************************************************************************)
(* The rows of the code's tables for the types that occur, and packages of *)
(* up to two groups of findings as the scanners report them.               *)
(***************************************************************************)
EXTENDS Scoring

F(type, sev, file) == [type |-> type, sev |-> sev, file |-> file, note |-> "", ioc |-> <<>>]
Noted(f, note) == [f EXCEPT !.note = note]
String(family, evidence, file) ==
  [F("ioc_string_match", CRITICAL, file) EXCEPT !.ioc = <<family, evidence>>]
Times(n, f) == [i \in 1..n |-> f]

Hook == F("lifecycle_script", MEDIUM, Manifest)

Groups == <<
  <<Hook>>,
  <<Noted(Hook, "benign")>>,
  Times(3, F("credential_regex_harvest", HIGH, "a.js")),
  <<F("suspicious_dataflow", MEDIUM, "a.js")>> \o Times(3, F("suspicious_dataflow", HIGH, "b.js")),
  Times(4, F("dangerous_call_eval", HIGH, "b.js")),
  Times(2, F("dangerous_call_eval", HIGH, "dist/c.js"))
    \o <<Noted(F("env_access", MEDIUM, "dist/c.js"), "sensitive"), F("dangerous_exec", CRITICAL, "dist/c.js")>>,
  <<F("dangerous_exec", CRITICAL, "a.js")>>,
  <<F("known_malicious_hash", CRITICAL, "dist/c.js")>>,
  <<String("x", 1, "a.js")>>,
  <<String("x", 2, "b.js"), String("y", 3, "b.js")>>,
  <<F("lifecycle_shell_pipe", CRITICAL, Manifest)>>,
  <<F("curl_env_exfil", CRITICAL, Manifest)>>,
  <<F("obfuscation_detected", HIGH, "a.js"), F("env_access", HIGH, "a.js")>>,
  Times(5, F("env_access", HIGH, "a.js")),
  <<F("typosquat_detected", HIGH, Manifest)>>,
  <<F("dangerous_call_eval", MEDIUM, "lib/x/y/d.js"), F("js_obfuscation_pattern", HIGH, "lib/x/y/d.js")>>,
  <<F("staged_payload", HIGH, "a.js"), F("suspicious_domain", HIGH, "b.js")>>,
  Times(5, F("dynamic_require", HIGH, "b.js")) \o <<Noted(F("dynamic_require", HIGH, "b.js"), "dangerous")>>,
  <<F("linux_fingerprint_exec", MEDIUM, "a.js"), F("direct_ip_exfil", HIGH, "b.js")>>,
  <<F("detached_process", HIGH, "a.js"), F("js_obfuscation_pattern", HIGH, "a.js")>>,
  <<Noted(F("remote_code_load", HIGH, "a.js"), "degraded"), F("known_malicious_package", CRITICAL, Manifest)>>
>>

MCPackages ==
  {Groups[g] : g \in DOMAIN Groups}
    \cup UNION {{Groups[g] \o Groups[h] : h \in g..Len(Groups)} : g \in DOMAIN Groups}

MCFiles == {Manifest, "a.js", "b.js", "dist/c.js", "lib/x/y/d.js"}
MCGraphs == {{}, {"a.js", "b.js"}, {"a.js"}, {"index.js"}}
MCScopes == {[run |-> {}, imports |-> {}], [run |-> {"a.js"}, imports |-> {"b.js"}]}
MCBundled == {"dist/c.js"}
MCDeep == {"lib/x/y/d.js"}
MCLinked == {<<"a.js", "b.js">>}

Known == [Unknown EXCEPT !.known = TRUE, !.latest = TRUE]
MCProfiles ==
  {Unknown,
   [Known EXCEPT !.mature = TRUE, !.shift = -95, !.attested = TRUE],
   [Known EXCEPT !.shift = 65],
   [Known EXCEPT !.latest = FALSE, !.prerelease = TRUE, !.shift = -50]}
MCHistories == {{}, {"suspicious_dataflow", "dangerous_exec", "env_access", "ioc_string_match",
                     "lifecycle_script", "lifecycle_shell_pipe", "curl_env_exfil"}
                    \X {"a.js", "package.json"}}
MCIntents ==
  {[findings |-> <<>>, score |-> 0],
   [findings |-> <<F("intent_credential_exfil", CRITICAL, "b.js")>>, score |-> 45]}
MCCapSets ==
  {[max |-> 100, scopedTyposquat |-> FALSE], [max |-> 30, scopedTyposquat |-> FALSE],
   [max |-> 20, scopedTyposquat |-> TRUE]}

AllTypes ==
  UNION {Types(Groups[g]) : g \in DOMAIN Groups}
    \cup {c.type : c \in ToSet(Compounds)}
    \cup {"lifecycle_file_exec", "detached_credential_exfil", "intent_credential_exfil",
           "deep_suspicious_file"}
MCConfidence ==
  [t \in AllTypes |->
     IF t \in {"lifecycle_script", "obfuscation_detected"} THEN 85
     ELSE IF t = "deep_suspicious_file" THEN 60 ELSE 100]

Rule(max, from, floor, anyShare) ==
  [max |-> max, from |-> from, floor |-> floor, anyShare |-> anyShare]
MCCountRules ==
  [dynamic_require |-> Rule(10, {HIGH}, FALSE, TRUE),
   suspicious_dataflow |-> Rule(3, Severity, TRUE, TRUE),
   obfuscation_detected |-> Rule(3, Severity, FALSE, FALSE),
   credential_regex_harvest |-> Rule(2, Severity, TRUE, TRUE),
   dangerous_call_eval |-> Rule(3, Severity, FALSE, TRUE),
   env_access |-> Rule(4, {HIGH}, FALSE, TRUE),
   js_obfuscation_pattern |-> Rule(1, {HIGH}, TRUE, FALSE),
   staged_payload |-> Rule(3, Severity, FALSE, FALSE)]
MCSoften ==
  [lifecycle_script |-> [from |-> MEDIUM, to |-> LOW],
   typosquat_detected |-> [from |-> HIGH, to |-> MEDIUM]]
MCExpected == [env_access |-> [from |-> HIGH, to |-> MEDIUM]]

Co(type, requires, severity, fileFrom) ==
  [type |-> type, requires |-> requires, severity |-> severity, fileFrom |-> fileFrom,
   high |-> FALSE, unbundled |-> FALSE, scoped |-> FALSE, together |-> {}, linked |-> FALSE]
MCCompounds == <<
  Co("lifecycle_typosquat", {"lifecycle_script", "typosquat_detected"}, CRITICAL, "typosquat_detected"),
  [Co("lifecycle_dataflow", {"lifecycle_script", "suspicious_dataflow"}, HIGH, "suspicious_dataflow")
     EXCEPT !.unbundled = TRUE, !.scoped = TRUE],
  [Co("lifecycle_dangerous_exec", {"lifecycle_script", "dangerous_exec"}, CRITICAL, "dangerous_exec")
     EXCEPT !.scoped = TRUE],
  [Co("obfuscated_lifecycle_env", {"obfuscation_detected", "env_access", "lifecycle_script"}, HIGH, "env_access")
     EXCEPT !.together = {"obfuscation_detected", "env_access"}, !.high = TRUE, !.unbundled = TRUE],
  Co("lifecycle_env_exfil", {"lifecycle_script", "curl_env_exfil"}, CRITICAL, "curl_env_exfil"),
  [Co("recon_exfil_direct_ip", {"linux_fingerprint_exec", "direct_ip_exfil"}, CRITICAL, "direct_ip_exfil")
     EXCEPT !.together = {"linux_fingerprint_exec", "direct_ip_exfil"}, !.linked = TRUE]
>>

MCPackageLevel ==
  {"lifecycle_script", "lifecycle_shell_pipe", "known_malicious_package", "typosquat_detected",
   "lifecycle_typosquat", "lifecycle_dataflow", "lifecycle_dangerous_exec",
   "obfuscated_lifecycle_env", "lifecycle_env_exfil", "curl_env_exfil", "deep_suspicious_file"}
MCHighConfidence ==
  {"lifecycle_shell_pipe", "curl_env_exfil", "intent_credential_exfil", "detached_credential_exfil"}
MCDistExempt ==
  {"known_malicious_package", "ioc_string_match", "lifecycle_script", "lifecycle_shell_pipe",
   "curl_env_exfil", "dangerous_exec", "lifecycle_typosquat", "lifecycle_file_exec",
   "lifecycle_dataflow", "lifecycle_dangerous_exec", "obfuscated_lifecycle_env"}
MCDistArtifacts ==
  {"dangerous_call_eval", "dynamic_require", "obfuscation_detected", "js_obfuscation_pattern",
   "env_access", "remote_code_load", "staged_payload"}
MCReachExempt ==
  {"known_malicious_package", "ioc_string_match", "lifecycle_script", "lifecycle_shell_pipe",
   "typosquat_detected", "detached_credential_exfil"}
MCVeto == {"known_malicious_package", "detached_credential_exfil"}
MCSinks == {"suspicious_domain", "direct_ip_exfil", "ioc_string_match", "known_malicious_package",
            "curl_env_exfil", "intent_credential_exfil", "detached_credential_exfil"}
MCGuard == {"obfuscation_detected", "dynamic_require", "dangerous_call_eval", "staged_payload", "env_access"}
MCIocs == {"ioc_string_match", "known_malicious_hash", "known_malicious_package"}
MCCorroboration == MCHighConfidence \cup {"known_malicious_hash", "known_malicious_package"}
MCSingleFire == {"known_malicious_hash", "known_malicious_package", "lifecycle_shell_pipe", "ioc_string_match"}

=============================================================================
