------------------------- MODULE EvidenceAnalytics -------------------------
(***************************************************************************)
(* The endpoint analytics pipeline (windows_network_toolkit): an evidence   *)
(* snapshot is normalised, classified as an incident, put through the       *)
(* control tests and scored.  All of it is a pure function of the snapshot. *)
(*                                                                          *)
(* A snapshot f carries at most one proxy state, listener, probe and change *)
(* record, all of one endpoint:                                             *)
(*   state   whether there is a proxy state: enabled, winhttpDirect, port   *)
(*   owner   whether there is a listener record: found, name, writer        *)
(*   health  whether there is a probe: status, direct, proxy, external      *)
(*   change  whether there is a change record: reverter, suspected          *)
(*   bad     an evidence_events row no EvidenceEvent can be built from      *)
(*   host, ts  the endpoint id and the time stamp the records carry         *)
(* Fractions are integers: confidence and likelihood base in hundredths,    *)
(* likelihood in 1/400, the risk score in tenths.                           *)
(***************************************************************************)
EXTENDS Integers

Tri == {"yes", "no", "none"}

Yes(present, b) == IF ~present THEN "none" ELSE IF b THEN "yes" ELSE "no"

ProxyStatuses == {"none", "DIRECT_ONLY_WORKS", "LISTENER_NOT_PROXY", "PROXY_FORWARDING_FAILED",
                  "BOTH_DIRECT_AND_PROXY_WORK", "HEALTHY_LOCALHOST_PROXY", "PROXY_ONLY_WORKS",
                  "DEAD_LOCALHOST_PROXY", "BOTH_DIRECT_AND_PROXY_FAIL", "NO_PROXY"}

Reverters == {"none", "NONE", "REVERTER_SUSPECTED", "PROXY_FLAPPING",
              "REPEATED_LOCALHOST_PROXY_PORTS", "STALE_PROXY_AFTER_PROCESS_EXIT"}

Snapshot(Hosts, Times) ==
  [state : BOOLEAN, enabled : BOOLEAN, winhttpDirect : BOOLEAN, port : BOOLEAN,
   owner : BOOLEAN, found : BOOLEAN, name : {"none", "dev", "other"}, writer : BOOLEAN,
   health : BOOLEAN, status : ProxyStatuses, direct : Tri, proxy : Tri, external : Tri,
   change : BOOLEAN, reverter : Reverters, suspected : BOOLEAN,
   bad : BOOLEAN, host : Hosts, ts : Times]

\* normalize_events_from_fixture: what the classifier reads of the normalised events.
NoEvents(f) == ~f.state /\ ~f.owner /\ ~f.health /\ ~f.change

enabled(f) == Yes(f.state, f.enabled)
winhttp_mismatch(f) == f.state /\ f.enabled /\ f.winhttpDirect
listener_found(f) == Yes(f.owner, f.found)
listener_name(f) == IF f.owner THEN f.name ELSE "none"
has_writer_proof(f) == f.owner /\ f.writer
proxy_status(f) == IF f.health THEN f.status ELSE "none"
direct_ok(f) == IF f.health THEN f.direct ELSE "none"

\* proxy_probe_ok or external_probe_ok: a failed probe counts as "not probed" when the
\* snapshot says nothing of the external probe.
proxy_ok(f) == IF ~f.health THEN "none" ELSE IF f.proxy = "yes" THEN "yes" ELSE f.external

reverter_status(f) == IF f.change THEN f.reverter ELSE "none"
reverter_suspected(f) == f.change /\ f.suspected

------------------------------------------------------------------------------
\* classify_incident_from_events

Verdict(class, risk, confidence) == [class |-> class, risk |-> risk, confidence |-> confidence]

ClassifyReverter(f) ==
  Verdict(IF reverter_status(f) \in {"PROXY_FLAPPING", "REPEATED_LOCALHOST_PROXY_PORTS"}
            THEN "PROXY_FLAPPING" ELSE "REVERTER_SUSPECTED", "HIGH", 80)

IsReverter(f) == \/ reverter_suspected(f)
                 \/ reverter_status(f) \in {"REVERTER_SUSPECTED", "PROXY_FLAPPING",
                                            "REPEATED_LOCALHOST_PROXY_PORTS"}

ClassifyListener(f) ==
  IF enabled(f) = "yes" /\ listener_found(f) = "yes" /\ proxy_ok(f) = "none"
    THEN Verdict("LOCAL_PROXY_ACTIVE", "MEDIUM", 65)
  ELSE IF enabled(f) = "yes" /\ listener_found(f) = "yes"
    THEN Verdict("LOCAL_PROXY_ACTIVE", "MEDIUM", 70)
  ELSE IF enabled(f) = "yes" THEN Verdict("UNKNOWN_LOCAL_PROXY", "HIGH", 55)
  ELSE Verdict("INSUFFICIENT_DATA", "UNKNOWN", 45)

ClassifyPath(f) ==
  IF \/ proxy_status(f) = "DIRECT_ONLY_WORKS"
     \/ direct_ok(f) = "yes" /\ proxy_ok(f) = "no" /\ enabled(f) = "yes"
    THEN Verdict("DIRECT_ONLY_WORKS", "HIGH", 90)
  ELSE IF proxy_status(f) = "LISTENER_NOT_PROXY" THEN Verdict("LISTENER_NOT_PROXY", "HIGH", 88)
  ELSE IF proxy_status(f) = "PROXY_FORWARDING_FAILED"
    THEN Verdict("PROXY_FORWARDING_FAILED", "HIGH", 86)
  ELSE IF proxy_status(f) \in {"BOTH_DIRECT_AND_PROXY_WORK", "HEALTHY_LOCALHOST_PROXY"}
    THEN Verdict("BOTH_DIRECT_AND_PROXY_WORK", "LOW", 75)
  ELSE IF \/ proxy_status(f) = "PROXY_ONLY_WORKS"
          \/ proxy_ok(f) = "yes" /\ direct_ok(f) = "no"
    THEN Verdict("PROXY_ONLY_WORKS", "MEDIUM", 72)
  ELSE IF direct_ok(f) = "no" /\ proxy_ok(f) = "no"
    THEN Verdict("BOTH_DIRECT_AND_PROXY_FAIL", "HIGH", 78)
  ELSE ClassifyListener(f)

ClassifyEvents(f) ==
  IF IsReverter(f) THEN ClassifyReverter(f)
  ELSE IF enabled(f) = "no" /\ direct_ok(f) = "yes" THEN Verdict("NO_PROXY_DIRECT_OK", "LOW", 85)
  ELSE IF enabled(f) = "no" /\ direct_ok(f) = "no"
    THEN Verdict("BOTH_DIRECT_AND_PROXY_FAIL", "HIGH", 70)
  ELSE IF enabled(f) = "yes" /\ listener_found(f) = "no"
    THEN Verdict("DEAD_PROXY_CONFIG", "HIGH", 92)
  ELSE ClassifyPath(f)

\* A development runtime listening makes the verdict MEDIUM.
DevTrusted(f, v) ==
  IF /\ listener_name(f) = "dev"
     /\ v.class \in {"LOCAL_PROXY_ACTIVE", "BOTH_DIRECT_AND_PROXY_WORK", "UNKNOWN_LOCAL_PROXY"}
    THEN Verdict(v.class, "MEDIUM", v.confidence) ELSE v

Mismatch(f, v) ==
  IF winhttp_mismatch(f) /\ v.class \notin {"REVERTER_SUSPECTED", "PROXY_FLAPPING",
                                            "DEAD_PROXY_CONFIG"}
    THEN Verdict("WININET_WINHTTP_MISMATCH",
                 IF v.risk \in {"LOW", "UNKNOWN"} THEN "MEDIUM" ELSE v.risk,
                 IF v.confidence < 72 THEN 72 ELSE v.confidence)
    ELSE v

Stale(f, v) == IF reverter_status(f) = "STALE_PROXY_AFTER_PROCESS_EXIT"
                 THEN Verdict("STALE_PROXY_AFTER_PROCESS_EXIT", "HIGH", v.confidence) ELSE v

classify_incident_from_events(f) == Stale(f, Mismatch(f, DevTrusted(f, ClassifyEvents(f))))

\* make_incident_id: nothing of the evidence row goes into it.
make_incident_id(f) == <<f.ts, classify_incident_from_events(f).class, f.host>>

------------------------------------------------------------------------------
\* map_control_tests_from_incident: the six control tests, as the incident class refines them

StateEnabled(f) == f.state /\ f.enabled

test_localhost_proxy_health(f, class) ==
  IF class = "DEAD_PROXY_CONFIG" THEN "FAIL"
  ELSE IF class \in {"BOTH_DIRECT_AND_PROXY_WORK", "LOCAL_PROXY_ACTIVE", "PROXY_ONLY_WORKS"}
    THEN "PASS"
  ELSE IF ~StateEnabled(f) \/ ~f.health \/ ~f.port THEN "NOT_TESTED"
  ELSE IF f.status \in {"HEALTHY_LOCALHOST_PROXY", "BOTH_DIRECT_AND_PROXY_WORK",
                        "PROXY_ONLY_WORKS"} THEN "PASS"
  ELSE IF f.status \in {"DEAD_LOCALHOST_PROXY", "DIRECT_ONLY_WORKS", "LISTENER_NOT_PROXY",
                        "PROXY_FORWARDING_FAILED", "BOTH_DIRECT_AND_PROXY_FAIL"} THEN "FAIL"
  ELSE "PARTIAL"

test_proxy_owner(f, class) ==
  IF class \in {"LOCAL_PROXY_ACTIVE", "UNKNOWN_LOCAL_PROXY", "BOTH_DIRECT_AND_PROXY_WORK"}
    THEN IF has_writer_proof(f) THEN "PASS" ELSE "PARTIAL"
  ELSE IF ~StateEnabled(f) THEN "NOT_TESTED"
  ELSE IF f.owner /\ (f.name # "none" \/ f.found) THEN "PARTIAL"
  ELSE "FAIL"

test_reverter_detection(class) ==
  IF class \in {"REVERTER_SUSPECTED", "PROXY_FLAPPING", "STALE_PROXY_AFTER_PROCESS_EXIT"}
    THEN "FAIL" ELSE "PASS"

\* The refinement replaces whatever the comparison of the two paths answered.
test_direct_vs_proxy(f, class) ==
  IF ~f.health THEN "NOT_TESTED"
  ELSE IF class \in {"DIRECT_ONLY_WORKS", "BOTH_DIRECT_AND_PROXY_FAIL"} THEN "FAIL"
  ELSE IF class \in {"BOTH_DIRECT_AND_PROXY_WORK", "PROXY_ONLY_WORKS"} THEN "PASS"
  ELSE "PARTIAL"

test_wininet_winhttp_alignment(f, class) ==
  IF class = "WININET_WINHTTP_MISMATCH" \/ (StateEnabled(f) /\ f.winhttpDirect)
    THEN "FAIL" ELSE "PASS"

\* "PASS" is SAFE_REMEDIATION_POLICY.
ControlResults(f, class) ==
  {test_localhost_proxy_health(f, class), test_proxy_owner(f, class),
   test_reverter_detection(class), test_direct_vs_proxy(f, class), "PASS",
   test_wininet_winhttp_alignment(f, class)}

\* Mutant: a partial result outweighs a failure.
aggregate_control_result_PartialFirst(results) ==
  IF "PARTIAL" \in results THEN "PARTIAL"
  ELSE IF "FAIL" \in results THEN "FAIL"
  ELSE IF "NOT_TESTED" \in results THEN "NOT_TESTED"
  ELSE IF "PASS" \in results THEN "PASS"
  ELSE "NOT_TESTED"

aggregate_control_result(results) ==
  IF "FAIL" \in results THEN "FAIL"
  ELSE IF "PARTIAL" \in results THEN "PARTIAL"
  ELSE IF "NOT_TESTED" \in results THEN "NOT_TESTED"
  ELSE IF "PASS" \in results THEN "PASS"
  ELSE "NOT_TESTED"

------------------------------------------------------------------------------
\* risk_scoring_engine

HIGH_CLASSES == {"REVERTER_SUSPECTED", "PROXY_FLAPPING", "POSSIBLE_MITM_RISK",
                 "BOTH_DIRECT_AND_PROXY_FAIL", "DEAD_PROXY_CONFIG"}
MEDIUM_CLASSES == {"LOCAL_PROXY_ACTIVE", "UNKNOWN_LOCAL_PROXY", "WININET_WINHTTP_MISMATCH",
                   "DIRECT_ONLY_WORKS", "STALE_PROXY_AFTER_PROCESS_EXIT"}

class_likelihood_base(class) ==
  IF class \in HIGH_CLASSES THEN 75
  ELSE IF class \in MEDIUM_CLASSES THEN 50
  ELSE IF class \in {"NO_PROXY", "BOTH_DIRECT_AND_PROXY_WORK", "PROXY_ONLY_WORKS"} THEN 20
  ELSE 35

\* Likelihoods are in 1/400, so that every weight of the sum is an integer.
CONTROL_MODIFIER(result) == IF result = "PASS" THEN -60
                            ELSE IF result = "PARTIAL" THEN 20
                            ELSE IF result = "FAIL" THEN 100
                            ELSE 40

Least(a, b) == IF a < b THEN a ELSE b

\* The class weighs 0.45, the confidence 0.25 and the proof 0.20.  The control rows carry no
\* evidence tier, so the proof weight is that of T1 (0.35), and the pipeline counts no recurrence.
likelihood_raw(v, result) ==
  Least(400, (class_likelihood_base(v.class) * 9) \div 5 + v.confidence + 28
             + CONTROL_MODIFIER(result))

\* In 1/40 of a point.  The business impact weighs 4.0 for a HIGH verdict and 2.5 otherwise.
risk_score(v, result) == likelihood_raw(v, result) * (IF v.risk = "HIGH" THEN 8 ELSE 5)

\* In tenths of a point, as the score is rounded.
Rounded(score) == Least(1000, (score + 2) \div 4)

score_to_level(score) == IF score >= 700 THEN "HIGH" ELSE IF score >= 400 THEN "MEDIUM" ELSE "LOW"

score_risk_from_incident(v, result) ==
  LET score == Rounded(risk_score(v, result))
      level == score_to_level(score)
  IN  [score |-> score, level |-> level, review |-> level = "HIGH" \/ result = "FAIL"]

------------------------------------------------------------------------------
\* run_endpoint_analytics_pipeline: it raises, finds no incident, or yields one

run_endpoint_analytics_pipeline(f) ==
  LET v == classify_incident_from_events(f)
      result == aggregate_control_result(ControlResults(f, v.class))
  IN  [outcome |-> IF f.bad THEN "raises" ELSE IF NoEvents(f) THEN "nothing" ELSE "incident",
       id |-> make_incident_id(f), verdict |-> v, controls |-> result,
       score |-> score_risk_from_incident(v, result)]
------------------------------------------------------------------------------
\* What the classifier, the control tests and the scoring promise of each other

Broken == {"DEAD_PROXY_CONFIG", "DIRECT_ONLY_WORKS", "BOTH_DIRECT_AND_PROXY_FAIL",
           "REVERTER_SUSPECTED", "PROXY_FLAPPING", "WININET_WINHTTP_MISMATCH",
           "STALE_PROXY_AFTER_PROCESS_EXIT"}

\* A class that says the proxy path is broken or being rewritten fails one of the controls it
\* is tested by, so the scoring recommends a human review however low the score.
BrokenIsReviewed(f) == LET p == run_endpoint_analytics_pipeline(f)
                       IN  p.verdict.class \in Broken => p.controls = "FAIL" /\ p.score.review

\* No control fails for an incident the classifier calls LOW.
LowHasNoFailure(f) == LET p == run_endpoint_analytics_pipeline(f)
                      IN  p.verdict.risk = "LOW" => p.controls # "FAIL"

\* The scores stay within 0..100, and only DEAD_PROXY_CONFIG reaches the HIGH band: no
\* reverter, whatever the evidence, is scored higher than MEDIUM.
OnlyDeadScoresHigh(f) ==
  LET p == run_endpoint_analytics_pipeline(f)
  IN  /\ p.score.score \in 0..1000
      /\ p.score.level = "HIGH" => p.verdict.class = "DEAD_PROXY_CONFIG"
=============================================================================
