---------------------- MODULE EvidencePipelineProofs -----------------------
(***************************************************************************)
(* Proofs about the evidence pipeline.  First what the classifier, the      *)
(* control tests and the risk scoring promise of each other, for every      *)
(* snapshot; then what one step of the pipeline keeps; then that it keeps   *)
(* one whole, recorded incident per evidence event, for every set of        *)
(* requests, bodies and workers and any number of faults.                   *)
(***************************************************************************)
EXTENDS EvidencePipeline, SequenceTheorems, FiniteSetTheorems, TLAPS

(* The analytics.                                                           *)
Rewritten == {"REVERTER_SUSPECTED", "PROXY_FLAPPING", "BOTH_DIRECT_AND_PROXY_FAIL"}

Classes == Rewritten \union
  {"NO_PROXY_DIRECT_OK", "DEAD_PROXY_CONFIG", "DIRECT_ONLY_WORKS", "LISTENER_NOT_PROXY",
   "PROXY_FORWARDING_FAILED", "BOTH_DIRECT_AND_PROXY_WORK", "PROXY_ONLY_WORKS",
   "LOCAL_PROXY_ACTIVE", "UNKNOWN_LOCAL_PROXY", "INSUFFICIENT_DATA",
   "WININET_WINHTTP_MISMATCH", "STALE_PROXY_AFTER_PROCESS_EXIT"}

\* The range of a verdict.
Graded(v) == /\ v.class \in Classes
             /\ v.risk \in {"LOW", "MEDIUM", "HIGH", "UNKNOWN"}
             /\ v.confidence \in 45..92
             /\ v.class \in Rewritten => v.confidence <= 80

\* What a verdict says of the snapshot it was made from.
Grounded(f, v) ==
  /\ v.class \in {"DIRECT_ONLY_WORKS", "BOTH_DIRECT_AND_PROXY_FAIL"} => f.health
  /\ v.risk = "LOW" => v.class \in {"NO_PROXY_DIRECT_OK", "BOTH_DIRECT_AND_PROXY_WORK"}
  /\ v.class = "NO_PROXY_DIRECT_OK" => ~StateEnabled(f)

\* The three fields of a verdict are the ones it was built from.
LEMMA VerdictFields ==
  ASSUME NEW class, NEW risk, NEW confidence
  PROVE  /\ Verdict(class, risk, confidence).class = class
         /\ Verdict(class, risk, confidence).risk = risk
         /\ Verdict(class, risk, confidence).confidence = confidence
BY Zenon DEF Verdict

\* The listener branch of the classifier stays in range.
LEMMA ListenerVerdict ==
  ASSUME NEW f
  PROVE  Graded(ClassifyListener(f)) /\ Grounded(f, ClassifyListener(f))
BY DEF ClassifyListener, Verdict, Graded, Grounded, Classes, Rewritten

\* A verdict about the two paths rests on a probe.
LEMMA PathVerdict ==
  ASSUME NEW f
  PROVE  Graded(ClassifyPath(f)) /\ Grounded(f, ClassifyPath(f))
<1>1. proxy_status(f) # "none" \/ direct_ok(f) # "none" => f.health
  BY Zenon DEF proxy_status, direct_ok
<1> QED
  BY <1>1, ListenerVerdict DEF ClassifyPath, Verdict, Graded, Grounded, Classes, Rewritten

\* So does every verdict of the chain of tests on the events.
LEMMA EventsVerdict ==
  ASSUME NEW f
  PROVE  Graded(ClassifyEvents(f)) /\ Grounded(f, ClassifyEvents(f))
<1>1. direct_ok(f) # "none" => f.health
  BY Zenon DEF direct_ok
<1>2. enabled(f) = "no" => ~StateEnabled(f)
  BY Zenon DEF enabled, Yes, StateEnabled
<1>3. Graded(ClassifyReverter(f)) /\ Grounded(f, ClassifyReverter(f))
  BY DEF ClassifyReverter, Verdict, Graded, Grounded, Classes, Rewritten
<1> QED
  BY <1>1, <1>2, <1>3, PathVerdict
     DEF ClassifyEvents, Verdict, Graded, Grounded, Classes, Rewritten

\* The three corrections of the verdict keep its range and what it says of the snapshot; a
\* LOW verdict that leaves them is none of a snapshot whose two proxy settings disagree.
LEMMA IncidentVerdict ==
  ASSUME NEW f
  PROVE  LET v == classify_incident_from_events(f)
         IN  /\ Graded(v) /\ Grounded(f, v)
             /\ v.risk = "LOW" => ~winhttp_mismatch(f)
<1> DEFINE d == DevTrusted(f, ClassifyEvents(f))
<1> DEFINE m == Mismatch(f, d)
<1>1. Graded(d) /\ Grounded(f, d)
  BY Zenon, EventsVerdict DEF DevTrusted, Verdict, Graded, Grounded, Classes, Rewritten
<1> HIDE DEF d
<1>2. Graded(m) /\ Grounded(f, m)
  BY <1>1 DEF Mismatch, Verdict, Graded, Grounded, Classes, Rewritten
<1>3. m.risk = "LOW" => ~winhttp_mismatch(f)
  BY Zenon, <1>1 DEF Mismatch, Verdict, Grounded
<1> HIDE DEF m
<1>4. Graded(Stale(f, m)) /\ Grounded(f, Stale(f, m))
        /\ (Stale(f, m).risk = "LOW" => ~winhttp_mismatch(f))
  BY Zenon, <1>2, <1>3 DEF Stale, Verdict, Graded, Grounded, Classes, Rewritten
<1> QED
  BY Zenon, <1>4 DEF classify_incident_from_events, m, d

\* The aggregate is FAIL exactly when a control failed.
LEMMA AggregateFails ==
  ASSUME NEW results
  PROVE  aggregate_control_result(results) = "FAIL" <=> "FAIL" \in results
BY Zenon DEF aggregate_control_result

\* An incident whose class says that the proxy path is broken or being rewritten fails one of
\* its control tests, so score_risk_from_incident recommends a human review.
THEOREM BrokenReviewed == \A f : BrokenIsReviewed(f)
<1> SUFFICES ASSUME NEW f
             PROVE  BrokenIsReviewed(f)
  BY Zenon
<1> DEFINE v == classify_incident_from_events(f)
<1> DEFINE result == aggregate_control_result(ControlResults(f, v.class))
<1>1. v.class \in {"DIRECT_ONLY_WORKS", "BOTH_DIRECT_AND_PROXY_FAIL"} => f.health
  BY Zenon, IncidentVerdict DEF Grounded
<1> HIDE DEF v
<1>2. v.class \in Broken => "FAIL" \in ControlResults(f, v.class)
  BY Zenon, <1>1 DEF Broken, ControlResults, test_localhost_proxy_health, test_reverter_detection,
              test_direct_vs_proxy, test_wininet_winhttp_alignment
<1>3. v.class \in Broken => result = "FAIL"
  BY Zenon, <1>2, AggregateFails
<1> HIDE DEF result
<1>4. v.class \in Broken => score_risk_from_incident(v, result).review
  BY ZenonT(40), <1>3 DEF score_risk_from_incident
<1> QED
  BY Zenon, <1>3, <1>4 DEF BrokenIsReviewed, run_endpoint_analytics_pipeline, v, result

\* No control test fails for an incident that classify_incident_from_events calls LOW.
THEOREM LowPasses == \A f : LowHasNoFailure(f)
<1> SUFFICES ASSUME NEW f
             PROVE  LowHasNoFailure(f)
  BY Zenon
<1> DEFINE v == classify_incident_from_events(f)
<1> DEFINE result == aggregate_control_result(ControlResults(f, v.class))
<1>1. v.risk = "LOW" => /\ v.class \in {"NO_PROXY_DIRECT_OK", "BOTH_DIRECT_AND_PROXY_WORK"}
                        /\ v.class = "NO_PROXY_DIRECT_OK" => ~StateEnabled(f)
                        /\ ~winhttp_mismatch(f)
  BY Zenon, IncidentVerdict DEF Grounded
<1> HIDE DEF v
<1>2. ~winhttp_mismatch(f) => ~(StateEnabled(f) /\ f.winhttpDirect)
  BY Zenon DEF winhttp_mismatch, StateEnabled
<1>3. ASSUME v.risk = "LOW" PROVE "FAIL" \notin ControlResults(f, v.class)
  BY Zenon, <1>1, <1>2, <1>3
     DEF ControlResults, test_localhost_proxy_health, test_proxy_owner,
         test_reverter_detection, test_direct_vs_proxy, test_wininet_winhttp_alignment
<1>4. v.risk = "LOW" => result # "FAIL"
  BY Zenon, <1>3, AggregateFails
<1> QED
  BY Zenon, <1>4 DEF LowHasNoFailure, run_endpoint_analytics_pipeline, v, result

\* The risk score of an incident stays within 0.0 and 100.0, and score_risk reaches its HIGH
\* band for DEAD_PROXY_CONFIG only.
THEOREM DeadAloneScoresHigh == \A f : OnlyDeadScoresHigh(f)
<1> SUFFICES ASSUME NEW f
             PROVE  OnlyDeadScoresHigh(f)
  BY Zenon
<1> DEFINE v == classify_incident_from_events(f)
<1> DEFINE result == aggregate_control_result(ControlResults(f, v.class))
<1>1. Graded(v)
  BY Zenon, IncidentVerdict
<1>2. result \in {"PASS", "PARTIAL", "FAIL", "NOT_TESTED"}
  BY Zenon DEF aggregate_control_result
<1> HIDE DEF v, result
<1> DEFINE base == class_likelihood_base(v.class)
<1> DEFINE raw == likelihood_raw(v, result)
<1>3. /\ base \in {20, 35, 50, 75}
      /\ base = 75 => v.class = "DEAD_PROXY_CONFIG" \/ v.class \in Rewritten
  BY <1>1 DEF class_likelihood_base, HIGH_CLASSES, MEDIUM_CLASSES, Graded, Classes, Rewritten
<1>4. CONTROL_MODIFIER(result) \in -60..100
  BY <1>2 DEF CONTROL_MODIFIER
<1>5. v.confidence \in 45..92 /\ (v.class \in Rewritten => v.confidence <= 80)
  BY Zenon, <1>1 DEF Graded
<1> HIDE DEF base
<1> DEFINE weight == (base * 9) \div 5
<1> DEFINE modifier == CONTROL_MODIFIER(result)
<1> DEFINE confidence == v.confidence
<1>6. /\ weight \in Int /\ 36 <= weight /\ weight <= 135
      /\ base # 75 => weight <= 90
  BY <1>3
<1>7. raw = Least(400, weight + confidence + 28 + modifier)
  BY Zenon DEF likelihood_raw, base
<1>8. modifier \in Int /\ -60 <= modifier /\ modifier <= 100
  BY <1>4
<1>9. confidence \in Int /\ 45 <= confidence /\ confidence <= 92
  BY <1>5
<1>10. v.class # "DEAD_PROXY_CONFIG" => weight <= 90 \/ confidence <= 80
  BY Zenon, <1>3, <1>5, <1>6
<1> HIDE DEF weight, modifier, confidence, raw
<1>11. /\ raw \in Int /\ 1 <= raw /\ raw <= 400
       /\ v.class # "DEAD_PROXY_CONFIG" => raw <= 343
  BY <1>6, <1>7, <1>8, <1>9, <1>10 DEF Least
<1> DEFINE score == risk_score(v, result)
<1>12. /\ score \in Int /\ 1 <= score /\ score <= 3200
       /\ v.class # "DEAD_PROXY_CONFIG" => score <= 2744
  BY <1>11 DEF risk_score, raw
<1> HIDE DEF score
<1>13. Rounded(score) \in 0..1000 /\ (v.class # "DEAD_PROXY_CONFIG" => Rounded(score) <= 686)
  BY <1>12 DEF Rounded, Least
<1>14. score_to_level(Rounded(score)) = "HIGH" => v.class = "DEAD_PROXY_CONFIG"
  BY <1>13 DEF score_to_level
<1> QED
  BY ZenonT(40), <1>13, <1>14 DEF OnlyDeadScoresHigh, run_endpoint_analytics_pipeline,
                      score_risk_from_incident, v, result, score

-----------------------------------------------------------------------------
(* The steps of the pipeline.                                               *)
\* RowOf picks the row of an event that has one.
LEMMA RowIsStored ==
  ASSUME NEW event, Has(event)
  PROVE  RowOf(event) \in evidence /\ RowOf(event).event = event
BY Zenon DEF Has, RowOf

\* A request that moves on keeps its type.
LEMMA RequestMoves ==
  ASSUME TypeOK, NEW r \in Requests, NEW pc, Moves(r, pc),
         pc \in {"insert", "insertBoth", "push", "emit"}
  PROVE  req' \in [Requests -> RequestStates]
<1>1. [req[r] EXCEPT !.pc = pc] \in RequestStates
  BY Zenon DEF TypeOK, RequestStates
<1> QED
  BY Zenon, <1>1 DEF TypeOK, Moves

\* So does one that is answered,
LEMMA RequestAnswered ==
  ASSUME TypeOK, NEW r \in Requests, NEW answer, Answers(r, answer),
         answer \in {"200", "202", "403", "404", "500"}
  PROVE  req' \in [Requests -> RequestStates]
<1>1. [[req[r] EXCEPT !.pc = "done"] EXCEPT !.answer = answer] \in RequestStates
  BY Zenon DEF TypeOK, RequestStates
<1> QED
  BY Zenon, <1>1 DEF TypeOK, Answers

\* and one whose evidence row is found or inserted.
LEMMA RequestGetsRow ==
  ASSUME TypeOK, NEW r \in Requests, NEW event \in EventIds,
         req' = [req EXCEPT ![r].pc = "enqueue", ![r].event = event]
  PROVE  req' \in [Requests -> RequestStates]
<1>1. [[req[r] EXCEPT !.pc = "enqueue"] EXCEPT !.event = event] \in RequestStates
  BY Zenon DEF TypeOK, RequestStates
<1> QED
  BY Zenon, <1>1 DEF TypeOK

\* A worker that moves on keeps its type.
LEMMA WorkerMoves ==
  ASSUME TypeOK, NEW w \in Workers, NEW pc \in {"store", "events", "commit"},
         wk' = [wk EXCEPT ![w].pc = pc]
  PROVE  wk' \in [Workers -> WorkerStates]
<1>1. [wk[w] EXCEPT !.pc = pc] \in WorkerStates
  BY Zenon DEF TypeOK, WorkerStates
<1> QED
  BY Zenon, <1>1 DEF TypeOK

\* So does one whose job is over.
LEMMA WorkerEnds ==
  ASSUME TypeOK, NEW w \in Workers, Ends(w)
  PROVE  wk' \in [Workers -> WorkerStates]
<1>1. Idle \in WorkerStates
  BY Zenon DEF Idle, WorkerStates
<1> QED
  BY Zenon, <1>1 DEF TypeOK, Ends

\* store_incident_bundle takes an incident there is, of this event or of this id, and makes one
\* only when there is none.
LEMMA BundleChoice ==
  ASSUME NEW w \in Workers, store_incident_bundle(w)
  PROVE  \E new \in BOOLEAN, i \in incidents \union {Made(wk[w].job)} :
           /\ IF new THEN i = Made(wk[w].job) ELSE i \in incidents
           /\ wk' = [wk EXCEPT ![w].pc = "flush", ![w].new = new, ![w].incident = i]
<1>1. Same(wk[w].job) \subseteq incidents
  BY Zenon DEF Same
<1> QED
  BY Zenon, <1>1 DEF store_incident_bundle

\* A step of a handler, of a worker or of the environment keeps every type.
LEMMA TypeStep ==
  ASSUME TypeOK, JobsAreStored, IncidentsAreFound, [Next]_vars
  PROVE  TypeOK'
<1>1. ASSUME NEW r \in Requests, upsert_evidence(r)
      PROVE  TypeOK'
  <2>1. \A row \in Existing(req[r].body) : row.event \in EventIds
    BY Zenon DEF Existing, WithHash, WithSource, TypeOK, Rows
  <2>2. req' \in [Requests -> RequestStates]
    BY Zenon, <1>1, <2>1, RequestMoves, RequestAnswered, RequestGetsRow DEF upsert_evidence
  <2> QED
    BY Zenon, <1>1, <2>2 DEF upsert_evidence, TypeOK, tables
<1>2. ASSUME NEW r \in Requests, Insert(r)
      PROVE  TypeOK'
  <2> DEFINE b == req[r].body
  <2>1. b \in Ingests
    BY Zenon, <1>2 DEF Insert, TypeOK, RequestStates, JobsAreStored, Ingests
  <2>2. make_event_id(b) \in EventIds /\ EvidenceRow(b) \in Rows
    BY Zenon, <2>1 DEF EvidenceRow, Rows, EventIds, Ingests, Snapshots
  <2>3. req' \in [Requests -> RequestStates]
    BY Zenon, <1>2, <2>2, RequestAnswered, RequestGetsRow DEF Insert
  <2>4. evidence' \subseteq Rows
    BY Zenon, <1>2, <2>2 DEF Insert, TypeOK
  <2> QED
    BY Zenon, <1>2, <2>3, <2>4 DEF Insert, TypeOK
<1>3. ASSUME NEW r \in Requests, enqueue_classification_job(r)
      PROVE  TypeOK'
  BY Zenon, <1>3, RequestMoves DEF enqueue_classification_job, TypeOK, tables
<1>4. ASSUME NEW r \in Requests, Push(r)
      PROVE  TypeOK'
  <2>1. req[r].event \in EventIds
    BY Zenon, <1>4 DEF Push, JobsAreStored, Has, TypeOK, Rows
  <2>2. queue' \in Seq(EventIds)
    BY Zenon, <1>4, <2>1, AppendProperties DEF Push, TypeOK
  <2> QED
    BY Zenon, <1>4, <2>2, RequestMoves DEF Push, TypeOK, tables
<1>5. ASSUME NEW r \in Requests, emit_trisk_event(r)
      PROVE  TypeOK'
  BY Zenon, <1>5, RequestAnswered DEF emit_trisk_event, TypeOK, tables
<1>6. ASSUME NEW r \in Requests, post_review(r)
      PROVE  TypeOK'
  BY Zenon, <1>6, RequestMoves, RequestAnswered DEF post_review, TypeOK
<1>7. ASSUME NEW r \in Requests, RequestRaises(r)
      PROVE  TypeOK'
  BY Zenon, <1>7, RequestAnswered DEF RequestRaises, TypeOK, tables
<1>8. CASE ApiCrash
  <2>1. req' \in [Requests -> RequestStates]
    BY ZenonT(40), <1>8 DEF ApiCrash, TypeOK, RequestStates
  <2> QED
    BY Zenon, <1>8, <2>1 DEF ApiCrash, TypeOK, tables
<1>9. ASSUME NEW w \in Workers, Take(w)
      PROVE  TypeOK'
  <2>1. Head(queue) \in EventIds /\ queue' \in Seq(EventIds)
    BY Zenon, <1>9, HeadTailProperties DEF Take, TypeOK
  <2>2. wk' \in [Workers -> WorkerStates]
    BY Zenon, <1>9, <2>1 DEF Take, Idle, TypeOK, WorkerStates
  <2> QED
    BY Zenon, <1>9, <2>1, <2>2 DEF Take, TypeOK, tables
<1>10. ASSUME NEW w \in Workers, SkipClassified(w)
       PROVE  TypeOK'
  <2>1. evidence' \subseteq Rows
    BY Zenon, <1>10 DEF SkipClassified, mark_evidence_status, TypeOK, Rows
  <2> QED
    BY Zenon, <1>10, <2>1, WorkerEnds DEF SkipClassified, TypeOK
<1>11. ASSUME NEW w \in Workers, quarantine_evidence(w)
       PROVE  TypeOK'
  <2>1. evidence' \subseteq Rows
    BY Zenon, <1>11 DEF quarantine_evidence, mark_evidence_status, TypeOK, Rows
  <2> QED
    BY Zenon, <1>11, <2>1, WorkerEnds DEF quarantine_evidence, TypeOK
<1>12. ASSUME NEW w \in Workers, Classify(w)
       PROVE  TypeOK'
  BY Zenon, <1>12, WorkerMoves DEF Classify, TypeOK, tables
<1>13. ASSUME NEW w \in Workers, store_incident_bundle(w)
       PROVE  TypeOK'
  <2>1. Has(wk[w].job)
    BY Zenon, <1>13 DEF store_incident_bundle, JobsAreStored
  <2>2. Made(wk[w].job) \in Incidents
    BY <2>1, RowIsStored DEF Made, Found, Incidents, TypeOK, Rows
  <2>3. PICK new \in BOOLEAN, i \in Incidents :
          wk' = [wk EXCEPT ![w].pc = "flush", ![w].new = new, ![w].incident = i]
    BY Zenon, <1>13, <2>2, BundleChoice DEF TypeOK
  <2>4. [wk[w] EXCEPT !.pc = "flush", !.new = new, !.incident = i] \in WorkerStates
    BY Zenon DEF TypeOK, WorkerStates
  <2>5. wk' \in [Workers -> WorkerStates]
    BY Zenon, <2>3, <2>4 DEF TypeOK
  <2> QED
    BY Zenon, <1>13, <2>5 DEF store_incident_bundle, TypeOK, tables
<1>14. ASSUME NEW w \in Workers, Flush(w)
       PROVE  TypeOK'
  <2>1. Cardinality(chain) \in Nat
    BY Zenon, FS_CardinalityType DEF TypeOK
  <2>2. 0..Cardinality(chain) \subseteq Nat
    BY <2>1
  <2>3. wk' \in [Workers -> WorkerStates]
    <3>1. CASE Ends(w)
      BY Zenon, <3>1, WorkerEnds
    <3>2. ASSUME NEW n \in 0..Cardinality(chain),
                 wk' = [wk EXCEPT ![w].pc = "mirror", ![w].index = n]
          PROVE  wk' \in [Workers -> WorkerStates]
      <4>1. [wk[w] EXCEPT !.pc = "mirror", !.index = n] \in WorkerStates
        BY Zenon, <2>2 DEF TypeOK, WorkerStates
      <4> QED
        BY Zenon, <3>2, <4>1 DEF TypeOK
    <3> QED
      BY Zenon, <1>14, <3>1, <3>2 DEF Flush
  <2> QED
    BY Zenon, <1>14, <2>3 DEF Flush, TypeOK, tables
<1>15. ASSUME NEW w \in Workers, mirror_jsonl_audit(w) \/ EmitEvents(w)
       PROVE  TypeOK'
  BY Zenon, <1>15, WorkerMoves DEF mirror_jsonl_audit, EmitEvents, TypeOK, tables
<1>16. ASSUME NEW w \in Workers, Commit(w)
       PROVE  TypeOK'
  <2>1. wk[w].new => wk[w].incident \in Incidents
    BY Zenon, <1>16 DEF Commit, IncidentsAreFound, Flushed
  <2>2. evidence' \subseteq Rows
    BY Zenon, <1>16 DEF Commit, StatusFor, mark_evidence_status, TypeOK, Rows
  <2>3. IsFiniteSet(chain')
    BY Zenon, <1>16, FS_AddElement DEF Commit, TypeOK
  <2>4. incidents' \subseteq Incidents
    BY Zenon, <1>16, <2>1 DEF Commit, TypeOK
  <2> QED
    BY Zenon, <1>16, <2>2, <2>3, <2>4, WorkerEnds DEF Commit, TypeOK
<1>17. ASSUME NEW w \in Workers, JobRaises(w)
       PROVE  TypeOK'
  BY Zenon, <1>17, WorkerEnds DEF JobRaises, TypeOK, tables
<1>18. ASSUME NEW w \in Workers, WorkerDies(w)
       PROVE  TypeOK'
  <2>1. wk[w].job \in EventIds
    BY Zenon, <1>18 DEF WorkerDies, JobsAreStored, Has, TypeOK, Rows
  <2>2. queue' \in Seq(EventIds)
    BY Zenon, <1>18, <2>1, AppendProperties DEF WorkerDies, TypeOK
  <2> QED
    BY Zenon, <1>18, <2>2, WorkerEnds DEF WorkerDies, TypeOK, tables
<1>19. CASE UNCHANGED vars
  BY Zenon, <1>19 DEF vars, TypeOK
<1> QED
  BY Zenon, <1>1, <1>2, <1>3, <1>4, <1>5, <1>6, <1>7, <1>8, <1>9, <1>10, <1>11, <1>12, <1>13, <1>14,
     <1>15, <1>16, <1>17, <1>18, <1>19 DEF Next, Handle, Work

\* Marking a row changes its status only.
LEMMA MarkKeeps ==
  ASSUME TypeOK, NEW event, NEW status, mark_evidence_status(event, status)
  PROVE  /\ \A row \in evidence : \E kept \in evidence' :
              kept.event = row.event /\ kept.raw = row.raw
         /\ \A kept \in evidence' : \E row \in evidence :
              /\ kept.event = row.event /\ kept.raw = row.raw
              /\ kept.status = IF row.event = event THEN status ELSE row.status
         /\ EventIsUnique => EventIsUnique'
<1> DEFINE marked(row) == IF row.event = event THEN [row EXCEPT !.status = status] ELSE row
<1>1. evidence' = {marked(row) : row \in evidence}
  BY Zenon DEF mark_evidence_status
<1>2. \A row \in evidence : /\ marked(row).event = row.event
                           /\ marked(row).raw = row.raw
                           /\ marked(row).status = IF row.event = event THEN status
                                                   ELSE row.status
  BY Zenon DEF TypeOK, Rows
<1> HIDE DEF marked
<1> QED
  BY <1>1, <1>2 DEF EventIsUnique

\* No step loses a row or changes what it carries: Insert adds one, a worker marks one.
LEMMA RowsAreKept ==
  ASSUME TypeOK, [Next]_vars
  PROVE  \A row \in evidence : \E kept \in evidence' :
           kept.event = row.event /\ kept.raw = row.raw
<1>1. CASE evidence \subseteq evidence'
  BY Zenon, <1>1
<1>2. ASSUME NEW w \in Workers, SkipClassified(w) \/ quarantine_evidence(w) \/ Commit(w)
      PROVE  \A row \in evidence : \E kept \in evidence' :
               kept.event = row.event /\ kept.raw = row.raw
  BY Zenon, <1>2, MarkKeeps DEF SkipClassified, quarantine_evidence, Commit
<1>3. ASSUME NEW r \in Requests, Handle(r) \/ RequestRaises(r)
      PROVE  evidence \subseteq evidence'
  BY Zenon, <1>3 DEF Handle, upsert_evidence, Insert, enqueue_classification_job, Push,
              emit_trisk_event, post_review, RequestRaises, tables
<1>4. ASSUME NEW w \in Workers, Work(w) \/ JobRaises(w) \/ WorkerDies(w),
             ~(SkipClassified(w) \/ quarantine_evidence(w) \/ Commit(w))
      PROVE  evidence \subseteq evidence'
  BY Zenon, <1>4 DEF Work, Take, Classify, store_incident_bundle, Flush, mirror_jsonl_audit,
              EmitEvents, JobRaises, WorkerDies, tables
<1>5. ApiCrash \/ UNCHANGED vars => evidence \subseteq evidence'
  BY Zenon DEF ApiCrash, vars, tables
<1> QED
  BY Zenon, <1>1, <1>2, <1>3, <1>4, <1>5 DEF Next

\* An event id stays that of one row: the unique constraint refuses a second.
LEMMA UniqueStep ==
  ASSUME TypeOK, EventIsUnique, [Next]_vars
  PROVE  EventIsUnique'
<1>1. ASSUME NEW w \in Workers, SkipClassified(w) \/ quarantine_evidence(w) \/ Commit(w)
      PROVE  EventIsUnique'
  BY Zenon, <1>1, MarkKeeps DEF SkipClassified, quarantine_evidence, Commit
<1>2. ASSUME NEW r \in Requests, Insert(r)
      PROVE  EventIsUnique'
  BY <1>2 DEF Insert, Conflicts, EvidenceRow, EventIsUnique
<1>3. ASSUME NEW r \in Requests, Handle(r) \/ RequestRaises(r), ~Insert(r)
      PROVE  UNCHANGED evidence
  BY Zenon, <1>3 DEF Handle, upsert_evidence, enqueue_classification_job, Push,
              emit_trisk_event, post_review, RequestRaises, tables
<1>4. ASSUME NEW w \in Workers, Work(w) \/ JobRaises(w) \/ WorkerDies(w),
             ~(SkipClassified(w) \/ quarantine_evidence(w) \/ Commit(w))
      PROVE  UNCHANGED evidence
  BY Zenon, <1>4 DEF Work, Take, Classify, store_incident_bundle, Flush, mirror_jsonl_audit,
              EmitEvents, JobRaises, WorkerDies, tables
<1>5. ApiCrash \/ UNCHANGED vars => UNCHANGED evidence
  BY Zenon DEF ApiCrash, vars, tables
<1> QED
  BY Zenon, <1>1, <1>2, <1>3, <1>4, <1>5 DEF Next, EventIsUnique

\* What holds of the row of an event holds of it after any step.
LEMMA FactsAreKept ==
  ASSUME TypeOK, [Next]_vars, NEW event, NEW id
  PROVE  /\ Has(event) => \E row \in evidence' : row.event = event
         /\ IsIncident(event) => \E row \in evidence' :
              row.event = event /\ Analysis[row.raw].outcome = "incident"
         /\ HasId(event, id) => \E row \in evidence' :
              row.event = event /\ Analysis[row.raw].id = id
BY Zenon, RowsAreKept DEF Has, IsIncident, HasId

\* Only the handlers change a request, only the workers a worker.
LEMMA Frames ==
  ASSUME [Next]_vars
  PROVE  \/ \E r \in Requests : Handle(r) /\ UNCHANGED wk
         \/ \E r \in Requests : RequestRaises(r) /\ UNCHANGED wk
         \/ \E w \in Workers : (Work(w) \/ JobRaises(w) \/ WorkerDies(w)) /\ UNCHANGED req
         \/ ApiCrash /\ UNCHANGED wk
         \/ UNCHANGED vars
<1>1. ASSUME NEW r \in Requests, Handle(r) \/ RequestRaises(r)
      PROVE  UNCHANGED wk
  BY Zenon, <1>1 DEF Handle, upsert_evidence, Insert, enqueue_classification_job, Push,
              emit_trisk_event, post_review, RequestRaises
<1>2. ASSUME NEW w \in Workers, Work(w) \/ JobRaises(w) \/ WorkerDies(w)
      PROVE  UNCHANGED req
  BY Zenon, <1>2 DEF Work, Take, SkipClassified, quarantine_evidence, Classify, store_incident_bundle,
              Flush, mirror_jsonl_audit, EmitEvents, Commit, JobRaises, WorkerDies
<1>3. ApiCrash => UNCHANGED wk
  BY Zenon DEF ApiCrash
<1> QED
  BY Zenon, <1>1, <1>2, <1>3 DEF Next

\* A worker takes a job from the queue or keeps the one it has, until it is idle.
LEMMA WorkerJobs ==
  ASSUME TypeOK, NEW w \in Workers, Work(w) \/ JobRaises(w) \/ WorkerDies(w)
  PROVE  /\ \A v \in Workers \ {w} : wk'[v] = wk[v]
         /\ \/ wk'[w] = Idle
            \/ wk[w].pc # "idle" /\ wk'[w].job = wk[w].job
            \/ Take(w) /\ wk'[w].pc = "start" /\ wk'[w].job = Head(queue)
<1>1. ASSUME Ends(w)
      PROVE  wk'[w] = Idle /\ \A v \in Workers \ {w} : wk'[v] = wk[v]
  BY Zenon, <1>1 DEF Ends, TypeOK
<1>2. CASE Take(w)
  BY Zenon, <1>2 DEF Take, Idle, TypeOK
<1>3. CASE Classify(w) \/ mirror_jsonl_audit(w) \/ EmitEvents(w)
  BY Zenon, <1>3 DEF Classify, mirror_jsonl_audit, EmitEvents, TypeOK, WorkerStates
<1>4. CASE store_incident_bundle(w)
  <2>1. wk[w].pc = "store"
    BY Zenon, <1>4 DEF store_incident_bundle
  <2>2. PICK new, i : wk' = [wk EXCEPT ![w].pc = "flush", ![w].new = new, ![w].incident = i]
    BY Zenon, <1>4 DEF store_incident_bundle
  <2> QED
    BY Zenon, <2>1, <2>2 DEF TypeOK, WorkerStates
<1>5. CASE Flush(w)
  BY <1>1, <1>5 DEF Flush, TypeOK, WorkerStates
<1>6. CASE SkipClassified(w) \/ quarantine_evidence(w) \/ Commit(w) \/ JobRaises(w)
           \/ WorkerDies(w)
  BY Zenon, <1>1, <1>6 DEF SkipClassified, quarantine_evidence, Commit, JobRaises, WorkerDies
<1> QED
  BY Zenon, <1>2, <1>3, <1>4, <1>5, <1>6 DEF Work

\* Every job stays one about a stored row.
LEMMA JobsStep ==
  ASSUME TypeOK, JobsAreStored, [Next]_vars
  PROVE  JobsAreStored'
<1> DEFINE Later(event) == \E row \in evidence' : row.event = event
<1>0. \A event : Has(event) => Later(event)
  BY Zenon, FactsAreKept
<1>1. \A k \in DOMAIN queue' : Later(queue'[k])
  <2>1. ASSUME NEW event \in EventIds, Has(event), queue' = Append(queue, event)
        PROVE  \A k \in DOMAIN queue' : Later(queue'[k])
    BY <1>0, <2>1, AppendProperties DEF JobsAreStored, TypeOK
  <2>2. ASSUME NEW r \in Requests, Push(r)
        PROVE  \A k \in DOMAIN queue' : Later(queue'[k])
    BY Zenon, <2>1, <2>2 DEF Push, JobsAreStored, Has, TypeOK, Rows
  <2>3. ASSUME NEW w \in Workers, WorkerDies(w)
        PROVE  \A k \in DOMAIN queue' : Later(queue'[k])
    BY Zenon, <2>1, <2>3 DEF WorkerDies, JobsAreStored, Has, TypeOK, Rows
  <2>4. ASSUME NEW w \in Workers, Take(w)
        PROVE  \A k \in DOMAIN queue' : Later(queue'[k])
    <3>1. /\ queue \in Seq(EventIds) /\ queue # <<>> /\ queue' = Tail(queue)
          /\ \A k \in DOMAIN queue : Has(queue[k])
      BY Zenon, <2>4 DEF Take, TypeOK, JobsAreStored
    <3>2. \A k \in DOMAIN Tail(queue) : k + 1 \in DOMAIN queue /\ Tail(queue)[k] = queue[k + 1]
      BY <3>1
    <3> QED
      BY Zenon, <1>0, <3>1, <3>2
  <2>5. CASE UNCHANGED queue
    BY Zenon, <1>0, <2>5 DEF JobsAreStored
  <2>6. ASSUME NEW r \in Requests, Handle(r) \/ RequestRaises(r), ~Push(r)
        PROVE  UNCHANGED queue
    BY Zenon, <2>6 DEF Handle, upsert_evidence, Insert, enqueue_classification_job,
                emit_trisk_event, post_review, RequestRaises
  <2>7. ASSUME NEW w \in Workers, Work(w) \/ JobRaises(w), ~Take(w)
        PROVE  UNCHANGED queue
    BY Zenon, <2>7 DEF Work, SkipClassified, quarantine_evidence, Classify, store_incident_bundle,
                Flush, mirror_jsonl_audit, EmitEvents, Commit, JobRaises
  <2>8. ApiCrash \/ UNCHANGED vars => UNCHANGED queue
    BY Zenon DEF ApiCrash, vars
  <2> QED
    BY Zenon, <2>2, <2>3, <2>4, <2>5, <2>6, <2>7, <2>8 DEF Next
<1>2. \A q \in Requests :
        /\ req'[q].pc \in {"enqueue", "push"} => Later(req'[q].event)
        /\ req'[q].pc \in {"insert", "insertBoth"} => req'[q].body.route = "ingest"
  <2> DEFINE Goal(q) ==
        /\ req'[q].pc \in {"enqueue", "push"} => Later(req'[q].event)
        /\ req'[q].pc \in {"insert", "insertBoth"} => req'[q].body.route = "ingest"
  <2>1. ASSUME NEW q \in Requests, req'[q] = req[q]
        PROVE  Goal(q)
    BY Zenon, <1>0, <2>1 DEF JobsAreStored
  <2>2. ASSUME NEW r \in Requests, Handle(r) \/ RequestRaises(r), NEW q \in Requests
        PROVE  Goal(q)
    <3>1. CASE q # r
      <4>1. req'[q] = req[q]
        BY Zenon, <2>2, <3>1 DEF Handle, upsert_evidence, Insert, enqueue_classification_job, Push,
               emit_trisk_event, post_review, RequestRaises, Moves, Answers, TypeOK
      <4> QED
        BY Zenon, <2>1, <4>1
    <3>2. CASE q = r /\ upsert_evidence(r)
      <4>1. \A row \in Existing(req[r].body) : Later(row.event)
        BY Zenon, <1>0 DEF Existing, WithHash, WithSource, Has
      <4> QED
        BY <3>2, <4>1 DEF upsert_evidence, Answers, Moves, TypeOK, RequestStates
    <3>3. CASE q = r /\ Insert(r)
      <4>1. EvidenceRow(req[r].body).event = make_event_id(req[r].body)
        BY Zenon DEF EvidenceRow
      <4> QED
        BY <3>3, <4>1 DEF Insert, Answers, TypeOK, RequestStates
    <3>4. CASE q = r /\ enqueue_classification_job(r)
      BY <1>0, <3>4 DEF enqueue_classification_job, Moves, JobsAreStored, TypeOK, RequestStates
    <3>5. CASE q = r /\ (Push(r) \/ emit_trisk_event(r) \/ post_review(r) \/ RequestRaises(r))
      BY <3>5 DEF Push, emit_trisk_event, post_review, RequestRaises, Moves, Answers, TypeOK,
                  RequestStates
    <3> QED
      BY Zenon, <2>2, <3>1, <3>2, <3>3, <3>4, <3>5 DEF Handle
  <2>3. ASSUME ApiCrash, NEW q \in Requests
        PROVE  Goal(q)
    <3>1. req'[q] = req[q] \/ req'[q].pc = "done"
      BY Zenon, <2>3 DEF ApiCrash, TypeOK, RequestStates
    <3> QED
      BY Zenon, <2>1, <3>1
  <2>4. UNCHANGED req => \A q \in Requests : Goal(q)
    BY Zenon, <2>1
  <2> QED
    BY Zenon, <2>2, <2>3, <2>4, Frames DEF vars
<1>3. \A v \in Workers : wk'[v].pc # "idle" => Later(wk'[v].job)
  <2>1. UNCHANGED wk => \A v \in Workers : wk'[v].pc # "idle" => Later(wk'[v].job)
    BY Zenon, <1>0 DEF JobsAreStored
  <2>2. ASSUME NEW w \in Workers, Work(w) \/ JobRaises(w) \/ WorkerDies(w)
        PROVE  \A v \in Workers : wk'[v].pc # "idle" => Later(wk'[v].job)
    <3>1. Take(w) => Has(Head(queue))
      BY DEF Take, JobsAreStored, TypeOK
    <3>2. Idle.pc = "idle"
      BY Zenon DEF Idle
    <3> QED
      BY Zenon, <1>0, <2>2, <3>1, <3>2, WorkerJobs DEF JobsAreStored
  <2> QED
    BY Zenon, <2>1, <2>2, Frames DEF vars
<1> QED
  BY Zenon, <1>1, <1>2, <1>3 DEF JobsAreStored, Has

\* Only a commit adds an incident, that of the worker, and none goes.
LEMMA IncidentsGrow ==
  ASSUME [Next]_vars
  PROVE  \/ UNCHANGED incidents
         \/ \E w \in Workers : /\ Commit(w) /\ wk[w].new
                               /\ incidents' = incidents \union {wk[w].incident}
<1>1. ASSUME NEW r \in Requests, Handle(r) \/ RequestRaises(r)
      PROVE  UNCHANGED incidents
  BY Zenon, <1>1 DEF Handle, upsert_evidence, Insert, enqueue_classification_job, Push,
              emit_trisk_event, post_review, RequestRaises, tables
<1>2. ASSUME NEW w \in Workers, Work(w) \/ JobRaises(w) \/ WorkerDies(w), ~Commit(w)
      PROVE  UNCHANGED incidents
  BY Zenon, <1>2 DEF Work, Take, SkipClassified, quarantine_evidence, Classify, store_incident_bundle,
              Flush, mirror_jsonl_audit, EmitEvents, JobRaises, WorkerDies, tables
<1>3. ApiCrash \/ UNCHANGED vars => UNCHANGED incidents
  BY Zenon DEF ApiCrash, vars, tables
<1>4. ASSUME NEW w \in Workers, Commit(w)
      PROVE  UNCHANGED incidents \/ (wk[w].new /\ incidents' = incidents \union {wk[w].incident})
  BY Zenon, <1>4 DEF Commit
<1> QED
  BY Zenon, <1>1, <1>2, <1>3, <1>4 DEF Next

\* The incident of a worker is decided by store_incident_bundle and then stays.
LEMMA WorkerIncidents ==
  ASSUME TypeOK, NEW w \in Workers, Work(w) \/ JobRaises(w) \/ WorkerDies(w),
         wk'[w].pc \notin {"idle", "start", "store"}
  PROVE  \/ store_incident_bundle(w) /\ wk'[w].pc = "flush"
         \/ /\ wk[w].pc = "flush" \/ Flushed(w)
            /\ wk'[w].job = wk[w].job
            /\ wk'[w].new = wk[w].new
            /\ wk'[w].incident = wk[w].incident
<1>1. ~Ends(w) /\ ~Take(w) /\ ~Classify(w)
  <2>1. Ends(w) => wk'[w].pc = "idle"
    BY DEF Ends, Idle, TypeOK
  <2>2. Take(w) => wk'[w].pc = "start"
    BY Zenon DEF Take, Idle, TypeOK
  <2>3. Classify(w) => wk'[w].pc = "store"
    BY Zenon DEF Classify, TypeOK, WorkerStates
  <2> QED
    BY Zenon, <2>1, <2>2, <2>3
<1>2. CASE store_incident_bundle(w)
  <2>1. PICK new, i : wk' = [wk EXCEPT ![w].pc = "flush", ![w].new = new, ![w].incident = i]
    BY Zenon, <1>2 DEF store_incident_bundle
  <2> QED
    BY Zenon, <1>2, <2>1 DEF TypeOK, WorkerStates
<1>3. CASE Flush(w)
  BY <1>1, <1>3 DEF Flush, TypeOK, WorkerStates
<1>4. CASE mirror_jsonl_audit(w) \/ EmitEvents(w)
  BY <1>4 DEF mirror_jsonl_audit, EmitEvents, Flushed, TypeOK, WorkerStates
<1>5. ~(SkipClassified(w) \/ quarantine_evidence(w) \/ Commit(w) \/ JobRaises(w)
        \/ WorkerDies(w))
  BY Zenon, <1>1 DEF SkipClassified, quarantine_evidence, Commit, JobRaises, WorkerDies
<1> QED
  BY ZenonT(40), <1>1, <1>2, <1>3, <1>4, <1>5 DEF Work

-----------------------------------------------------------------------------
(* Incidents and their records.                                             *)
\* Incidents stay the ones the pipeline finds in their evidence.
LEMMA FoundStep ==
  ASSUME TypeOK, JobsAreStored, IncidentsAreFound, [Next]_vars
  PROVE  IncidentsAreFound'
<1> DEFINE LaterIncident(event) == \E row \in evidence' :
             row.event = event /\ Analysis[row.raw].outcome = "incident"
<1> DEFINE LaterId(event, id) == \E row \in evidence' :
             row.event = event /\ Analysis[row.raw].id = id
<1> DEFINE Later(w) ==
             IF wk'[w].new THEN /\ wk'[w].incident \in Incidents
                                /\ wk'[w].incident.event = wk'[w].job
                                /\ LaterId(wk'[w].job, wk'[w].incident.id)
             ELSE wk'[w].incident \in incidents'
<1>0. \A event : IsIncident(event) => LaterIncident(event)
  BY Zenon, FactsAreKept
<1>1. \A event, id : HasId(event, id) => LaterId(event, id)
  BY FactsAreKept
<1>2. incidents \subseteq incidents'
  BY Zenon, IncidentsGrow
<1>3. \A i \in incidents' : LaterIncident(i.event) /\ LaterId(i.event, i.id)
  <2>1. \A i \in incidents : LaterIncident(i.event) /\ LaterId(i.event, i.id)
    BY <1>0, <1>1 DEF IncidentsAreFound
  <2>2. ASSUME NEW w \in Workers, Commit(w), wk[w].new
        PROVE  LaterIncident(wk[w].incident.event) /\ LaterId(wk[w].incident.event, wk[w].incident.id)
    BY <1>0, <1>1, <2>2 DEF Commit, IncidentsAreFound, Flushed
  <2> QED
    BY <2>1, <2>2, IncidentsGrow
<1>4. \A v \in Workers : wk'[v].pc \notin {"idle", "start"} => LaterIncident(wk'[v].job)
  <2>1. ASSUME NEW v \in Workers, wk'[v] = wk[v], wk'[v].pc \notin {"idle", "start"}
        PROVE  LaterIncident(wk'[v].job)
    BY Zenon, <1>0, <2>1 DEF IncidentsAreFound
  <2>2. ASSUME NEW w \in Workers, Work(w) \/ JobRaises(w) \/ WorkerDies(w),
               wk'[w].pc \notin {"idle", "start"}
        PROVE  LaterIncident(wk'[w].job)
    <3>1. wk[w].pc # "idle" /\ wk'[w].job = wk[w].job
      BY <2>2, WorkerJobs DEF Idle
    <3>2. CASE wk[w].pc # "start"
      BY Zenon, <1>0, <3>1, <3>2 DEF IncidentsAreFound
    <3>3. CASE wk[w].pc = "start"
      <4>1. Classify(w)
        <5>1. ~Ends(w)
          BY <2>2 DEF Ends, Idle, TypeOK
        <5> QED
          BY Zenon, <2>2, <3>3, <5>1 DEF Work, Take, SkipClassified, quarantine_evidence,
             store_incident_bundle, Flush, mirror_jsonl_audit, EmitEvents, Commit, JobRaises,
             WorkerDies
      <4>2. Has(wk[w].job)
        BY Zenon, <3>1 DEF JobsAreStored
      <4>3. IsIncident(wk[w].job)
        BY Zenon, <4>1, <4>2, RowIsStored DEF Classify, Outcome, Found, IsIncident
      <4> QED
        BY Zenon, <1>0, <3>1, <4>3
    <3> QED
      BY Zenon, <3>2, <3>3
  <2>3. UNCHANGED wk \/ \E w \in Workers : /\ Work(w) \/ JobRaises(w) \/ WorkerDies(w)
                                           /\ \A v \in Workers \ {w} : wk'[v] = wk[v]
    BY Zenon, Frames, WorkerJobs DEF vars
  <2> QED
    BY Zenon, <2>1, <2>2, <2>3
<1>5. \A v \in Workers : wk'[v].pc \notin {"idle", "start", "store"} => Later(v)
  <2>1. ASSUME NEW v \in Workers, wk[v].pc = "flush" \/ Flushed(v), wk'[v].job = wk[v].job,
               wk'[v].new = wk[v].new, wk'[v].incident = wk[v].incident
        PROVE  Later(v)
    BY <1>1, <1>2, <2>1 DEF IncidentsAreFound
  <2>2. ASSUME NEW v \in Workers, wk'[v] = wk[v], wk'[v].pc \notin {"idle", "start", "store"}
        PROVE  Later(v)
    BY Zenon, <2>1, <2>2 DEF TypeOK, WorkerStates, Flushed
  <2>3. ASSUME NEW w \in Workers, store_incident_bundle(w)
        PROVE  Later(w)
    <3> DEFINE made == Made(wk[w].job)
    <3>1. Has(wk[w].job)
      BY Zenon, <2>3 DEF store_incident_bundle, JobsAreStored
    <3>2. LaterId(wk[w].job, made.id)
      BY <1>1, <3>1, RowIsStored DEF Made, Found, HasId
    <3>3. made \in Incidents
      BY <3>1, RowIsStored DEF Made, Found, Incidents, TypeOK, Rows
    <3>4. made.event = wk[w].job
      BY Zenon DEF Made
    <3>5. PICK new \in BOOLEAN, i \in incidents \union {made} :
            /\ IF new THEN i = made ELSE i \in incidents
            /\ wk' = [wk EXCEPT ![w].pc = "flush", ![w].new = new, ![w].incident = i]
      BY Zenon, <2>3, BundleChoice
    <3> HIDE DEF made
    <3>6. wk'[w].job = wk[w].job /\ wk'[w].new = new /\ wk'[w].incident = i
      BY Zenon, <3>5 DEF TypeOK, WorkerStates
    <3>7. CASE wk'[w].new
      <4>1. wk'[w].incident = made
        BY Zenon, <3>5, <3>6, <3>7
      <4> QED
        BY Zenon, <3>2, <3>3, <3>4, <3>6, <3>7, <4>1
    <3>8. CASE ~wk'[w].new
      <4>1. wk'[w].incident \in incidents
        BY Zenon, <3>5, <3>6, <3>8
      <4> QED
        BY Zenon, <1>2, <3>8, <4>1
    <3> QED
      BY Zenon, <3>7, <3>8
  <2>4. ASSUME NEW w \in Workers, Work(w) \/ JobRaises(w) \/ WorkerDies(w),
               wk'[w].pc \notin {"idle", "start", "store"}
        PROVE  Later(w)
    BY Zenon, <2>1, <2>3, <2>4, WorkerIncidents
  <2>5. UNCHANGED wk \/ \E w \in Workers : /\ Work(w) \/ JobRaises(w) \/ WorkerDies(w)
                                           /\ \A v \in Workers \ {w} : wk'[v] = wk[v]
    BY Zenon, Frames, WorkerJobs DEF vars
  <2> QED
    BY Zenon, <2>2, <2>4, <2>5
<1>6. \A v \in Workers : wk'[v].pc = "flush" \/ Flushed(v)' =>
                          wk'[v].pc \notin {"idle", "start", "store"}
  BY Zenon DEF Flushed
<1> QED
  BY ZenonT(40), <1>3, <1>4, <1>5, <1>6 DEF IncidentsAreFound, IsIncident, HasId

\* A worker is where it is after a flush because it flushed in this step or before.
LEMMA WorkerFlushed ==
  ASSUME TypeOK, NEW w \in Workers, Work(w) \/ JobRaises(w) \/ WorkerDies(w), Flushed(w)'
  PROVE  /\ wk'[w].job = wk[w].job /\ wk'[w].new = wk[w].new
         /\ wk'[w].incident = wk[w].incident
         /\ Flushed(w) \/ (Flush(w) /\ wk[w].pc = "flush")
<1>1. wk'[w].pc \in {"mirror", "events", "commit"}
  BY Zenon DEF Flushed
<1>2. /\ wk[w].pc = "flush" \/ Flushed(w)
      /\ wk'[w].job = wk[w].job /\ wk'[w].new = wk[w].new
      /\ wk'[w].incident = wk[w].incident
  BY Zenon, <1>1, WorkerIncidents
<1>3. CASE wk[w].pc = "flush"
  <2>1. ~WorkerDies(w)
    BY <1>1 DEF WorkerDies, Ends, Idle, TypeOK
  <2> QED
    BY Zenon, <1>2, <1>3, <2>1 DEF Work, Take, SkipClassified, quarantine_evidence, Classify,
       store_incident_bundle, mirror_jsonl_audit, EmitEvents, Commit, JobRaises, Flushed
<1> QED
  BY Zenon, <1>2, <1>3

\* Ids stay exclusive: a flush waits for the worker that holds the id and fails on a stored one.
LEMMA ExclusiveStep ==
  ASSUME TypeOK, IdsAreExclusive, [Next]_vars
  PROVE  IdsAreExclusive'
<1> DEFINE Holds(v) == Flushed(v) /\ wk[v].new
<1> DEFINE Distinct == /\ \A i \in incidents' : \A v \in Workers :
                              Holds(v)' => i.id # wk'[v].incident.id
                       /\ \A v, u \in Workers : v # u /\ Holds(v)' /\ Holds(u)' =>
                              wk'[u].incident.id # wk'[v].incident.id
<1>1. \A i, j \in incidents' : i.id = j.id => i = j
  <2>1. ASSUME NEW w \in Workers, Commit(w), wk[w].new,
               incidents' = incidents \union {wk[w].incident}
        PROVE  \A i, j \in incidents' : i.id = j.id => i = j
    BY Zenon, <2>1 DEF Commit, Flushed, IdsAreExclusive
  <2> QED
    BY Zenon, <2>1, IncidentsGrow DEF IdsAreExclusive
<1>2. Distinct
  <2>1. CASE UNCHANGED <<wk, incidents>>
    BY Zenon, <2>1 DEF IdsAreExclusive, IdIsFree, Flushed
  <2>2. ASSUME NEW w \in Workers, Work(w) \/ JobRaises(w) \/ WorkerDies(w), ~Commit(w)
        PROVE  Distinct
    <3>1. \A v \in Workers \ {w} : wk'[v] = wk[v]
      BY Zenon, <2>2, WorkerJobs
    <3>2. UNCHANGED incidents
      BY Zenon, <2>2 DEF Work, Take, SkipClassified, quarantine_evidence, Classify,
         store_incident_bundle, Flush, mirror_jsonl_audit, EmitEvents, JobRaises, WorkerDies,
         tables
    <3>3. \A v \in Workers \ {w} : Holds(v)' <=> Holds(v)
      BY Zenon, <3>1 DEF Flushed
    <3>4. CASE ~Flushed(w)'
      BY <3>1, <3>2, <3>3, <3>4 DEF IdsAreExclusive, IdIsFree
    <3>5. CASE Flushed(w)' /\ Flushed(w)
      <4>1. wk'[w].new = wk[w].new /\ wk'[w].incident = wk[w].incident
        BY Zenon, <2>2, <3>5, WorkerFlushed
      <4> QED
        BY <3>1, <3>2, <3>3, <3>5, <4>1 DEF IdsAreExclusive, IdIsFree
    <3>6. CASE Flushed(w)' /\ Flush(w)
      <4>1. wk'[w].new = wk[w].new /\ wk'[w].incident = wk[w].incident
        BY Zenon, <2>2, <3>6, WorkerFlushed
      <4>2. ~Ends(w)
        BY <3>6 DEF Ends, Idle, Flushed, TypeOK
      <4>3. wk[w].new => IdIsFree(w) /\ ~\E i \in incidents : i.id = wk[w].incident.id
        BY Zenon, <3>6, <4>2 DEF Flush
      <4> QED
        BY <3>1, <3>2, <3>3, <4>1, <4>3 DEF IdsAreExclusive, IdIsFree
    <3> QED
      BY ZenonT(40), <2>2, <3>4, <3>5, <3>6, WorkerFlushed
  <2>3. ASSUME NEW w \in Workers, Commit(w)
        PROVE  Distinct
    <3>1. \A v \in Workers \ {w} : wk'[v] = wk[v]
      BY Zenon, <2>3, WorkerJobs DEF Work
    <3>2. ~Flushed(w)'
      BY Zenon, <2>3 DEF Commit, Ends, Idle, Flushed, TypeOK
    <3>3. \A v \in Workers \ {w} : Holds(v)' <=> Holds(v)
      BY Zenon, <3>1 DEF Flushed
    <3>4. wk[w].new => Holds(w)
      BY Zenon, <2>3 DEF Commit, Flushed
    <3>5. incidents' = IF wk[w].new THEN incidents \union {wk[w].incident} ELSE incidents
      BY Zenon, <2>3 DEF Commit
    <3> HIDE DEF Holds
    <3>6. \A v, u \in Workers : v # u /\ Holds(v) /\ Holds(u) =>
             wk[u].incident.id # wk[v].incident.id
      BY Zenon DEF IdsAreExclusive, IdIsFree, Holds
    <3>7. \A v \in Workers, i \in incidents : Holds(v) => i.id # wk[v].incident.id
      BY Zenon DEF IdsAreExclusive, Holds
    <3>8. ~Holds(w)'
      BY Zenon, <3>2 DEF Holds
    <3> QED
      BY <3>1, <3>3, <3>4, <3>5, <3>6, <3>7, <3>8
  <2>4. ASSUME NEW r \in Requests, Handle(r) \/ RequestRaises(r)
        PROVE  UNCHANGED <<wk, incidents>>
    BY Zenon, <2>4 DEF Handle, upsert_evidence, Insert, enqueue_classification_job, Push,
       emit_trisk_event, post_review, RequestRaises, tables
  <2>5. ApiCrash \/ UNCHANGED vars => UNCHANGED <<wk, incidents>>
    BY Zenon DEF ApiCrash, vars, tables
  <2> QED
    BY Zenon, <2>1, <2>2, <2>3, <2>4, <2>5 DEF Next
<1> QED
  BY Zenon, <1>1, <1>2 DEF IdsAreExclusive, IdIsFree, Flushed

\* No file, audit row or review is taken back.
LEMMA RecordsGrow ==
  ASSUME [Next]_vars
  PROVE  /\ mirror \subseteq mirror' /\ log \subseteq log'
         /\ chain \subseteq chain' /\ reviews \subseteq reviews'
<1> USE DEF tables, files
<1>1. ASSUME NEW r \in Requests, Handle(r) \/ RequestRaises(r)
      PROVE  /\ mirror \subseteq mirror' /\ log \subseteq log'
             /\ chain \subseteq chain' /\ reviews \subseteq reviews'
  BY Zenon, <1>1 DEF Handle, upsert_evidence, Insert, enqueue_classification_job, Push,
              emit_trisk_event, post_review, RequestRaises
<1>2. ASSUME NEW w \in Workers, Work(w) \/ JobRaises(w) \/ WorkerDies(w)
      PROVE  /\ mirror \subseteq mirror' /\ log \subseteq log'
             /\ chain \subseteq chain' /\ reviews \subseteq reviews'
  BY Zenon, <1>2 DEF Work, Take, SkipClassified, quarantine_evidence, Classify,
              store_incident_bundle, Flush, mirror_jsonl_audit, EmitEvents, Commit, JobRaises,
              WorkerDies
<1>3. ApiCrash \/ UNCHANGED vars => UNCHANGED <<mirror, log, chain, reviews>>
  BY Zenon DEF ApiCrash, vars
<1> QED
  BY Zenon, <1>1, <1>2, <1>3 DEF Next

\* A worker that may commit has written the mirror row and the domain events.
LEMMA FilesStep ==
  ASSUME TypeOK, FilesAreWritten, [Next]_vars
  PROVE  FilesAreWritten'
<1> DEFINE Mirrored(v) == [event |-> wk[v].job, incident |-> wk[v].incident.id] \in mirror
<1> DEFINE Logged(v) == \A type \in EventTypes : Event(type, wk[v].incident.id) \in log
<1>1. ASSUME NEW v \in Workers, wk'[v] = wk[v]
      PROVE  /\ wk'[v].pc \in {"events", "commit"} => Mirrored(v)'
             /\ wk'[v].pc = "commit" => Logged(v)'
  BY Zenon, <1>1, RecordsGrow DEF FilesAreWritten, Event
<1>2. ASSUME NEW w \in Workers, Work(w) \/ JobRaises(w) \/ WorkerDies(w)
      PROVE  /\ wk'[w].pc \in {"events", "commit"} => Mirrored(w)'
             /\ wk'[w].pc = "commit" => Logged(w)'
  <2>1. CASE mirror_jsonl_audit(w)
    BY Zenon, <2>1 DEF mirror_jsonl_audit, TypeOK, WorkerStates
  <2>2. CASE EmitEvents(w)
    BY Zenon, <2>2 DEF EmitEvents, FilesAreWritten, Event, TypeOK, WorkerStates
  <2>3. CASE ~mirror_jsonl_audit(w) /\ ~EmitEvents(w)
    <3>1. ASSUME Ends(w) PROVE wk'[w].pc = "idle"
      BY Zenon, <3>1 DEF Ends, Idle, TypeOK
    <3>2. wk'[w].pc \notin {"events", "commit"}
      <4>1. CASE Take(w) \/ Classify(w)
        BY Zenon, <4>1 DEF Take, Classify, Idle, TypeOK, WorkerStates
      <4>2. CASE Flush(w)
        BY Zenon, <3>1, <4>2 DEF Flush, TypeOK, WorkerStates
      <4>3. CASE store_incident_bundle(w)
        <5>1. PICK new, i :
                wk' = [wk EXCEPT ![w].pc = "flush", ![w].new = new, ![w].incident = i]
          BY ZenonT(40), <4>3, BundleChoice
        <5> QED
          BY Zenon, <5>1 DEF TypeOK, WorkerStates
      <4>4. CASE SkipClassified(w) \/ quarantine_evidence(w) \/ Commit(w) \/ JobRaises(w)
                 \/ WorkerDies(w)
        BY ZenonT(40), <3>1, <4>4 DEF SkipClassified, quarantine_evidence, Commit, JobRaises, WorkerDies
      <4> QED
        BY Zenon, <1>2, <2>3, <4>1, <4>2, <4>3, <4>4 DEF Work
    <3> QED
      BY Zenon, <3>2
  <2> QED
    BY Zenon, <2>1, <2>2, <2>3
<1>3. UNCHANGED wk \/ \E w \in Workers : /\ Work(w) \/ JobRaises(w) \/ WorkerDies(w)
                                         /\ \A v \in Workers \ {w} : wk'[v] = wk[v]
  BY Zenon, Frames, WorkerJobs DEF vars
<1> QED
  BY Zenon, <1>1, <1>2, <1>3 DEF FilesAreWritten

\* A commit appends an audit row about the job and its incident.
LEMMA CommitRecords ==
  ASSUME NEW w \in Workers, Commit(w)
  PROVE  \E row \in chain' : row.event = wk[w].job /\ row.incident = wk[w].incident.id
<1> DEFINE new == [index |-> wk[w].index, event |-> wk[w].job, incident |-> wk[w].incident.id]
<1>1. new \in chain'
  BY Zenon DEF Commit
<1>2. new.event = wk[w].job /\ new.incident = wk[w].incident.id
  BY Zenon
<1> HIDE DEF new
<1> QED
  BY Zenon, <1>1, <1>2

\* A commit stores an incident together with its records.
LEMMA BundleStep ==
  ASSUME TypeOK, IncidentsAreFound, FilesAreWritten, BundleIsWhole, [Next]_vars
  PROVE  BundleIsWhole'
<1> DEFINE Later(i) ==
      /\ \E row \in chain' : row.event = i.event /\ row.incident = i.id
      /\ [event |-> i.event, incident |-> i.id] \in mirror'
      /\ \A type \in EventTypes : Event(type, i.id) \in log'
      /\ i.class \in REVIEW_CLASSES => [incident |-> i.id, status |-> "PENDING_REVIEW"] \in reviews'
<1>1. \A i \in incidents : Later(i)
  BY Zenon, RecordsGrow DEF BundleIsWhole
<1>2. ASSUME NEW w \in Workers, Commit(w), wk[w].new
      PROVE  Later(wk[w].incident)
  <2> DEFINE i == wk[w].incident
  <2>1. i.event = wk[w].job
    BY ZenonT(40), <1>2 DEF Commit, IncidentsAreFound, Flushed
  <2>2. /\ [event |-> wk[w].job, incident |-> i.id] \in mirror
        /\ \A type \in EventTypes : Event(type, i.id) \in log
    BY Zenon, <1>2 DEF Commit, FilesAreWritten
  <2>3. \E row \in chain' : row.event = wk[w].job /\ row.incident = i.id
    BY Zenon, <1>2, CommitRecords
  <2>4. i.class \in REVIEW_CLASSES =>
          [incident |-> i.id, status |-> "PENDING_REVIEW"] \in reviews'
    BY Zenon, <1>2 DEF Commit
  <2> QED
    BY Zenon, <2>1, <2>2, <2>3, <2>4, RecordsGrow
<1> HIDE DEF Later
<1>3. \A i \in incidents' : Later(i)
  BY <1>1, <1>2, IncidentsGrow
<1> QED
  BY Zenon, <1>3 DEF BundleIsWhole, Later, Event

\* A status is set together with the record it needs.
LEMMA StatusStep ==
  ASSUME TypeOK, EventIsUnique, JobsAreStored, BundleIsWhole, StatusIsEarned, [Next]_vars
  PROVE  StatusIsEarned'
<1> DEFINE Earned(event, raw, status) ==
      /\ status \in {"classified", "review_required"} => \E entry \in chain' : entry.event = event
      /\ status = "quarantined" => Analysis[raw].outcome # "incident"
<1>1. \A row \in evidence : Earned(row.event, row.raw, row.status)
  BY Zenon, RecordsGrow DEF StatusIsEarned
<1>2. ASSUME NEW event, NEW status, mark_evidence_status(event, status),
             \A row \in evidence : row.event = event => Earned(event, row.raw, status)
      PROVE  \A row \in evidence' : Earned(row.event, row.raw, row.status)
  <2>1. TAKE kept \in evidence'
  <2>2. PICK row \in evidence : /\ kept.event = row.event /\ kept.raw = row.raw
                                /\ kept.status = IF row.event = event THEN status
                                                 ELSE row.status
    BY <1>2, MarkKeeps
  <2> HIDE DEF Earned
  <2> QED
    BY Zenon, <1>1, <1>2, <2>2
<1>3. ASSUME NEW w \in Workers, SkipClassified(w)
      PROVE  \A row \in evidence' : Earned(row.event, row.raw, row.status)
  <2>1. \E entry \in chain' : entry.event = wk[w].job
    BY Zenon, <1>3, RecordsGrow DEF SkipClassified, Skips, incident_exists_for_evidence, BundleIsWhole
  <2>2. mark_evidence_status(wk[w].job, "classified")
    BY Zenon, <1>3 DEF SkipClassified
  <2> QED
    BY <1>2, <2>1, <2>2
<1>4. ASSUME NEW w \in Workers, quarantine_evidence(w)
      PROVE  \A row \in evidence' : Earned(row.event, row.raw, row.status)
  <2>1. Has(wk[w].job)
    BY Zenon, <1>4 DEF quarantine_evidence, JobsAreStored
  <2>2. \A row \in evidence : row.event = wk[w].job => row = RowOf(wk[w].job)
    BY Zenon, <2>1, RowIsStored DEF EventIsUnique
  <2>3. /\ Analysis[RowOf(wk[w].job).raw].outcome # "incident"
        /\ mark_evidence_status(wk[w].job, "quarantined")
    BY Zenon, <1>4 DEF quarantine_evidence, Outcome, Found
  <2> QED
    BY <1>2, <2>2, <2>3
<1>5. ASSUME NEW w \in Workers, Commit(w)
      PROVE  \A row \in evidence' : Earned(row.event, row.raw, row.status)
  <2>1. \E entry \in chain' : entry.event = wk[w].job
    BY Zenon, <1>5, CommitRecords
  <2>2. mark_evidence_status(wk[w].job, StatusFor(wk[w].incident.class))
    BY Zenon, <1>5 DEF Commit
  <2>3. StatusFor(wk[w].incident.class) # "quarantined"
    BY Zenon DEF StatusFor
  <2> QED
    BY <1>2, <2>1, <2>2, <2>3
<1>6. ASSUME NEW r \in Requests, Insert(r)
      PROVE  \A row \in evidence' : Earned(row.event, row.raw, row.status)
  BY <1>1, <1>6 DEF Insert, EvidenceRow
<1>7. UNCHANGED evidence => \A row \in evidence' : Earned(row.event, row.raw, row.status)
  BY Zenon, <1>1
<1>8. ASSUME NEW r \in Requests, Handle(r) \/ RequestRaises(r), ~Insert(r)
      PROVE  UNCHANGED evidence
  BY Zenon, <1>8 DEF Handle, upsert_evidence, enqueue_classification_job, Push,
     emit_trisk_event, post_review, RequestRaises, tables
<1>9. ASSUME NEW w \in Workers, Work(w) \/ JobRaises(w) \/ WorkerDies(w),
             ~(SkipClassified(w) \/ quarantine_evidence(w) \/ Commit(w))
      PROVE  UNCHANGED evidence
  BY Zenon, <1>9 DEF Work, Take, Classify, store_incident_bundle, Flush, mirror_jsonl_audit,
     EmitEvents, JobRaises, WorkerDies, tables
<1>10. ApiCrash \/ UNCHANGED vars => UNCHANGED evidence
  BY Zenon DEF ApiCrash, vars, tables
<1> HIDE DEF Earned
<1>11. \A row \in evidence' : Earned(row.event, row.raw, row.status)
  BY Zenon, <1>3, <1>4, <1>5, <1>6, <1>7, <1>8, <1>9, <1>10 DEF Next
<1> QED
  BY Zenon, <1>11 DEF StatusIsEarned, Earned

\* Before the first request there is nothing to record.
LEMMA Initially ==
  ASSUME Init
  PROVE  /\ TypeOK /\ EventIsUnique /\ JobsAreStored /\ IncidentsAreFound /\ IdsAreExclusive
         /\ FilesAreWritten /\ BundleIsWhole /\ StatusIsEarned
<1>1. \A w \in Workers : wk[w].pc = "idle"
  BY Zenon DEF Init, Idle
<1>2. TypeOK
  <2>1. IsFiniteSet(chain)
    BY Zenon, FS_EmptySet DEF Init
  <2>2. \A load \in Loads, r \in Requests : Waiting(load[r]) \in RequestStates
    BY DEF Waiting, RequestStates, Sent
  <2>3. req \in [Requests -> RequestStates]
    BY Zenon, <2>2 DEF Init
  <2>4. Idle \in WorkerStates
    BY Zenon DEF Idle, WorkerStates
  <2>5. wk \in [Workers -> WorkerStates]
    BY Zenon, <2>4 DEF Init
  <2> QED
    BY <2>1, <2>3, <2>5 DEF Init, TypeOK
<1>3. JobsAreStored
  BY <1>1 DEF Init, Waiting, JobsAreStored
<1>4. EventIsUnique /\ BundleIsWhole /\ StatusIsEarned
  BY Zenon DEF Init, EventIsUnique, BundleIsWhole, StatusIsEarned
<1>5. IncidentsAreFound /\ IdsAreExclusive /\ FilesAreWritten
  BY Zenon, <1>1 DEF Init, IncidentsAreFound, IdsAreExclusive, FilesAreWritten, Flushed
<1> QED
  BY Zenon, <1>2, <1>3, <1>4, <1>5

\* The invariant of the pipeline, conjunct by conjunct.
THEOREM PipelineInvariant ==
  Spec => [](/\ TypeOK /\ EventIsUnique /\ JobsAreStored /\ IncidentsAreFound
             /\ IdsAreExclusive /\ FilesAreWritten /\ BundleIsWhole /\ StatusIsEarned)
<1> DEFINE Inv == /\ TypeOK /\ EventIsUnique /\ JobsAreStored /\ IncidentsAreFound
                  /\ IdsAreExclusive /\ FilesAreWritten /\ BundleIsWhole /\ StatusIsEarned
<1>1. Init => Inv
  BY Zenon, Initially
<1>2. Inv /\ [Next]_vars => Inv'
  BY Zenon, TypeStep, UniqueStep, JobsStep, FoundStep, ExclusiveStep, FilesStep, BundleStep, StatusStep
<1> QED
  BY <1>1, <1>2, PTL DEF Spec

\* However often and by however many workers run_classification_job runs for an evidence
\* event, it has at most one incident, and an incident id names one row.
THEOREM IncidentIsUnique == Spec => []OneIncidentPerEvidence
<1>1. EventIsUnique /\ IncidentsAreFound /\ IdsAreExclusive => OneIncidentPerEvidence
  <2> SUFFICES ASSUME EventIsUnique, IncidentsAreFound, IdsAreExclusive,
                      NEW i \in incidents, NEW j \in incidents, i.event = j.event \/ i.id = j.id
               PROVE  i = j
    BY Zenon DEF OneIncidentPerEvidence
  <2>1. ASSUME i.event = j.event PROVE i.id = j.id
    <3>1. PICK a \in evidence : a.event = i.event /\ Analysis[a.raw].id = i.id
      BY Zenon DEF IncidentsAreFound, HasId
    <3>2. PICK b \in evidence : b.event = j.event /\ Analysis[b.raw].id = j.id
      BY Zenon DEF IncidentsAreFound, HasId
    <3> QED
      BY Zenon, <2>1, <3>1, <3>2 DEF EventIsUnique
  <2> QED
    BY Zenon, <2>1 DEF IdsAreExclusive
<1> QED
  BY <1>1, PipelineInvariant, PTL

\* An incident that run_classification_job commits has its audit chain row, its mirror row, its
\* domain events and the review it needs, whatever fails or dies in between.
THEOREM BundleStaysWhole == Spec => []BundleIsWhole
BY PipelineInvariant, PTL

\* Evidence marked classified or review_required has an audit chain row, and quarantined
\* evidence has no incident.
THEOREM StatusHasRecord == Spec => []SettledHasRecord
<1>1. /\ EventIsUnique /\ IncidentsAreFound /\ StatusIsEarned => SettledHasRecord
  BY DEF EventIsUnique, IncidentsAreFound, IsIncident, StatusIsEarned, SettledHasRecord,
         incident_exists_for_evidence
<1> QED
  BY <1>1, PipelineInvariant, PTL

\* What the worker classifies keeps the promises of the classifier, the control tests and the
\* risk scoring.
THEOREM AnalyticsStayConsistent == Spec => []AnalyticsAgree
<1>1. AnalyticsAgree
  BY Zenon, BrokenReviewed, LowPasses, DeadAloneScoresHigh DEF AnalyticsAgree
<1> QED
  BY <1>1, PTL

-----------------------------------------------------------------------------
(***************************************************************************)
(* Accepted evidence stays in hand.  A request is answered 202 for the row  *)
(* upsert_evidence found or inserted, but _IDEMPOTENCY is keyed by content: *)
(* the invariant says what a key promises of the rows it may stand for.     *)
(***************************************************************************)
\* The job of this event is queued, being worked on, or among the failed jobs.
Tended(event) == \/ event \in failed
                 \/ \E k \in DOMAIN queue : queue[k] = event
                 \/ \E w \in Workers : wk[w].pc # "idle" /\ wk[w].job = event

\* A row is settled, or its job is tended.
Held(row) == row.status # "pending" \/ Tended(row.event)

\* The content hash of a row is that of what it carries.
HashesFit == \A row \in evidence : row.hash = <<row.endpoint, row.source, row.raw>>

\* uq_endpoint_source_event
SourceIsUnique ==
  \A a, b \in evidence :
    a.source # NoSource /\ a.source = b.source /\ a.endpoint = b.endpoint => a = b

\* upsert_evidence may answer a body of this content hash with this row.
Serves(row, hash) == /\ row.endpoint = hash[1]
                     /\ row.source = hash[2]
                     /\ hash[2] = NoSource => row.hash = hash

\* A key is kept for a row that serves its content and is held.
KeysAreHeld == \A hash \in keys : \E row \in evidence : Serves(row, hash) /\ Held(row)

\* A request past upsert_evidence names a row that serves its body.
RequestsAreServed ==
  \A r \in Requests : req[r].pc \in {"enqueue", "push"} =>
    \E row \in evidence : /\ row.event = req[r].event
                          /\ Serves(row, content_hash(req[r].body))

\* A row with the content of this event's is held.
HasHeld(event) == \E mine, row \in evidence :
                    mine.event = event /\ row.hash = mine.hash /\ Held(row)

\* An ingest answered 202, or about to be, has its content held.
AcceptedAreHeld ==
  \A r \in Requests :
    /\ req[r].answer = "202" => req[r].pc = "done"
    /\ \/ req[r].pc = "emit" /\ req[r].body.route = "ingest"
       \/ req[r].answer = "202"
       => HasHeld(req[r].event)

\* The inductive invariant.
HandInv == HashesFit /\ SourceIsUnique /\ KeysAreHeld /\ RequestsAreServed /\ AcceptedAreHeld

\* A row after a step carries what it carried.
Carries(kept, row) == /\ kept.event = row.event /\ kept.hash = row.hash /\ kept.raw = row.raw
                      /\ kept.endpoint = row.endpoint /\ kept.source = row.source

\* Marking a row settles it and changes nothing else.
LEMMA MarkSettles ==
  ASSUME TypeOK, NEW event, NEW status, status # "pending",
         mark_evidence_status(event, status)
  PROVE  /\ \A row \in evidence : \E kept \in evidence' :
              /\ Carries(kept, row)
              /\ row.status # "pending" \/ row.event = event => kept.status # "pending"
         /\ \A kept \in evidence' : \E row \in evidence : Carries(kept, row)
         /\ SourceIsUnique => SourceIsUnique'
<1> DEFINE marked(row) == IF row.event = event THEN [row EXCEPT !.status = status] ELSE row
<1>1. evidence' = {marked(row) : row \in evidence}
  BY Zenon DEF mark_evidence_status
<1>2. \A row \in evidence :
        /\ Carries(marked(row), row)
        /\ row.status # "pending" \/ row.event = event => marked(row).status # "pending"
  BY Zenon DEF TypeOK, Rows, Carries
<1> HIDE DEF marked
<1> QED
  BY <1>1, <1>2 DEF SourceIsUnique, Carries

\* The steps that mark a row, and how.
Marks(w) == SkipClassified(w) \/ quarantine_evidence(w) \/ Commit(w)

\* Whatever the ending, the row is no longer pending after it.
LEMMA MarksSettle ==
  ASSUME NEW w \in Workers, Marks(w)
  PROVE  \E status : status # "pending" /\ mark_evidence_status(wk[w].job, status)
<1>1. \A class : StatusFor(class) # "pending"
  BY Zenon DEF StatusFor
<1> QED
  BY Zenon, <1>1 DEF Marks, SkipClassified, quarantine_evidence, Commit

\* Every other step but Insert leaves the rows alone.
LEMMA RowsStay ==
  ASSUME [Next]_vars
  PROVE  \/ \E w \in Workers : Marks(w)
         \/ \E r \in Requests : Insert(r)
         \/ evidence' = evidence
<1>1. ASSUME NEW r \in Requests, Handle(r) \/ RequestRaises(r), ~Insert(r)
      PROVE  UNCHANGED evidence
  BY Zenon, <1>1 DEF Handle, upsert_evidence, enqueue_classification_job, Push,
              emit_trisk_event, post_review, RequestRaises, tables
<1>2. ASSUME NEW w \in Workers, Work(w) \/ JobRaises(w) \/ WorkerDies(w), ~Marks(w)
      PROVE  UNCHANGED evidence
  BY Zenon, <1>2 DEF Work, Take, Classify, store_incident_bundle, Flush, mirror_jsonl_audit,
              EmitEvents, JobRaises, WorkerDies, tables, Marks
<1>3. ApiCrash \/ UNCHANGED vars => UNCHANGED evidence
  BY Zenon DEF ApiCrash, vars, tables
<1> QED
  BY Zenon, <1>1, <1>2, <1>3 DEF Next

\* An event that was added to the queue is on it, with all that was there.
LEMMA QueueGrows ==
  ASSUME TypeOK, NEW event \in EventIds, queue' = Append(queue, event)
  PROVE  /\ \E k \in DOMAIN queue' : queue'[k] = event
         /\ \A e : (\E k \in DOMAIN queue : queue[k] = e) => \E k \in DOMAIN queue' : queue'[k] = e
<1>1. queue \in Seq(EventIds) /\ Len(queue) \in Nat /\ DOMAIN queue = 1 .. Len(queue)
  BY Zenon, LenProperties DEF TypeOK
<1>2. /\ queue' \in Seq(EventIds) /\ Len(queue') = Len(queue) + 1
      /\ \A i \in 1 .. Len(queue) : queue'[i] = queue[i]
      /\ queue'[Len(queue) + 1] = event
  BY <1>1, AppendProperties
<1>3. DOMAIN queue' = 1 .. (Len(queue) + 1)
  BY Zenon, <1>2, LenProperties
<1>4. Len(queue) + 1 \in DOMAIN queue' /\ \A k \in DOMAIN queue : k \in DOMAIN queue'
  BY <1>1, <1>3
<1> QED
  BY Zenon, <1>1, <1>2, <1>4

\* Taking the first job leaves the others on the queue.
LEMMA QueueShrinks ==
  ASSUME TypeOK, queue # <<>>, queue' = Tail(queue), NEW k \in DOMAIN queue
  PROVE  queue[k] = Head(queue) \/ \E j \in DOMAIN queue' : queue'[j] = queue[k]
<1>1. queue \in Seq(EventIds) /\ Len(queue) \in Nat /\ DOMAIN queue = 1 .. Len(queue)
  BY Zenon, LenProperties DEF TypeOK
<1>2. CASE k = 1
  BY <1>1, <1>2
<1>3. CASE k # 1
  <2>1. /\ Tail(queue) \in Seq(EventIds) /\ Len(Tail(queue)) = Len(queue) - 1
        /\ \A i \in 1 .. Len(Tail(queue)) : Tail(queue)[i] = queue[i + 1]
    BY Zenon, <1>1, HeadTailProperties
  <2>2. DOMAIN Tail(queue) = 1 .. (Len(queue) - 1)
    BY Zenon, <2>1, LenProperties
  <2>3. k - 1 \in 1 .. (Len(queue) - 1) /\ (k - 1) + 1 = k
    BY <1>1, <1>3
  <2> QED
    BY Zenon, <2>1, <2>2, <2>3
<1> QED
  BY Zenon, <1>2, <1>3

\* A job that is tended is tended after the step, or the step marks its row.
LEMMA TendedStays ==
  ASSUME TypeOK, JobsAreStored, [Next]_vars, NEW event, Tended(event)
  PROVE  Tended(event)' \/ \E w \in Workers : Marks(w) /\ wk[w].job = event
<1>1. \A e : Has(e) => e \in EventIds
  BY Zenon DEF Has, TypeOK, Rows
<1>2. ASSUME UNCHANGED <<queue, failed, wk>>
      PROVE  Tended(event)'
  BY Zenon, <1>2 DEF Tended
<1>3. ASSUME NEW r \in Requests, Push(r)
      PROVE  Tended(event)'
  <2>1. /\ queue' = Append(queue, req[r].event) /\ failed' = failed /\ wk' = wk
        /\ req[r].event \in EventIds
    BY Zenon, <1>1, <1>3 DEF Push, JobsAreStored
  <2> QED
    BY Zenon, <2>1, QueueGrows DEF Tended
<1>4. ASSUME NEW w \in Workers, WorkerDies(w)
      PROVE  Tended(event)'
  <2>1. /\ queue' = Append(queue, wk[w].job) /\ failed' = failed
        /\ wk[w].job \in EventIds
    BY Zenon, <1>1, <1>4 DEF WorkerDies, JobsAreStored
  <2>2. \A v \in Workers \ {w} : wk'[v] = wk[v]
    BY Zenon, <1>4 DEF WorkerDies, Ends, TypeOK
  <2>3. CASE \E v \in Workers : wk[v].pc # "idle" /\ wk[v].job = event
    BY <2>1, <2>2, <2>3, QueueGrows DEF Tended
  <2> QED
    BY Zenon, <2>1, <2>3, QueueGrows DEF Tended
<1>5. ASSUME NEW w \in Workers, Take(w)
      PROVE  Tended(event)'
  <2>1. /\ wk[w].pc = "idle" /\ queue # <<>> /\ queue' = Tail(queue) /\ failed' = failed
        /\ wk'[w].pc = "start" /\ wk'[w].job = Head(queue)
        /\ \A v \in Workers \ {w} : wk'[v] = wk[v]
    BY Zenon, <1>5 DEF Take, Idle, TypeOK
  <2>2. CASE event \in failed
    BY Zenon, <2>1, <2>2 DEF Tended
  <2>3. CASE \E v \in Workers : wk[v].pc # "idle" /\ wk[v].job = event
    BY Zenon, <2>1, <2>3 DEF Tended
  <2>4. CASE \E k \in DOMAIN queue : queue[k] = event
    <3>1. PICK k \in DOMAIN queue : queue[k] = event
      BY Zenon, <2>4
    <3>2. event = Head(queue) \/ \E j \in DOMAIN queue' : queue'[j] = event
      BY Zenon, <2>1, <3>1, QueueShrinks
    <3>3. wk'[w].pc # "idle" /\ wk'[w].job = Head(queue)
      BY Zenon, <2>1
    <3> QED
      BY Zenon, <3>2, <3>3 DEF Tended
  <2> QED
    BY Zenon, <2>2, <2>3, <2>4 DEF Tended
<1>6. ASSUME NEW w \in Workers, Marks(w)
      PROVE  Tended(event)' \/ wk[w].job = event
  <2>1. queue' = queue /\ failed \subseteq failed' /\ \A v \in Workers \ {w} : wk'[v] = wk[v]
    BY Zenon, <1>6 DEF Marks, SkipClassified, quarantine_evidence, Commit, Ends, TypeOK
  <2> QED
    BY Zenon, <2>1 DEF Tended
<1>7. ASSUME NEW w \in Workers,
             \/ Classify(w) \/ store_incident_bundle(w) \/ Flush(w) \/ mirror_jsonl_audit(w)
             \/ EmitEvents(w) \/ JobRaises(w)
      PROVE  Tended(event)'
  <2>1. queue' = queue /\ failed \subseteq failed'
    BY Zenon, <1>7 DEF Classify, store_incident_bundle, Flush, mirror_jsonl_audit, EmitEvents,
                JobRaises
  <2>2. \A v \in Workers \ {w} : wk'[v] = wk[v]
    BY ZenonT(40), <1>7, WorkerJobs DEF Work
  <2>3. \/ wk[w].job \in failed'
        \/ wk'[w].pc # "idle" /\ wk'[w].job = wk[w].job
    <3>1. CASE JobRaises(w)
      BY Zenon, <3>1 DEF JobRaises
    <3>2. CASE Classify(w) \/ mirror_jsonl_audit(w) \/ EmitEvents(w)
      BY <3>2 DEF Classify, mirror_jsonl_audit, EmitEvents, TypeOK, WorkerStates
    <3>3. CASE store_incident_bundle(w)
      <4>1. PICK new, i : wk' = [wk EXCEPT ![w].pc = "flush", ![w].new = new, ![w].incident = i]
        BY Zenon, <3>3 DEF store_incident_bundle
      <4> QED
        BY Zenon, <4>1 DEF TypeOK, WorkerStates
    <3>4. CASE Flush(w)
      BY <3>4 DEF Flush, TypeOK, WorkerStates
    <3> QED
      BY Zenon, <1>7, <3>1, <3>2, <3>3, <3>4
  <2> QED
    BY Zenon, <2>1, <2>2, <2>3 DEF Tended
<1>8. ASSUME NEW r \in Requests, Handle(r) \/ RequestRaises(r), ~Push(r)
      PROVE  UNCHANGED <<queue, failed, wk>>
  BY Zenon, <1>8 DEF Handle, upsert_evidence, Insert, enqueue_classification_job,
              emit_trisk_event, post_review, RequestRaises
<1>9. ApiCrash \/ UNCHANGED vars => UNCHANGED <<queue, failed, wk>>
  BY Zenon DEF ApiCrash, vars
<1> QED
  BY Zenon, <1>2, <1>3, <1>4, <1>5, <1>6, <1>7, <1>8, <1>9 DEF Next, Work, Marks

\* A row that is held stays held, and every row carries what it carried.
LEMMA HeldStays ==
  ASSUME TypeOK, JobsAreStored, [Next]_vars
  PROVE  \A row \in evidence : \E kept \in evidence' :
           Carries(kept, row) /\ (Held(row) => Held(kept)')
<1> SUFFICES ASSUME NEW row \in evidence
             PROVE  \E kept \in evidence' : Carries(kept, row) /\ (Held(row) => Held(kept)')
  BY Zenon
<1>1. ASSUME NEW w \in Workers, Marks(w)
      PROVE  \E kept \in evidence' :
               /\ Carries(kept, row)
               /\ row.status # "pending" \/ row.event = wk[w].job => kept.status # "pending"
  <2>1. PICK status : status # "pending" /\ mark_evidence_status(wk[w].job, status)
    BY Zenon, <1>1, MarksSettle
  <2> QED
    BY Zenon, <2>1, MarkSettles
<1>2. \E kept \in evidence' :
        Carries(kept, row) /\ (row.status # "pending" => kept.status # "pending")
  <2>1. CASE evidence \subseteq evidence'
    BY Zenon, <2>1 DEF Carries
  <2>2. ASSUME NEW r \in Requests, Insert(r)
        PROVE  evidence \subseteq evidence'
    BY Zenon, <2>2 DEF Insert
  <2> QED
    BY Zenon, <1>1, <2>1, <2>2, RowsStay
<1>3. CASE row.status # "pending" \/ ~Held(row)
  BY Zenon, <1>2, <1>3 DEF Held
<1>4. CASE Tended(row.event)
  <2>1. CASE Tended(row.event)'
    <3>1. PICK kept \in evidence' : Carries(kept, row)
      BY Zenon, <1>2
    <3>2. Held(kept)'
      BY Zenon, <2>1, <3>1 DEF Held, Carries
    <3> QED
      BY Zenon, <3>1, <3>2
  <2>2. ASSUME NEW w \in Workers, Marks(w), wk[w].job = row.event
        PROVE  \E kept \in evidence' : Carries(kept, row) /\ Held(kept)'
    BY Zenon, <1>1, <2>2 DEF Held
  <2> QED
    BY Zenon, <1>4, <2>1, <2>2, TendedStays
<1> QED
  BY Zenon, <1>3, <1>4 DEF Held
\* Rows keep their hash, and the constraint keeps their sources apart.
LEMMA RowsFitStep ==
  ASSUME TypeOK, HashesFit, SourceIsUnique, [Next]_vars
  PROVE  HashesFit' /\ SourceIsUnique'
<1>1. ASSUME NEW w \in Workers, Marks(w)
      PROVE  HashesFit' /\ SourceIsUnique'
  <2>1. PICK status : status # "pending" /\ mark_evidence_status(wk[w].job, status)
    BY Zenon, <1>1, MarksSettle
  <2>2. SourceIsUnique' /\ \A kept \in evidence' : \E row \in evidence : Carries(kept, row)
    BY Zenon, <2>1, MarkSettles
  <2> QED
    BY Zenon, <2>2 DEF HashesFit, Carries
<1>2. ASSUME NEW r \in Requests, Insert(r), evidence' # evidence
      PROVE  HashesFit' /\ SourceIsUnique'
  <2> DEFINE b == req[r].body
             new == EvidenceRow(b)
  <2>1. evidence' = evidence \union {new} /\ WithSource(b) = {}
    BY Zenon, <1>2 DEF Insert, Conflicts
  <2>2. /\ new.hash = <<new.endpoint, new.source, new.raw>>
        /\ new.endpoint = b.endpoint /\ new.source = b.source
    BY Zenon DEF EvidenceRow, content_hash
  <2>3. \A row \in evidence :
          ~(b.source # NoSource /\ row.endpoint = b.endpoint /\ row.source = b.source)
    BY Zenon, <2>1 DEF WithSource
  <2> HIDE DEF new, b
  <2> QED
    BY <2>1, <2>2, <2>3 DEF HashesFit, SourceIsUnique
<1>3. CASE evidence' = evidence
  BY Zenon, <1>3 DEF HashesFit, SourceIsUnique
<1> QED
  BY Zenon, <1>1, <1>2, <1>3, RowsStay

\* What serves a content still serves it, held if it was.
LEMMA ServedStays ==
  ASSUME TypeOK, JobsAreStored, [Next]_vars
  PROVE  /\ \A hash, event :
              (\E row \in evidence : row.event = event /\ Serves(row, hash)) =>
                \E row \in evidence' : row.event = event /\ Serves(row, hash)
         /\ \A hash :
              (\E row \in evidence : Serves(row, hash) /\ Held(row)) =>
                \E row \in evidence' : Serves(row, hash) /\ Held(row)'
         /\ \A event : HasHeld(event) => HasHeld(event)'
<1>1. \A row \in evidence : \E kept \in evidence' :
        Carries(kept, row) /\ (Held(row) => Held(kept)')
  BY Zenon, HeldStays
<1>2. \A hash, kept, row : Carries(kept, row) /\ Serves(row, hash) => Serves(kept, hash)
  BY Zenon DEF Carries, Serves
<1>3. \A hash, event :
        (\E row \in evidence : row.event = event /\ Serves(row, hash)) =>
          \E row \in evidence' : row.event = event /\ Serves(row, hash)
  BY <1>1, <1>2 DEF Carries
<1>4. \A hash :
        (\E row \in evidence : Serves(row, hash) /\ Held(row)) =>
          \E row \in evidence' : Serves(row, hash) /\ Held(row)'
  BY Zenon, <1>1, <1>2
<1>5. ASSUME NEW event, HasHeld(event)
      PROVE  HasHeld(event)'
  <2>1. PICK mine \in evidence, row \in evidence :
          mine.event = event /\ row.hash = mine.hash /\ Held(row)
    BY Zenon, <1>5 DEF HasHeld
  <2>2. PICK own \in evidence' : Carries(own, mine)
    BY Zenon, <1>1
  <2>3. PICK kept \in evidence' : Carries(kept, row) /\ Held(kept)'
    BY Zenon, <1>1, <2>1
  <2>4. own.event = event /\ kept.hash = own.hash
    BY Zenon, <2>1, <2>2, <2>3 DEF Carries
  <2> QED
    BY Zenon, <2>2, <2>3, <2>4 DEF HasHeld
<1> QED
  BY Zenon, <1>3, <1>4, <1>5

\* The rows upsert_evidence finds serve the body.
LEMMA ExistingServes ==
  ASSUME HashesFit, NEW b, NEW row \in Existing(b)
  PROVE  row \in evidence /\ Serves(row, content_hash(b))
<1>1. content_hash(b)[1] = b.endpoint /\ content_hash(b)[2] = b.source
  BY Zenon DEF content_hash
<1>2. CASE row \in WithHash(b)
  <2>1. row \in evidence /\ row.hash = content_hash(b)
    BY Zenon, <1>2 DEF WithHash
  <2>2. row.hash[1] = row.endpoint /\ row.hash[2] = row.source
    <3>1. row.hash = <<row.endpoint, row.source, row.raw>>
      BY Zenon, <2>1 DEF HashesFit
    <3> QED
      BY <3>1
  <2> QED
    BY Zenon, <1>1, <2>1, <2>2 DEF Serves
<1>3. CASE row \in WithSource(b)
  <2>1. row \in evidence /\ b.source # NoSource
        /\ row.endpoint = b.endpoint /\ row.source = b.source
    BY Zenon, <1>3 DEF WithSource
  <2> QED
    BY Zenon, <1>1, <2>1 DEF Serves
<1> QED
  BY Zenon, <1>2, <1>3 DEF Existing

\* A new row serves its body.
LEMMA NewRowServes ==
  ASSUME NEW b
  PROVE  EvidenceRow(b).event = make_event_id(b) /\ Serves(EvidenceRow(b), content_hash(b))
BY Zenon DEF EvidenceRow, Serves, content_hash

\* A key stands for rows that are held, so a request that finds its key has one.
LEMMA KeyIsEnough ==
  ASSUME SourceIsUnique, KeysAreHeld, NEW hash \in keys, NEW event,
         \E row \in evidence : row.event = event /\ Serves(row, hash)
  PROVE  HasHeld(event)
<1>1. PICK mine \in evidence : mine.event = event /\ Serves(mine, hash)
  BY Zenon
<1>2. PICK row \in evidence : Serves(row, hash) /\ Held(row)
  BY Zenon DEF KeysAreHeld
<1>3. row.hash = mine.hash
  <2>1. CASE hash[2] = NoSource
    BY Zenon, <1>1, <1>2, <2>1 DEF Serves
  <2>2. CASE hash[2] # NoSource
    <3>1. row = mine
      BY Zenon, <1>1, <1>2, <2>2 DEF Serves, SourceIsUnique
    <3> QED
      BY Zenon, <3>1
  <2> QED
    BY Zenon, <2>1, <2>2
<1> QED
  BY Zenon, <1>1, <1>2, <1>3 DEF HasHeld
\* What Push puts on the queue is held.
LEMMA PushHolds ==
  ASSUME TypeOK, JobsAreStored, RequestsAreServed, NEW r \in Requests, Push(r)
  PROVE  /\ \E row \in evidence' : Serves(row, content_hash(req[r].body)) /\ Held(row)'
         /\ HasHeld(req[r].event)'
<1>1. /\ req[r].pc = "push" /\ queue' = Append(queue, req[r].event) /\ evidence' = evidence
  BY Zenon DEF Push, tables
<1>2. PICK row \in evidence : /\ row.event = req[r].event
                              /\ Serves(row, content_hash(req[r].body))
  BY Zenon, <1>1 DEF RequestsAreServed
<1>3. row.event \in EventIds
  BY Zenon DEF TypeOK, Rows
<1>4. \E k \in DOMAIN queue' : queue'[k] = row.event
  BY Zenon, <1>1, <1>2, <1>3, QueueGrows
<1>5. Held(row)'
  BY Zenon, <1>4 DEF Held, Tended
<1>6. req'[r].event = req[r].event
  BY Zenon DEF Push, Moves, TypeOK, RequestStates
<1> QED
  BY Zenon, <1>1, <1>2, <1>5, <1>6 DEF HasHeld

\* Every key stays one of a content in hand: Push notes it after the job is on the queue.
LEMMA KeysStep ==
  ASSUME TypeOK, JobsAreStored, KeysAreHeld, RequestsAreServed, [Next]_vars
  PROVE  KeysAreHeld'
<1>1. ASSUME NEW hash \in keys
      PROVE  \E row \in evidence' : Serves(row, hash) /\ Held(row)'
  BY Zenon, ServedStays DEF KeysAreHeld
<1>2. ASSUME NEW r \in Requests, Push(r)
      PROVE  KeysAreHeld'
  <2>1. keys' = keys \union {content_hash(req[r].body)}
    BY Zenon, <1>2 DEF Push
  <2> QED
    BY Zenon, <1>1, <1>2, <2>1, PushHolds DEF KeysAreHeld
<1>3. CASE keys' \subseteq keys
  BY Zenon, <1>1, <1>3 DEF KeysAreHeld
<1>4. ASSUME NEW r \in Requests, Handle(r) \/ RequestRaises(r), ~Push(r)
      PROVE  UNCHANGED keys
  BY Zenon, <1>4 DEF Handle, upsert_evidence, Insert, enqueue_classification_job,
              emit_trisk_event, post_review, RequestRaises
<1>5. ASSUME NEW w \in Workers, Work(w) \/ JobRaises(w) \/ WorkerDies(w)
      PROVE  UNCHANGED keys
  BY Zenon, <1>5 DEF Work, Take, SkipClassified, quarantine_evidence, Classify, store_incident_bundle,
              Flush, mirror_jsonl_audit, EmitEvents, Commit, JobRaises, WorkerDies
<1>6. ApiCrash \/ UNCHANGED vars => keys' \subseteq keys
  BY ZenonT(40) DEF ApiCrash, vars
<1> QED
  BY Zenon, <1>2, <1>3, <1>4, <1>5, <1>6 DEF Next

\* What the requests owe is kept: a request is answered 202 for a row that is held.
LEMMA RequestsStep ==
  ASSUME TypeOK, JobsAreStored, HandInv, [Next]_vars
  PROVE  RequestsAreServed' /\ AcceptedAreHeld'
<1> USE DEF HandInv
<1> DEFINE Served(q) == req'[q].pc \in {"enqueue", "push"} =>
             \E row \in evidence' : /\ row.event = req'[q].event
                                    /\ Serves(row, content_hash(req'[q].body))
           Accepted(q) ==
             /\ req'[q].answer = "202" => req'[q].pc = "done"
             /\ \/ req'[q].pc = "emit" /\ req'[q].body.route = "ingest"
                \/ req'[q].answer = "202"
                => HasHeld(req[q].event)'
<1>1. ASSUME NEW q \in Requests, req'[q] = req[q]
      PROVE  Served(q) /\ Accepted(q)
  <2>1. Served(q)
    <3>1. ASSUME req[q].pc \in {"enqueue", "push"}
          PROVE  \E row \in evidence' : /\ row.event = req[q].event
                                        /\ Serves(row, content_hash(req[q].body))
      <4>1. \E row \in evidence : /\ row.event = req[q].event
                                  /\ Serves(row, content_hash(req[q].body))
        BY Zenon, <3>1 DEF RequestsAreServed
      <4> QED
        BY Zenon, <4>1, ServedStays
    <3> QED
      BY Zenon, <1>1, <3>1
  <2>2. HasHeld(req[q].event) => HasHeld(req[q].event)'
    <3>1. \A event : HasHeld(event) => HasHeld(event)'
      BY Zenon, ServedStays
    <3>2. PICK event : event = req[q].event
      BY Zenon
    <3>3. HasHeld(event)' => HasHeld(req[q].event)'
      BY Zenon, <1>1, <3>2 DEF HasHeld
    <3> QED
      BY Zenon, <3>1, <3>2, <3>3
  <2>3. Accepted(q)
    BY Zenon, <1>1, <2>2 DEF AcceptedAreHeld
  <2> QED
    BY Zenon, <2>1, <2>3
<1>2. ASSUME NEW r \in Requests, Handle(r) \/ RequestRaises(r), NEW q \in Requests
      PROVE  Served(q) /\ Accepted(q)
  <2>1. CASE q # r
    <3>1. req'[q] = req[q]
      BY Zenon, <1>2, <2>1 DEF Handle, upsert_evidence, Insert, enqueue_classification_job, Push,
             emit_trisk_event, post_review, RequestRaises, Moves, Answers, TypeOK
    <3> QED
      BY ZenonT(40), <1>1, <3>1
  <2>2. CASE q = r /\ upsert_evidence(r)
    <3>1. req[r].pc = "idle" /\ req[r].answer # "202" /\ evidence' = evidence
      BY Zenon, <2>2 DEF upsert_evidence, AcceptedAreHeld, tables
    <3>2. req'[r].answer # "202" /\ req'[r].pc # "emit"
      BY <2>2, <3>1 DEF upsert_evidence, Answers, Moves, TypeOK, RequestStates
    <3>3. \A row \in Existing(req[r].body) :
            row \in evidence /\ Serves(row, content_hash(req[r].body))
      BY Zenon, ExistingServes
    <3>4. Served(r)
      BY <2>2, <3>1, <3>3 DEF upsert_evidence, Answers, Moves, TypeOK, RequestStates
    <3> QED
      BY Zenon, <2>2, <3>2, <3>4
  <2>3. CASE q = r /\ Insert(r)
    <3>1. req[r].answer # "202"
      BY Zenon, <2>3 DEF Insert, AcceptedAreHeld
    <3>2. req'[r].answer # "202" /\ req'[r].pc # "emit"
      BY <2>3, <3>1 DEF Insert, Answers, TypeOK, RequestStates
    <3>3. Served(r)
      <4>1. req'[r].body = req[r].body
        BY <2>3 DEF Insert, Answers, TypeOK, RequestStates
      <4>2. req'[r].pc \in {"enqueue", "push"} =>
              /\ req'[r].event = make_event_id(req[r].body)
              /\ EvidenceRow(req[r].body) \in evidence'
        BY <2>3 DEF Insert, Answers, TypeOK, RequestStates
      <4> QED
        BY Zenon, <4>1, <4>2, NewRowServes
    <3> QED
      BY Zenon, <2>3, <3>2, <3>3
  <2>4. CASE q = r /\ enqueue_classification_job(r)
    <3> DEFINE hash == content_hash(req[r].body)
    <3>1. /\ req[r].pc = "enqueue" /\ evidence' = evidence
          /\ req'[r].event = req[r].event /\ req'[r].body = req[r].body
          /\ req'[r].answer = req[r].answer /\ req[r].answer # "202"
          /\ req'[r].pc = IF hash \in keys THEN "emit" ELSE "push"
      BY Zenon, <2>4 DEF enqueue_classification_job, Moves, TypeOK, RequestStates, AcceptedAreHeld,
                  tables
    <3>2. \E row \in evidence : row.event = req[r].event /\ Serves(row, hash)
      BY Zenon, <3>1 DEF RequestsAreServed
    <3>3. hash \in keys => HasHeld(req[r].event)
      BY Zenon, <3>2, KeyIsEnough
    <3>4. HasHeld(req[r].event) => HasHeld(req[r].event)'
      <4>1. \A event : HasHeld(event) => HasHeld(event)'
        BY Zenon, ServedStays
      <4>2. PICK event : event = req[r].event
        BY Zenon
      <4>3. HasHeld(event)' => HasHeld(req[r].event)'
        BY Zenon, <3>1, <4>2 DEF HasHeld
      <4> QED
        BY Zenon, <4>1, <4>2, <4>3
    <3> HIDE DEF hash
    <3>5. Accepted(r)
      BY Zenon, <3>1, <3>3, <3>4
    <3>6. Served(r)
      BY Zenon, <3>1, <3>2 DEF hash
    <3> QED
      BY Zenon, <2>4, <3>5, <3>6
  <2>5. CASE q = r /\ Push(r)
    <3>1. req'[r].pc = "emit" /\ req'[r].answer # "202"
      BY Zenon, <2>5 DEF Push, Moves, TypeOK, RequestStates, AcceptedAreHeld
    <3>2. HasHeld(req[r].event)'
      BY Zenon, <2>5, PushHolds
    <3> QED
      BY Zenon, <2>5, <3>1, <3>2
  <2>6. CASE q = r /\ emit_trisk_event(r)
    <3>1. /\ req[r].pc = "emit" /\ req'[r].pc = "done" /\ req'[r].event = req[r].event
          /\ req'[r].answer = "202" => req[r].body.route = "ingest"
      BY <2>6 DEF emit_trisk_event, Answers, TypeOK, RequestStates
    <3>2. req[r].body.route = "ingest" => HasHeld(req[r].event)
      BY Zenon, <3>1 DEF AcceptedAreHeld
    <3>3. HasHeld(req[r].event) => HasHeld(req[r].event)'
      <4>1. \A event : HasHeld(event) => HasHeld(event)'
        BY Zenon, ServedStays
      <4>2. PICK event : event = req[r].event
        BY Zenon
      <4>3. HasHeld(event)' => HasHeld(req[r].event)'
        BY Zenon, <3>1, <4>2 DEF HasHeld
      <4> QED
        BY Zenon, <4>1, <4>2, <4>3
    <3> QED
      BY Zenon, <2>6, <3>1, <3>2, <3>3
  <2>7. CASE q = r /\ post_review(r)
    <3>1. req'[r].pc \in {"emit", "done"} /\ req'[r].body.route = "review"
          /\ req'[r].answer # "202"
      BY <2>7 DEF post_review, Moves, Answers, TypeOK, RequestStates, AcceptedAreHeld
    <3> QED
      BY Zenon, <2>7, <3>1
  <2>8. CASE q = r /\ RequestRaises(r)
    <3>1. req'[r].pc = "done" /\ req'[r].answer # "202"
      BY Zenon, <2>8 DEF RequestRaises, Answers, TypeOK, RequestStates
    <3> QED
      BY Zenon, <2>8, <3>1
  <2> QED
    BY Zenon, <1>2, <2>1, <2>2, <2>3, <2>4, <2>5, <2>6, <2>7, <2>8 DEF Handle
<1>3. ASSUME ApiCrash, NEW q \in Requests
      PROVE  Served(q) /\ Accepted(q)
  <2>1. req'[q] = req[q] \/ (req'[q].pc = "done" /\ req'[q].answer = "dropped")
    BY ZenonT(40), <1>3 DEF ApiCrash, TypeOK, RequestStates
  <2> QED
    BY Zenon, <1>1, <2>1
<1>4. UNCHANGED req => \A q \in Requests : Served(q) /\ Accepted(q)
  BY Zenon, <1>1
<1>5. \A q \in Requests : Served(q) /\ Accepted(q)
  BY Zenon, <1>2, <1>3, <1>4, Frames DEF vars
<1> QED
  BY Zenon, <1>5 DEF RequestsAreServed, AcceptedAreHeld

\* Evidence the API answered 202 for is settled, failed, queued or worked on, or another row of
\* its content is: no crash, lost enqueue or racing request makes it drop out unseen.
THEOREM AcceptedStaysInHand == Spec => []AcceptedIsInHand
<1> DEFINE Inv == TypeOK /\ JobsAreStored /\ EventIsUnique
<1>1. Spec => []Inv
  BY PipelineInvariant, PTL
<1>2. Init => HandInv
  <2> SUFFICES ASSUME Init PROVE HandInv
    BY Zenon
  <2>1. \A r \in Requests : req[r].pc = "idle" /\ req[r].answer = "none"
    BY DEF Init, Waiting
  <2>2. evidence = {} /\ keys = {}
    BY Zenon DEF Init
  <2> QED
    BY Zenon, <2>1, <2>2 DEF HandInv, HashesFit, SourceIsUnique, KeysAreHeld, RequestsAreServed,
                      AcceptedAreHeld
<1>3. Inv /\ HandInv /\ [Next]_vars => HandInv'
  BY Zenon, RowsFitStep, KeysStep, RequestsStep DEF HandInv
<1>4. Inv /\ HandInv => AcceptedIsInHand
  <2> SUFFICES ASSUME EventIsUnique, HandInv, NEW r \in Requests, req[r].answer = "202"
               PROVE  \E row \in evidence :
                        row.hash = RowOf(req[r].event).hash /\ InHand(row)
    BY Zenon DEF AcceptedIsInHand
  <2>1. PICK mine \in evidence, row \in evidence :
          mine.event = req[r].event /\ row.hash = mine.hash /\ Held(row)
    BY Zenon DEF HandInv, AcceptedAreHeld, HasHeld
  <2>2. RowOf(req[r].event) = mine
    BY <2>1, RowIsStored DEF Has, EventIsUnique
  <2>3. InHand(row)
    BY Zenon, <2>1 DEF Held, Tended, InHand
  <2> QED
    BY Zenon, <2>1, <2>2, <2>3
<1> QED
  BY <1>1, <1>2, <1>3, <1>4, PTL DEF Spec
=============================================================================
