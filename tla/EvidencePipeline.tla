-------------------------- MODULE EvidencePipeline --------------------------
(***************************************************************************)
(* The technology-risk evidence pipeline in its compose deployment: POST    *)
(* /v1/evidence and /v1/incidents/{id}/review (backend/v1_routes.py) over   *)
(* Postgres (backend/db/repositories.py), classification jobs on a Redis    *)
(* queue (backend/queue/rq_backend.py) and the workers that run them        *)
(* (backend/workers/classifier_worker.py).                                  *)
(*                                                                          *)
(* The handlers run on a thread pool, so requests interleave at their       *)
(* database, queue and file accesses.  A session sees committed rows only;  *)
(* a unique constraint makes the later of two conflicting inserts wait for  *)
(* the earlier transaction and fail if that one commits.                    *)
(***************************************************************************)
EXTENDS EvidenceAnalytics, Sequences, FiniteSets

CONSTANTS Requests,    \* the requests the API receives
          Loads,       \* what they carry: functions from Requests to bodies
          Workers,     \* the rq worker processes
          NoJob, NoSource,
          MaxFaults    \* crashes, failed file writes and failed enqueues

ASSUME MaxFaultsAssumption == MaxFaults \in Nat

VARIABLES endpoints,   \* trisk_endpoints
          evidence,    \* trisk_evidence_events
          incidents,   \* trisk_incidents
          reviews,     \* trisk_human_reviews
          chain,       \* trisk_audit_chain
          mirror,      \* the rows of audit.jsonl
          log,         \* the events of trisk_domain_events.jsonl
          queue,       \* the Redis list of event ids to classify
          failed,      \* the event ids whose job raised (the failed job registry)
          keys,        \* _IDEMPOTENCY of the API process
          req,         \* each request: pc, body, the evidence row it works on, its answer
          wk,          \* each worker: pc, job, the incident it stores, whether that is new, and
                       \* the index its audit row gets
          faults

vars == <<endpoints, evidence, incidents, reviews, chain, mirror, log, queue, failed, keys,
          req, wk, faults>>
tables == <<endpoints, evidence, incidents, reviews, chain>>
files == <<mirror, log>>

REVIEW_CLASSES == {"UNKNOWN_LOCAL_PROXY", "SUSPICIOUS_PROXY", "SUSPICIOUS_LOCAL_PROXY",
                   "POSSIBLE_MITM_RISK", "REVERTER_SUSPECTED"}

Waiting(b) == [pc |-> "idle", body |-> b, event |-> NoJob, answer |-> "none"]
Idle == [pc |-> "idle", job |-> NoJob, incident |-> NoJob, new |-> FALSE, index |-> 0]

Init == /\ endpoints = {}
        /\ evidence = {}
        /\ incidents = {}
        /\ reviews = {}
        /\ chain = {}
        /\ mirror = {}
        /\ log = {}
        /\ queue = <<>>
        /\ failed = {}
        /\ keys = {}
        /\ \E load \in Loads : req = [r \in Requests |-> Waiting(load[r])]
        /\ wk = [w \in Workers |-> Idle]
        /\ faults = 0

------------------------------------------------------------------------------
\* The rows

\* The time stamp is no part of the content, the content no part of the event id.
content_hash(b) == <<b.endpoint, b.source, b.raw>>
make_event_id(b) == <<b.timestamp, b.endpoint>>

EvidenceRow(b) == [event |-> make_event_id(b), source |-> b.source, hash |-> content_hash(b),
                   endpoint |-> b.endpoint, raw |-> b.raw, status |-> "pending"]

RowOf(event) == CHOOSE row \in evidence : row.event = event

WithHash(b) == {row \in evidence : row.hash = content_hash(b)}
WithSource(b) == {row \in evidence : /\ b.source # NoSource
                                     /\ row.endpoint = b.endpoint
                                     /\ row.source = b.source}

\* The rows upsert_evidence may answer with: the query has no order.
Existing(b) == IF WithHash(b) # {} THEN WithHash(b) ELSE WithSource(b)

\* uq_endpoint_source_event, the unique event id and the unique endpoint id
Conflicts(b, endpointIsNew) == \/ endpointIsNew /\ b.endpoint \in endpoints
                               \/ \E row \in evidence : row.event = make_event_id(b)
                               \/ WithSource(b) # {}

incident_exists_for_evidence(event) == \E i \in incidents : i.event = event

mark_evidence_status(event, status) ==
  evidence' = {IF row.event = event THEN [row EXCEPT !.status = status] ELSE row :
                 row \in evidence}

------------------------------------------------------------------------------
\* The API

Moves(r, pc) == req' = [req EXCEPT ![r].pc = pc]
Answers(r, answer) == req' = [req EXCEPT ![r].pc = "done", ![r].answer = answer]

assert_can_ingest(role) == role \in {"admin", "operator"}
assert_can_review(role) == role \in {"admin", "risk_reviewer"}

\* A request arrives; its handler checks the role, and ensure_endpoint and upsert_evidence read
\* the committed rows ...
upsert_evidence(r) ==
  LET b == req[r].body IN
  /\ req[r].pc = "idle" /\ b.route = "ingest"
  /\ IF ~assert_can_ingest(b.role) THEN Answers(r, "403")
     ELSE IF Existing(b) # {}
       THEN \E row \in Existing(b) :
              req' = [req EXCEPT ![r].pc = "enqueue", ![r].event = row.event]
     ELSE Moves(r, IF b.endpoint \in endpoints THEN "insert" ELSE "insertBoth")
  /\ UNCHANGED <<tables, files, queue, failed, keys, wk, faults>>

\* ... and the missing ones are inserted and committed, unless another request did so first:
\* an IntegrityError nothing handles.
Insert(r) ==
  LET b == req[r].body IN
  /\ req[r].pc \in {"insert", "insertBoth"}
  /\ IF Conflicts(b, req[r].pc = "insertBoth")
       THEN /\ Answers(r, "500")
            /\ UNCHANGED <<endpoints, evidence>>
       ELSE /\ endpoints' = endpoints \union {b.endpoint}
            /\ evidence' = evidence \union {EvidenceRow(b)}
            /\ req' = [req EXCEPT ![r].pc = "enqueue", ![r].event = make_event_id(b)]
  /\ UNCHANGED <<incidents, reviews, chain, files, queue, failed, keys, wk, faults>>

\* Mutant: the key is noted before the job is in Redis.
enqueue_classification_job_KeyFirst(r) ==
  /\ req[r].pc = "enqueue"
  /\ Moves(r, IF content_hash(req[r].body) \in keys THEN "emit" ELSE "push")
  /\ keys' = keys \union {content_hash(req[r].body)}
  /\ UNCHANGED <<tables, files, queue, failed, wk, faults>>

\* enqueue_classification_job: a content enqueued before is not enqueued again ...
enqueue_classification_job(r) ==
  /\ req[r].pc = "enqueue"
  /\ Moves(r, IF content_hash(req[r].body) \in keys THEN "emit" ELSE "push")
  /\ UNCHANGED <<tables, files, queue, failed, keys, wk, faults>>

\* ... and the key is noted after the job is in Redis.
Push(r) ==
  /\ req[r].pc = "push"
  /\ queue' = Append(queue, req[r].event)
  /\ keys' = keys \union {content_hash(req[r].body)}
  /\ Moves(r, "emit")
  /\ UNCHANGED <<tables, files, failed, wk, faults>>

Event(type, about) == [type |-> type, about |-> about]

emit_trisk_event(r) ==
  /\ req[r].pc = "emit"
  /\ IF req[r].body.route = "ingest"
       THEN /\ log' = log \union {Event("EvidenceCollected", req[r].event)}
            /\ Answers(r, "202")
       ELSE /\ log' = log \union {Event("HumanApprovalGranted", req[r].body.incident)}
            /\ Answers(r, "200")
  /\ UNCHANGED <<tables, mirror, queue, failed, keys, wk, faults>>

\* post_review adds a row of its own; the row that waits for the review is left as it is.
post_review(r) ==
  LET b == req[r].body
      known == \E i \in incidents : i.id = b.incident
  IN /\ req[r].pc = "idle" /\ b.route = "review"
     /\ IF assert_can_review(b.role) /\ known
          THEN /\ reviews' = reviews \union {[incident |-> b.incident, status |-> b.action]}
               /\ Moves(r, "emit")
          ELSE /\ Answers(r, IF assert_can_review(b.role) THEN "404" ELSE "403")
               /\ UNCHANGED reviews
     /\ UNCHANGED <<endpoints, evidence, incidents, chain, files, queue, failed, keys, wk, faults>>

\* Redis, or the event log, cannot be written: the request ends with an error.
RequestRaises(r) ==
  /\ req[r].pc \in {"push", "emit"}
  /\ faults < MaxFaults
  /\ faults' = faults + 1
  /\ Answers(r, "500")
  /\ UNCHANGED <<tables, files, queue, failed, keys, wk>>

\* The API process is restarted: its requests are dropped, its memory is gone.
ApiCrash ==
  /\ faults < MaxFaults
  /\ faults' = faults + 1
  /\ \E r \in Requests : req[r].pc \notin {"idle", "done"}
  /\ keys' = {}
  /\ req' = [r \in Requests |-> IF req[r].pc \in {"idle", "done"} THEN req[r]
                                ELSE [req[r] EXCEPT !.pc = "done", !.answer = "dropped"]]
  /\ UNCHANGED <<tables, files, queue, failed, wk>>

------------------------------------------------------------------------------
\* The workers

\* A worker that has flushed holds the locks of its uncommitted rows.
Flushed(w) == wk[w].pc \in {"mirror", "events", "commit"}
RowIsFree(w) == \A v \in Workers \ {w} : ~(Flushed(v) /\ wk[v].job = wk[w].job)
IdIsFree(w) == \A v \in Workers \ {w} :
                 ~(Flushed(v) /\ wk[v].new /\ wk[v].incident.id = wk[w].incident.id)

Take(w) ==
  /\ wk[w].pc = "idle"
  /\ queue # <<>>
  /\ queue' = Tail(queue)
  /\ wk' = [wk EXCEPT ![w] = [Idle EXCEPT !.pc = "start", !.job = Head(queue)]]
  /\ UNCHANGED <<tables, files, failed, keys, req, faults>>

Ends(w) == wk' = [wk EXCEPT ![w] = Idle]
Skips(w) == incident_exists_for_evidence(wk[w].job)

\* What the pipeline makes of each snapshot a request may carry.
Sent == {load[r] : load \in Loads, r \in Requests}
Snapshots == {b.raw : b \in {c \in Sent : c.route = "ingest"}}
Analysis == [f \in Snapshots |-> run_endpoint_analytics_pipeline(f)]

Found(event) == Analysis[RowOf(event).raw]
Outcome(w) == Found(wk[w].job).outcome

\* The incident is there: the evidence is marked, and the job is done.
SkipClassified(w) ==
  /\ wk[w].pc = "start" /\ Skips(w) /\ RowIsFree(w)
  /\ mark_evidence_status(wk[w].job, "classified")
  /\ Ends(w)
  /\ UNCHANGED <<endpoints, incidents, reviews, chain, files, queue, failed, keys, req, faults>>

\* Mutant: a job that raises is put back on the queue.
quarantine_evidence_Requeues(w) ==
  /\ wk[w].pc = "start" /\ ~Skips(w) /\ RowIsFree(w)
  /\ Outcome(w) # "incident"
  /\ mark_evidence_status(wk[w].job, "quarantined")
  /\ queue' = IF Outcome(w) = "raises" THEN Append(queue, wk[w].job) ELSE queue
  /\ Ends(w)
  /\ UNCHANGED <<endpoints, incidents, reviews, chain, files, failed, keys, req, faults>>

\* The pipeline raises or finds no incident; if it raises, so does the job.
quarantine_evidence(w) ==
  /\ wk[w].pc = "start" /\ ~Skips(w) /\ RowIsFree(w)
  /\ Outcome(w) # "incident"
  /\ mark_evidence_status(wk[w].job, "quarantined")
  /\ failed' = IF Outcome(w) = "raises" THEN failed \union {wk[w].job} ELSE failed
  /\ Ends(w)
  /\ UNCHANGED <<endpoints, incidents, reviews, chain, files, queue, keys, req, faults>>

\* Mutant: the status is committed before the incident is stored.
Classify_MarksEarly(w) ==
  /\ wk[w].pc = "start" /\ ~Skips(w)
  /\ Outcome(w) = "incident"
  /\ mark_evidence_status(wk[w].job, "classified")
  /\ wk' = [wk EXCEPT ![w].pc = "store"]
  /\ UNCHANGED <<endpoints, incidents, reviews, chain, files, queue, failed, keys, req, faults>>

Classify(w) ==
  /\ wk[w].pc = "start" /\ ~Skips(w)
  /\ Outcome(w) = "incident"
  /\ wk' = [wk EXCEPT ![w].pc = "store"]
  /\ UNCHANGED <<tables, files, queue, failed, keys, req, faults>>

\* The incident the bundle is about to store.
Made(event) == [id |-> Found(event).id, event |-> event, class |-> Found(event).verdict.class]

\* Mutant: the incident id is drawn at random.
store_incident_bundle_FreshId(w) ==
  /\ wk[w].pc = "store"
  /\ wk' = [wk EXCEPT ![w].pc = "flush", ![w].new = TRUE,
                      ![w].incident = [Made(wk[w].job) EXCEPT !.id = <<"uuid", w>>]]
  /\ UNCHANGED <<tables, files, queue, failed, keys, req, faults>>

\* The incidents of this evidence, else those of this id.
Same(event) == LET mine == {i \in incidents : i.event = event}
               IN  IF mine # {} THEN mine ELSE {i \in incidents : i.id = Found(event).id}

\* store_incident_bundle looks again for an incident and makes one if there is none.
store_incident_bundle(w) ==
  /\ wk[w].pc = "store"
  /\ IF Same(wk[w].job) = {}
       THEN wk' = [wk EXCEPT ![w].pc = "flush", ![w].new = TRUE,
                             ![w].incident = Made(wk[w].job)]
       ELSE \E i \in Same(wk[w].job) :
              wk' = [wk EXCEPT ![w].pc = "flush", ![w].new = FALSE, ![w].incident = i]
  /\ UNCHANGED <<tables, files, queue, failed, keys, req, faults>>

\* append_audit_chain_row: the index after the last of the committed rows.
IsNextIndex(n) == IF chain = {} THEN n = 0
                  ELSE \E last \in chain : /\ n = last.index + 1
                                            /\ \A row \in chain : row.index <= last.index

\* The inserts are sent: they wait for a transaction that holds the same row or id, and raise
\* if that one committed the id.
Flush(w) ==
  /\ wk[w].pc = "flush"
  /\ RowIsFree(w)
  /\ wk[w].new => IdIsFree(w)
  /\ IF wk[w].new /\ \E i \in incidents : i.id = wk[w].incident.id
       THEN /\ failed' = failed \union {wk[w].job}
            /\ Ends(w)
       ELSE /\ \E n \in 0..Cardinality(chain) :
                 /\ IsNextIndex(n)
                 /\ wk' = [wk EXCEPT ![w].pc = "mirror", ![w].index = n]
            /\ UNCHANGED failed
  /\ UNCHANGED <<tables, files, queue, keys, req, faults>>

\* The mirror row and the domain events are written before the commit.
mirror_jsonl_audit(w) ==
  /\ wk[w].pc = "mirror"
  /\ mirror' = mirror \union {[event |-> wk[w].job, incident |-> wk[w].incident.id]}
  /\ wk' = [wk EXCEPT ![w].pc = "events"]
  /\ UNCHANGED <<tables, log, queue, failed, keys, req, faults>>

EventTypes == {"IncidentDetected", "RiskClassified", "ControlTestCompleted"}

EmitEvents(w) ==
  /\ wk[w].pc = "events"
  /\ log' = log \union {Event(type, wk[w].incident.id) : type \in EventTypes}
  /\ wk' = [wk EXCEPT ![w].pc = "commit"]
  /\ UNCHANGED <<tables, mirror, queue, failed, keys, req, faults>>

StatusFor(class) == IF class \in REVIEW_CLASSES THEN "review_required" ELSE "classified"

\* Mutant: the transaction commits before the domain events are written.
Commit_Early(w) ==
  LET i == wk[w].incident IN
  /\ wk[w].pc \in {"events", "commit"}
  /\ incidents' = IF wk[w].new THEN incidents \union {i} ELSE incidents
  /\ reviews' = IF wk[w].new /\ i.class \in REVIEW_CLASSES
                  THEN reviews \union {[incident |-> i.id, status |-> "PENDING_REVIEW"]}
                  ELSE reviews
  /\ mark_evidence_status(wk[w].job, StatusFor(i.class))
  /\ chain' = chain \union {[index |-> wk[w].index, event |-> wk[w].job, incident |-> i.id]}
  /\ Ends(w)
  /\ UNCHANGED <<endpoints, files, queue, failed, keys, req, faults>>

\* The transaction: the incident with the review it needs, the status, the audit chain row.
Commit(w) ==
  LET i == wk[w].incident IN
  /\ wk[w].pc = "commit"
  /\ incidents' = IF wk[w].new THEN incidents \union {i} ELSE incidents
  /\ reviews' = IF wk[w].new /\ i.class \in REVIEW_CLASSES
                  THEN reviews \union {[incident |-> i.id, status |-> "PENDING_REVIEW"]}
                  ELSE reviews
  /\ mark_evidence_status(wk[w].job, StatusFor(i.class))
  /\ chain' = chain \union {[index |-> wk[w].index, event |-> wk[w].job, incident |-> i.id]}
  /\ Ends(w)
  /\ UNCHANGED <<endpoints, files, queue, failed, keys, req, faults>>

\* A file cannot be written: the transaction is rolled back and the job fails.
JobRaises(w) ==
  /\ Flushed(w) /\ wk[w].pc # "commit"
  /\ faults < MaxFaults
  /\ faults' = faults + 1
  /\ failed' = failed \union {wk[w].job}
  /\ Ends(w)
  /\ UNCHANGED <<tables, files, queue, keys, req>>

\* The worker dies and is restarted, its job is put back (docs/operational-runbook.md).
WorkerDies(w) ==
  /\ wk[w].pc # "idle"
  /\ faults < MaxFaults
  /\ faults' = faults + 1
  /\ queue' = Append(queue, wk[w].job)
  /\ Ends(w)
  /\ UNCHANGED <<tables, files, failed, keys, req>>

------------------------------------------------------------------------------
Handle(r) == \/ upsert_evidence(r) \/ Insert(r)
             \/ enqueue_classification_job(r) \/ Push(r)
             \/ emit_trisk_event(r) \/ post_review(r)

Work(w) == \/ Take(w) \/ SkipClassified(w) \/ quarantine_evidence(w) \/ Classify(w)
           \/ store_incident_bundle(w) \/ Flush(w) \/ mirror_jsonl_audit(w)
           \/ EmitEvents(w) \/ Commit(w)

Next == \/ \E r \in Requests : Handle(r) \/ RequestRaises(r)
        \/ \E w \in Workers : Work(w) \/ JobRaises(w) \/ WorkerDies(w)
        \/ ApiCrash

Spec == Init /\ [][Next]_vars

\* The workers take jobs and finish them.
FairSpec == Spec /\ WF_vars(\E w \in Workers : Work(w))
------------------------------------------------------------------------------
\* The inductive invariant

Ingests == {b \in Sent : b.route = "ingest"}
EventIds == {make_event_id(b) : b \in Ingests}

Rows == [event : EventIds, source : {b.source : b \in Ingests},
         hash : {content_hash(b) : b \in Ingests}, endpoint : {b.endpoint : b \in Ingests},
         raw : Snapshots, status : {"pending", "classified", "review_required", "quarantined"}]
Incidents == [id : {Analysis[f].id : f \in Snapshots}, event : EventIds,
              class : {Analysis[f].verdict.class : f \in Snapshots}]

RequestStates == [pc : {"idle", "insert", "insertBoth", "enqueue", "push", "emit", "done"},
                  body : Sent, event : EventIds \union {NoJob},
                  answer : {"none", "200", "202", "403", "404", "500", "dropped"}]
WorkerStates == [pc : {"idle", "start", "store", "flush", "mirror", "events", "commit"},
                 job : EventIds \union {NoJob}, incident : Incidents \union {NoJob},
                 new : BOOLEAN, index : Nat]

TypeOK ==
  /\ evidence \subseteq Rows
  /\ incidents \subseteq Incidents
  /\ IsFiniteSet(chain)
  /\ queue \in Seq(EventIds)
  /\ req \in [Requests -> RequestStates]
  /\ wk \in [Workers -> WorkerStates]

\* An event id is that of one row.
EventIsUnique == \A a, b \in evidence : a.event = b.event => a = b

Has(event) == \E row \in evidence : row.event = event

\* A job is about a stored row; only evidence is inserted.
JobsAreStored == /\ \A k \in DOMAIN queue : Has(queue[k])
                 /\ \A r \in Requests : req[r].pc \in {"enqueue", "push"} => Has(req[r].event)
                 /\ \A r \in Requests : req[r].pc \in {"insert", "insertBoth"} =>
                                         req[r].body.route = "ingest"
                 /\ \A w \in Workers : wk[w].pc # "idle" => Has(wk[w].job)

\* The row of an event is one the pipeline finds an incident in.
IsIncident(event) == \E row \in evidence : /\ row.event = event
                                           /\ Analysis[row.raw].outcome = "incident"

\* The pipeline gives the row of an event this incident id.
HasId(event, id) == \E row \in evidence : row.event = event /\ Analysis[row.raw].id = id

\* An incident, stored or about to be, is the one the pipeline finds in its evidence.
IncidentsAreFound ==
  /\ \A i \in incidents : IsIncident(i.event) /\ HasId(i.event, i.id)
  /\ \A w \in Workers : wk[w].pc \notin {"idle", "start"} => IsIncident(wk[w].job)
  /\ \A w \in Workers : wk[w].pc = "flush" \/ Flushed(w) =>
       IF wk[w].new THEN /\ wk[w].incident \in Incidents
                         /\ wk[w].incident.event = wk[w].job
                         /\ HasId(wk[w].job, wk[w].incident.id)
       ELSE wk[w].incident \in incidents

\* The id of an uncommitted incident is that of no other, committed or not.
IdsAreExclusive ==
  /\ \A i, j \in incidents : i.id = j.id => i = j
  /\ \A w \in Workers : Flushed(w) /\ wk[w].new =>
       /\ \A i \in incidents : i.id # wk[w].incident.id
       /\ IdIsFree(w)

\* What a worker has written before it commits.
FilesAreWritten ==
  \A w \in Workers :
    /\ wk[w].pc \in {"events", "commit"} =>
         [event |-> wk[w].job, incident |-> wk[w].incident.id] \in mirror
    /\ wk[w].pc = "commit" => \A type \in EventTypes : Event(type, wk[w].incident.id) \in log

\* A settled row has its audit row, a quarantined one nothing the pipeline calls an incident.
StatusIsEarned ==
  \A row \in evidence :
    /\ row.status \in {"classified", "review_required"} =>
         \E entry \in chain : entry.event = row.event
    /\ row.status = "quarantined" => Analysis[row.raw].outcome # "incident"

------------------------------------------------------------------------------
\* Properties

\* An evidence event never has two incidents and an incident id never two rows, whichever
\* workers run its job how often (docs/service-level-objectives.md: no duplicate incident).
OneIncidentPerEvidence == \A i, j \in incidents : i.event = j.event \/ i.id = j.id => i = j

\* A committed incident is never without its audit chain row, its row in audit.jsonl, its
\* domain events and, for a class that needs one, the review that waits.
BundleIsWhole ==
  \A i \in incidents :
    /\ \E row \in chain : row.event = i.event /\ row.incident = i.id
    /\ [event |-> i.event, incident |-> i.id] \in mirror
    /\ \A type \in EventTypes : Event(type, i.id) \in log
    /\ i.class \in REVIEW_CLASSES =>
         [incident |-> i.id, status |-> "PENDING_REVIEW"] \in reviews

InHand(row) == \/ row.status # "pending"
               \/ row.event \in failed
               \/ \E k \in DOMAIN queue : queue[k] = row.event
               \/ \E w \in Workers : wk[w].pc # "idle" /\ wk[w].job = row.event

\* Evidence the API answered 202 for is classified, or its job is queued, running or in the
\* failed registry: no crash, lost enqueue or racing request makes it drop out unseen.  Two
\* racing requests may store one content twice; then one of the two rows is enough.
AcceptedIsInHand ==
  \A r \in Requests : req[r].answer = "202" =>
    \E row \in evidence : row.hash = RowOf(req[r].event).hash /\ InHand(row)

\* A row marked classified or review_required has an audit chain row; a quarantined row has no
\* incident.
SettledHasRecord ==
  \A row \in evidence :
    /\ row.status \in {"classified", "review_required"} =>
         \E entry \in chain : entry.event = row.event
    /\ row.status = "quarantined" => ~incident_exists_for_evidence(row.event)

\* What was classified satisfies what EvidenceAnalytics promises of the three tables.
AnalyticsAgree ==
  \A row \in evidence : row.status \in {"classified", "review_required"} =>
    /\ BrokenIsReviewed(row.raw)
    /\ LowHasNoFailure(row.raw)
    /\ OnlyDeadScoresHigh(row.raw)

\* The queue drains: every job ends, also one that raises.
Drains == <>[](queue = <<>> /\ \A w \in Workers : wk[w].pc = "idle")

\* What the worker calls itself, "idempotent": a job run again leaves the status it set.
SettledStaysSettled ==
  [][\A row \in evidence : row.status # "pending" => row \in evidence']_evidence
=============================================================================
