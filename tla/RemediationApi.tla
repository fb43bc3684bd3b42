--------------------------- MODULE RemediationApi ---------------------------
(***************************************************************************)
(* The /platform routes of backend/platform_routes.py that write the JSONL  *)
(* platform store: ingest of failure events and snapshots, remediation      *)
(* preview and execute, last-known-good snapshots, rollback previews,       *)
(* attribution, diagnosis, correlation and reasoning runs, and incident     *)
(* transitions, with the registry, policy, role and audit helpers they      *)
(* call.                                                                    *)
(*                                                                          *)
(* FastAPI runs the handlers on a thread pool.  A handler decides once,     *)
(* from what it reads, and then performs a list of steps: each append is    *)
(* atomic (one locked write), while the contract audit row is a read of the *)
(* last audit row followed by an append, and a live repair waits for its    *)
(* script.  Requests interleave between any two steps, an append may raise  *)
(* (disk, lock timeout) and the server may be killed.                       *)
(***************************************************************************)
EXTENDS Integers, Sequences

CONSTANTS Requests,      \* identities of requests, and of the rows they create
          Bodies,        \* the bodies each request may carry
          NoBody,
          NoLink,        \* an empty previous_hash
          DemoMode,      \* DEMO_MODE
          OnWindows,     \* sys.platform == "win32"
          ScriptsOnDisk, \* the .bat files that exist under scripts/
          ShellLike,     \* action names with shell metacharacters
          MaxFaults      \* bound on appends that raise and server restarts

\* What a handler can decide, and the states of an incident
Decisions == {"allow", "preview_only", "blocked", "ALLOW", "PREVIEW", "BLOCK"}
States == {"OPEN", "ACKNOWLEDGED", "MITIGATED", "RESOLVED", "FALSE_POSITIVE"}

ASSUME ApiAssumption == /\ \A r \in Requests :
                             /\ NoBody \notin Bodies[r]
                             /\ \A b \in Bodies[r] :
                                  /\ b.route \in {"diagnosis", "correlation"} => b.policy \in Decisions
                                  /\ b.route = "incident" => b.state \in States
                        /\ NoLink \notin Requests
                        /\ DemoMode \in BOOLEAN
                        /\ OnWindows \in BOOLEAN
                        /\ MaxFaults \in Nat

VARIABLES failureEvents, \* event ids in failure_events.jsonl
          previews,      \* rows of remediation_previews.jsonl
          executions,    \* rows of remediation_executions.jsonl
          stored,        \* rows of the other files: last-known-good snapshots, diagnosis
                         \* runs, endpoint snapshots, attributions, reasoning runs
          incidents,     \* the states of one incident, in the order of incidents.jsonl
          audit,         \* audit.jsonl
          body,          \* the body of each request
          todo,          \* the steps a handler still has to perform
          tail,          \* the previous_hash a handler has read
          answer,        \* what the client was told: "none" while in flight
          spawned,       \* requests whose repair script was started
          faults

vars == <<failureEvents, previews, executions, stored, incidents, audit, body, todo, tail,
          answer, spawned, faults>>
files == <<failureEvents, previews, executions, stored, incidents, audit>>

-----------------------------------------------------------------------------
(* The registry.                                                            *)

all_surfaces == {"api", "cli", "dashboard"}

Row(risk, surfaces, script, apiExecute, phrase, manual) ==
  [risk_level |-> risk, allowed_surfaces |-> surfaces, script_path |-> script,
   api_execute_allowed |-> apiExecute, confirmation_phrase |-> phrase,
   manual_only |-> manual]

ReadOnlyRow == Row("read_only", all_surfaces, "", FALSE, "", FALSE)
ForbiddenRow == Row("forbidden", {}, "", FALSE, "", FALSE)

REMEDIATION_REGISTRY ==
  [inspect_proxy |-> ReadOnlyRow,
   preview_dns_flush |-> ReadOnlyRow,
   export_report |-> ReadOnlyRow,
   reset_dns |-> Row("medium", all_surfaces, "reset_dns.bat", TRUE, "RUN_DNS_RESET", FALSE),
   reset_proxy |-> Row("medium", all_surfaces, "reset_proxy.bat", TRUE, "RUN_PROXY_RESET", FALSE),
   stop_proxy_listener |-> Row("high", {"cli"}, "", FALSE, "STOP_PROXY_LISTENER", TRUE),
   stop_proxy_reverter |-> Row("high", {"cli"}, "", FALSE, "STOP_PROXY_REVERTER", TRUE),
   winsock_reset |-> Row("medium", all_surfaces, "", FALSE, "RUN_WINSOCK_RESET", TRUE),
   tcpip_reset |-> Row("medium", all_surfaces, "", FALSE, "RUN_TCPIP_RESET", TRUE),
   firewall_reset_manual_only |->
     Row("high", all_surfaces, "reset_firewall.bat", FALSE, "RUN_FIREWALL_RESET", TRUE),
   arbitrary_command_forbidden |-> ForbiddenRow,
   adapter_disable_forbidden |-> ForbiddenRow,
   process_kill_forbidden |-> ForbiddenRow,
   certificate_delete_forbidden |-> ForbiddenRow]

ACTION_ALIASES ==
  [reset_winsock |-> "winsock_reset",
   reset_tcpip |-> "tcpip_reset",
   reset_firewall |-> "firewall_reset_manual_only",
   arbitrary_command |-> "arbitrary_command_forbidden",
   process_kill |-> "process_kill_forbidden",
   kill_process |-> "process_kill_forbidden",
   certificate_delete |-> "certificate_delete_forbidden",
   delete_certificate |-> "certificate_delete_forbidden"]

canonical_action_name(a) == IF a \in DOMAIN ACTION_ALIASES THEN ACTION_ALIASES[a] ELSE a

Known(a) == canonical_action_name(a) \in DOMAIN REMEDIATION_REGISTRY
get_remediation_action(a) == REMEDIATION_REGISTRY[canonical_action_name(a)]

list_script_basenames == {REMEDIATION_REGISTRY[a].script_path : a \in DOMAIN REMEDIATION_REGISTRY}
                           \ {""}

allowlisted_script(script) ==
  /\ script \in list_script_basenames \cup {"auto_diagnose.bat", "proxy_status.bat"}
  /\ script \in ScriptsOnDisk

-----------------------------------------------------------------------------
(* Policy and roles.                                                        *)

\* DEFAULT_POLICY: every surface may run, read_only, low and medium risk.
evaluate_action(a, surface) ==
  /\ Known(a)
  /\ get_remediation_action(a).risk_level \in {"read_only", "low", "medium"}
  /\ \/ get_remediation_action(a).allowed_surfaces = {}
     \/ surface \in get_remediation_action(a).allowed_surfaces

\* The stored preview: its id is that of the request that asked for it.
build_preview(r, b) ==
  [id |-> r, action |-> b.action, event |-> b.event,
   requires_typed_confirmation |->
     \/ ~Known(b.action)
     \/ /\ get_remediation_action(b.action).risk_level \in {"low", "medium"}
        /\ get_remediation_action(b.action).confirmation_phrase # ""]

\* Mutant: the phrase of any action of the registry will do.
validate_confirmation_phrase_AnyPhrase(a, phrase) ==
  \E x \in DOMAIN REMEDIATION_REGISTRY : phrase = REMEDIATION_REGISTRY[x].confirmation_phrase

validate_confirmation_phrase(a, phrase) ==
  \/ get_remediation_action(a).confirmation_phrase = ""
  \/ phrase = get_remediation_action(a).confirmation_phrase

is_shell_injection(a) == a \in ShellLike

assert_can_preview(role) == role \in {"operator", "admin"}
assert_can_write_platform_payload(role) == role \in {"operator", "admin"}
assert_can_execute(role, dry) == role = "admin" \/ (role = "operator" /\ dry)

-----------------------------------------------------------------------------
(* What a handler decides: the steps it will perform, and its answer.       *)

Reply(what) == <<[op |-> "reply", what |-> what]>>
Store(what) == <<[op |-> what, what |-> ""]>>
Exec(result) == <<[op |-> "execution", what |-> result]>>
write_audit(decision) == <<[op |-> "audit", what |-> decision]>>
append_contract_audit(decision) == Store("tail") \o <<[op |-> "contract", what |-> decision]>>

ingest_failure_event(b) ==
  IF ~assert_can_write_platform_payload(b.role) THEN Reply("403")
  ELSE Store("failure_event") \o write_audit("ingest") \o Reply("stored")

remediation_preview(b) ==
  IF ~assert_can_preview(b.role) THEN Reply("403")
  ELSE IF is_shell_injection(b.action) THEN Reply("400")
  ELSE IF b.event \notin failureEvents THEN Reply("404")
  ELSE LET allowed == evaluate_action(b.action, b.surface)
           decision == IF allowed THEN "preview_only" ELSE "blocked"
       IN  Store("preview") \o write_audit(IF allowed THEN "allowed" ELSE "blocked")
             \o append_contract_audit(decision) \o Reply(decision)

PreviewOf(b) == CHOOSE p \in previews : p.id = b.preview

\* The decision of the answer is that of the audit row, and not the result of the execution.
execution_contract_payload(decision) == append_contract_audit(decision) \o Reply(decision)

ExecuteBlocked ==
  Exec("blocked") \o write_audit("blocked") \o execution_contract_payload("blocked")

ExecuteRefused == append_contract_audit("blocked") \o Reply("400")

\* Mutant: a dry run leaves no contract audit row.
ExecuteDryRun_NoAudit == Exec("dry_run") \o Reply("preview_only")

ExecuteDryRun == Exec("dry_run") \o execution_contract_payload("preview_only")

ExecuteElsewhere == Exec("failure") \o execution_contract_payload("blocked")

\* Mutant: the script starts before the pending row is written.
ExecuteLive_SpawnFirst == <<[op |-> "spawn", what |-> ""]>> \o write_audit("pending")

ExecuteLive == write_audit("pending") \o <<[op |-> "spawn", what |-> ""]>>

ExecuteKnown(b, preview) ==
  LET defn == get_remediation_action(preview.action) IN
  IF ~evaluate_action(preview.action, "api") THEN ExecuteBlocked
  ELSE IF /\ preview.requires_typed_confirmation
          /\ ~validate_confirmation_phrase(preview.action, b.phrase) THEN ExecuteRefused
  ELSE IF ~b.dry_run /\ (defn.manual_only \/ ~defn.api_execute_allowed) THEN ExecuteBlocked
  ELSE IF b.dry_run \/ defn.script_path = "" THEN ExecuteDryRun
  ELSE IF ~OnWindows THEN ExecuteElsewhere
  ELSE IF ~allowlisted_script(defn.script_path) THEN ExecuteRefused
  ELSE ExecuteLive

remediation_execute(b) ==
  IF ~assert_can_execute(b.role, b.dry_run) \/ (DemoMode /\ ~b.dry_run) THEN Reply("403")
  ELSE IF ~\E p \in previews : p.id = b.preview THEN Reply("404")
  ELSE IF ~Known(PreviewOf(b).action) THEN ExecuteRefused
  ELSE ExecuteKnown(b, PreviewOf(b))

\* store_lkg_snapshot: the snapshot, then its audit row.
post_lkg_snapshot(b) ==
  IF ~assert_can_preview(b.role) THEN Reply("403")
  ELSE Store("lkg") \o append_contract_audit("allow") \o Reply("stored")

AllowedFields == {"ProxyEnable", "ProxyServer", "AutoConfigURL", "ProxyOverride", "AutoDetect"}

\* build_rollback_preview: nothing but an audit row.
rollback_preview(b) ==
  IF ~assert_can_preview(b.role) THEN Reply("403")
  ELSE LET decision == IF /\ \E s \in stored : s.kind = "lkg" /\ s.endpoint = b.endpoint
                          /\ b.fields \cap AllowedFields # {}
                       THEN "preview_only" ELSE "blocked"
       IN  append_contract_audit(decision) \o Reply(decision)

\* build_diagnosis_run: the audit row first, the diagnosis names it.  The policy of the body is
\* what classify_diagnosis derives from the probes.
build_diagnosis_run(b) ==
  append_contract_audit(b.policy) \o Store("diagnosis") \o Reply(b.policy)

\* POST /snapshots: the row, then a plain audit row.
post_snapshot(b) ==
  IF ~assert_can_write_platform_payload(b.role) THEN Reply("403")
  ELSE Store("snapshot") \o write_audit("snapshot") \o Reply("stored")

\* GET /attribution with persist: the attribution record, then a plain audit row.
platform_attribution(b) ==
  IF b.role \notin {"operator", "admin", "security_auditor"} THEN Reply("403")
  ELSE IF b.event \notin failureEvents THEN Reply("404")
  ELSE Store("attribution") \o write_audit("attribution_resolve") \o Reply("stored")

agent_next_step(b) == append_contract_audit("preview_only") \o Reply("preview_only")

\* The policy of the body is the outcome of correlate.
correlation_run(b) ==
  IF ~assert_can_preview(b.role) THEN Reply("403")
  ELSE append_contract_audit(b.policy) \o Reply(b.policy)

\* The run is stored; then PlatformAuditEvent refuses the event kind "reasoning_run", which is
\* not one of PlatformEventKind, and the request ends in an error without an audit row.
reasoning_run(b) ==
  IF ~assert_can_preview(b.role) THEN Reply("403")
  ELSE Store("reasoning") \o Reply("500")

VALID_TRANSITIONS ==
  [OPEN |-> {"ACKNOWLEDGED", "MITIGATED", "RESOLVED", "FALSE_POSITIVE"},
   ACKNOWLEDGED |-> {"MITIGATED", "RESOLVED", "FALSE_POSITIVE"},
   MITIGATED |-> {"RESOLVED", "FALSE_POSITIVE"},
   RESOLVED |-> {},
   FALSE_POSITIVE |-> {}]

can_transition(from, to) == to \in VALID_TRANSITIONS[from]

\* The routes ack, resolve and false-positive: the check reads the last row, the new row is
\* appended later; a refused transition is an unhandled ValueError.
apply_transition(b) ==
  IF ~assert_can_write_platform_payload(b.role) THEN Reply("403")
  ELSE IF ~can_transition(incidents[Len(incidents)], b.state) THEN Reply("500")
  ELSE Store("incident") \o Reply(b.state)

Handler(b) == IF b.route = "ingest" THEN ingest_failure_event(b)
              ELSE IF b.route = "preview" THEN remediation_preview(b)
              ELSE IF b.route = "execute" THEN remediation_execute(b)
              ELSE IF b.route = "lkg" THEN post_lkg_snapshot(b)
              ELSE IF b.route = "rollback" THEN rollback_preview(b)
              ELSE IF b.route = "diagnosis" THEN build_diagnosis_run(b)
              ELSE IF b.route = "incident" THEN apply_transition(b)
              ELSE IF b.route = "snapshot" THEN post_snapshot(b)
              ELSE IF b.route = "attribution" THEN platform_attribution(b)
              ELSE IF b.route = "next_step" THEN agent_next_step(b)
              ELSE IF b.route = "correlation" THEN correlation_run(b)
              ELSE reasoning_run(b)

-----------------------------------------------------------------------------
Init == /\ failureEvents = {} /\ previews = {} /\ executions = {} /\ stored = {}
        /\ incidents = <<"OPEN">>   \* as evaluate_incident_candidate leaves it
        /\ audit = <<>>
        /\ body = [r \in Requests |-> NoBody]
        /\ todo = [r \in Requests |-> <<>>]
        /\ tail = [r \in Requests |-> NoLink]
        /\ answer = [r \in Requests |-> "none"]
        /\ spawned = {}
        /\ faults = 0

At(r, op) == todo[r] # <<>> /\ Head(todo[r]).op = op
What(r) == Head(todo[r]).what
Replies(steps) == Len(steps) = 1 /\ steps[1].op = "reply"

\* The handler goes on with these steps, and returns when only its answer is left.
Continue(r, steps) ==
  /\ todo' = [todo EXCEPT ![r] = IF Replies(steps) THEN <<>> ELSE steps]
  /\ answer' = IF Replies(steps) THEN [answer EXCEPT ![r] = steps[1].what] ELSE answer

Advance(r) == Continue(r, Tail(todo[r]))

\* A request arrives and its handler reads the store and decides.
Receive(r, b) == /\ body[r] = NoBody
                 /\ body' = [body EXCEPT ![r] = b]
                 /\ Continue(r, Handler(b))
                 /\ UNCHANGED <<files, tail, spawned, faults>>

\* append_jsonl on one of the row files.
AppendFailureEvent(r) == /\ At(r, "failure_event")
                         /\ failureEvents' = failureEvents \cup {body[r].event}
                         /\ Advance(r)
                         /\ UNCHANGED <<previews, executions, stored, incidents, audit, body, tail,
                                        spawned, faults>>

AppendPreview(r) == /\ At(r, "preview")
                    /\ previews' = previews \cup {build_preview(r, body[r])}
                    /\ Advance(r)
                    /\ UNCHANGED <<failureEvents, executions, stored, incidents, audit, body, tail,
                                   spawned, faults>>

AppendExecution(r) == /\ At(r, "execution")
                      /\ executions' = executions \cup {[id |-> r, preview |-> body[r].preview,
                                                         result |-> What(r)]}
                      /\ Advance(r)
                      /\ UNCHANGED <<failureEvents, previews, stored, incidents, audit, body, tail,
                                     spawned, faults>>

AppendStored(r) == /\ \E kind \in {"lkg", "diagnosis", "snapshot", "attribution", "reasoning"} :
                        /\ At(r, kind)
                        /\ stored' = stored \cup {[id |-> r, kind |-> kind,
                                                   endpoint |-> body[r].endpoint]}
                   /\ Advance(r)
                   /\ UNCHANGED <<failureEvents, previews, executions, incidents, audit, body, tail,
                                  spawned, faults>>

\* transition_incident
AppendIncident(r) == /\ At(r, "incident")
                     /\ incidents' = incidents \o <<body[r].state>>
                     /\ Advance(r)
                     /\ UNCHANGED <<failureEvents, previews, executions, stored, audit, body, tail,
                                    spawned, faults>>

\* record_audit: a row without a hash.
AppendAudit(r) == /\ At(r, "audit")
                  /\ audit' = audit \o <<[kind |-> "plain", id |-> r, what |-> What(r),
                                          previous |-> NoLink]>>
                  /\ Advance(r)
                  /\ UNCHANGED <<failureEvents, previews, executions, stored, incidents, body, tail,
                                 spawned, faults>>

\* Mutant: the link takes the id of a row that has no hash.
LastHash_AnyRow == IF audit = <<>> THEN NoLink ELSE audit[Len(audit)].id

\* The hash of the last row; a row of write_audit has none.
LastHash == IF audit = <<>> \/ audit[Len(audit)].kind = "plain" THEN NoLink
            ELSE audit[Len(audit)].id

ReadTail(r) == /\ At(r, "tail")
               /\ tail' = [tail EXCEPT ![r] = LastHash]
               /\ Advance(r)
               /\ UNCHANGED <<files, body, spawned, faults>>

AppendContract(r) == /\ At(r, "contract")
                     /\ audit' = audit \o <<[kind |-> "contract", id |-> r, what |-> What(r),
                                             previous |-> tail[r]]>>
                     /\ Advance(r)
                     /\ UNCHANGED <<failureEvents, previews, executions, stored, incidents, body, tail,
                                    spawned, faults>>

\* subprocess.run starts the script and waits for it.
Spawn(r) == /\ At(r, "spawn")
            /\ spawned' = spawned \cup {r}
            /\ Continue(r, <<[op |-> "wait", what |-> ""]>> \o Tail(todo[r]))
            /\ UNCHANGED <<files, body, tail, faults>>

ScriptEnds(r) == /\ At(r, "wait")
                 /\ \E result \in {"success", "failure"} :
                      Continue(r, Tail(todo[r]) \o Exec(result) \o write_audit(result)
                                    \o execution_contract_payload(
                                         IF result = "success" THEN "allow" ELSE "preview_only"))
                 /\ UNCHANGED <<files, body, tail, spawned, faults>>

\* Mutant: no timeout on the script.
ScriptTimesOut_Never(r) == FALSE /\ UNCHANGED vars

\* TimeoutExpired after 120 s: no row of write_audit.
ScriptTimesOut(r) == /\ At(r, "wait")
                     /\ Continue(r, Tail(todo[r]) \o Exec("failure")
                                      \o execution_contract_payload("preview_only"))
                     /\ UNCHANGED <<files, body, tail, spawned, faults>>

\* An append raises (lock timeout, disk): the handler ends in an error answer.
AppendRaises(r) == /\ todo[r] # <<>> /\ Head(todo[r]).op \notin {"spawn", "wait", "tail"}
                   /\ faults < MaxFaults
                   /\ faults' = faults + 1
                   /\ todo' = [todo EXCEPT ![r] = <<>>]
                   /\ answer' = [answer EXCEPT ![r] = "500"]
                   /\ UNCHANGED <<files, body, tail, spawned>>

\* The server is killed: requests in flight get no answer, the files stay.
Crash == /\ faults < MaxFaults
         /\ faults' = faults + 1
         /\ \E r \in Requests : todo[r] # <<>>
         /\ answer' = [r \in Requests |-> IF todo[r] # <<>> THEN "lost" ELSE answer[r]]
         /\ todo' = [r \in Requests |-> <<>>]
         /\ UNCHANGED <<files, body, tail, spawned>>

Step(r) == \/ AppendFailureEvent(r) \/ AppendPreview(r) \/ AppendExecution(r) \/ AppendStored(r)
           \/ AppendIncident(r) \/ AppendAudit(r) \/ ReadTail(r) \/ AppendContract(r)
           \/ Spawn(r) \/ ScriptTimesOut(r)

Next == \/ \E r \in Requests : \/ \E b \in Bodies[r] : Receive(r, b)
                               \/ Step(r) \/ ScriptEnds(r) \/ AppendRaises(r)
        \/ Crash

\* Fairness: some handler's thread runs on, and subprocess.run returns by its timeout.
Spec == Init /\ [][Next]_vars /\ WF_vars(\E r \in Requests : Step(r))

-----------------------------------------------------------------------------
Contracts(r) == {i \in DOMAIN audit : audit[i].kind = "contract" /\ audit[i].id = r}
Plain(r, what) == {i \in DOMAIN audit : audit[i] = [kind |-> "plain", id |-> r, what |-> what,
                                                    previous |-> NoLink]}

\* Every repair script that was ever started was asked for by an admin outside demo mode, not
\* as a dry run, with the typed phrase of the action, for an action the registry lets the API
\* execute, and from a stored preview of that very action for a stored failure event: the
\* gates of remediation_execute, spread over rbac, policy and registry, hold together.
LiveIsAuthorised ==
  \A r \in spawned :
    LET b == body[r] IN
    /\ b.role = "admin" /\ ~b.dry_run /\ ~DemoMode
    /\ \E p \in previews :
         /\ p.id = b.preview /\ p.event \in failureEvents
         /\ get_remediation_action(p.action).api_execute_allowed
         /\ ~get_remediation_action(p.action).manual_only
         /\ get_remediation_action(p.action).confirmation_phrase = b.phrase

\* No live run is silent: the pending row of audit.jsonl is there before the script starts, so
\* it survives a crash or a failed append, and a request that ended normally has its execution
\* row and its contract audit row whatever the script did.
LiveIsAccounted ==
  \A r \in spawned :
    /\ Plain(r, "pending") # {}
    /\ answer[r] \notin {"none", "500", "lost"} =>
         /\ Contracts(r) # {}
         /\ \E x \in executions : x.id = r /\ x.result \in {"success", "failure"}

\* The decision the answer of r stands for
Told(r) == IF answer[r] = "400" THEN "blocked"
           ELSE IF answer[r] = "stored" THEN "allow" ELSE answer[r]

\* A client is told a decision only once it is on record: an answer other than a refusal before
\* the decision (403, 404), an error or a row the agent sends has exactly one contract audit
\* row, which carries that very decision (a 400 is "blocked" there), and a stored diagnosis has
\* the audit row it names even when the server dies meanwhile.
DecisionIsAudited ==
  /\ \A r \in Requests :
       (/\ body[r] # NoBody /\ body[r].route \notin {"ingest", "snapshot", "attribution", "incident"}
        /\ answer[r] \notin {"none", "500", "lost", "403", "404"}
        /\ ~(body[r].route = "preview" /\ answer[r] = "400")) =>
         \E i \in DOMAIN audit : Contracts(r) = {i} /\ audit[i].what = Told(r)
  /\ \A s \in stored : s.kind = "diagnosis" => Contracts(s.id) # {}

\* The previous_hash of a contract row is the hash of a contract row that stands earlier in the
\* file, or empty: concurrent appends may share a predecessor, but never name a row without a
\* hash, a later row or one that was never written (append_contract_audit).
LinksPointBack ==
  \A i \in DOMAIN audit :
    audit[i].previous # NoLink =>
      \E j \in 1..(i - 1) : audit[j].kind = "contract" /\ audit[j].id = audit[i].previous

\* What the tests ask of apply_transition: each state an incident takes follows from the one
\* before it by VALID_TRANSITIONS, so a resolved incident stays resolved.
IncidentHistoryIsValid ==
  \A i \in 1..(Len(incidents) - 1) : can_transition(incidents[i], incidents[i + 1])

\* The server always comes to rest: every request it received ends in an answer, an error or
\* the loss of the server, also when a repair script hangs (subprocess.run has a timeout).
Resting == \A r \in Requests : body[r] # NoBody => answer[r] # "none"
RequestsEnd == ~Resting ~> Resting
=============================================================================
