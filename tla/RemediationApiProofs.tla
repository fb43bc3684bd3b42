----------------------- MODULE RemediationApiProofs -----------------------
(***************************************************************************)
(* Proofs about RemediationApi: what must hold before a repair script is    *)
(* started, what it leaves behind, where the links of the audit file lead   *)
(* and which answers it accounts for, for any requests, any interleaving    *)
(* and any faults.                                                          *)
(***************************************************************************)
EXTENDS RemediationApi, SequenceTheorems, TLAPS

OpNames == {"reply", "failure_event", "preview", "execution", "lkg", "diagnosis", "snapshot",
            "attribution", "reasoning", "incident", "audit", "tail", "contract", "spawn", "wait"}
Whats == Decisions \cup States
           \cup {"", "403", "404", "400", "500", "stored", "ingest", "snapshot",
                 "attribution_resolve", "allowed", "dry_run", "failure", "success", "pending"}
Steps == [op : OpNames, what : Whats]
AuditRows == [kind : {"plain", "contract"}, id : Requests, what : Whats,
              previous : Requests \cup {NoLink}]

\* The kinds of steps in a list
Ops(s) == {s[k].op : k \in DOMAIN s}

TypeOK == /\ audit \in Seq(AuditRows)
          /\ todo \in [Requests -> Seq(Steps)]
          /\ tail \in [Requests -> Requests \cup {NoLink}]
          /\ spawned \subseteq Requests
          /\ DOMAIN body = Requests
          /\ DOMAIN answer = Requests
          /\ \A r \in Requests : body[r] # NoBody => body[r] \in Bodies[r]

-----------------------------------------------------------------------------
(* Lists of steps.                                                          *)

\* A list of one step,
LEMMA OneStep ==
  ASSUME NEW op \in OpNames, NEW what \in Whats
  PROVE  /\ <<[op |-> op, what |-> what]>> \in Seq(Steps)
         /\ Ops(<<[op |-> op, what |-> what]>>) = {op}
  BY DEF Steps, Ops

\* and two lists joined, with the operations they hold.
LEMMA JoinedSteps ==
  ASSUME NEW s \in Seq(Steps), NEW t \in Seq(Steps)
  PROVE  s \o t \in Seq(Steps) /\ Ops(s \o t) = Ops(s) \cup Ops(t)
<1>1. s \o t \in Seq(Steps)
  OBVIOUS
<1>2. /\ DOMAIN (s \o t) = 1..(Len(s) + Len(t))
      /\ \A k \in 1..Len(s) : (s \o t)[k] = s[k]
      /\ \A k \in 1..Len(t) : (s \o t)[Len(s) + k] = t[k]
      /\ DOMAIN s = 1..Len(s) /\ DOMAIN t = 1..Len(t) /\ Len(s) \in Nat /\ Len(t) \in Nat
  OBVIOUS
<1>3. ASSUME NEW op \in Ops(s \o t)
      PROVE  op \in Ops(s) \cup Ops(t)
  <2>1. PICK k \in 1..(Len(s) + Len(t)) : op = (s \o t)[k].op
    BY Zenon, <1>2, <1>3 DEF Ops
  <2>2. CASE k \in 1..Len(s)
    BY Zenon, <1>2, <2>1, <2>2 DEF Ops
  <2>3. CASE k \notin 1..Len(s)
    <3>1. k - Len(s) \in 1..Len(t) /\ k = Len(s) + (k - Len(s))
      BY <1>2, <2>3
    <3>2. (s \o t)[k] = t[k - Len(s)]
      BY Zenon, <1>2, <3>1
    <3> QED
      BY Zenon, <1>2, <2>1, <3>1, <3>2 DEF Ops
  <2> QED
    BY Zenon, <2>2, <2>3
<1>4. ASSUME NEW op \in Ops(s)
      PROVE  op \in Ops(s \o t)
  <2>1. PICK k \in 1..Len(s) : op = s[k].op
    BY Zenon, <1>2, <1>4 DEF Ops
  <2>2. k \in 1..(Len(s) + Len(t)) /\ (s \o t)[k] = s[k]
    BY <1>2
  <2> QED
    BY Zenon, <1>2, <2>1, <2>2 DEF Ops
<1>5. ASSUME NEW op \in Ops(t)
      PROVE  op \in Ops(s \o t)
  <2>1. PICK k \in 1..Len(t) : op = t[k].op
    BY Zenon, <1>2, <1>5 DEF Ops
  <2>2. Len(s) + k \in 1..(Len(s) + Len(t)) /\ (s \o t)[Len(s) + k] = t[k]
    BY <1>2
  <2> QED
    BY <1>2, <2>1, <2>2, Zenon DEF Ops
<1> QED
  BY Zenon, <1>1, <1>3, <1>4, <1>5

\* A handler performs the first of its steps: the others stay.
LEMMA RemainingSteps ==
  ASSUME NEW s \in Seq(Steps), s # <<>>
  PROVE  /\ Head(s) \in Steps /\ Tail(s) \in Seq(Steps)
         /\ Ops(s) = {Head(s).op} \cup Ops(Tail(s))
<1>1. /\ Head(s) \in Steps /\ Tail(s) \in Seq(Steps)
      /\ Head(s) = s[1] /\ Len(s) \in Nat /\ Len(s) >= 1 /\ DOMAIN s = 1..Len(s)
      /\ DOMAIN Tail(s) = 1..(Len(s) - 1)
      /\ \A k \in 1..(Len(s) - 1) : Tail(s)[k] = s[k + 1]
  OBVIOUS
<1>2. ASSUME NEW op \in Ops(s)
      PROVE  op = Head(s).op \/ op \in Ops(Tail(s))
  <2>1. PICK k \in 1..Len(s) : op = s[k].op
    BY Zenon, <1>1, <1>2 DEF Ops
  <2>2. CASE k = 1
    BY Zenon, <1>1, <2>1, <2>2
  <2>3. CASE k # 1
    <3>1. k - 1 \in 1..(Len(s) - 1) /\ (k - 1) + 1 = k
      BY <1>1, <2>3
    <3>2. Tail(s)[k - 1] = s[k]
      BY Zenon, <1>1, <3>1
    <3> QED
      BY <1>1, <2>1, <3>1, <3>2, Zenon DEF Ops
  <2> QED
    BY Zenon, <2>2, <2>3
<1>3. Head(s).op \in Ops(s)
  <2>1. 1 \in DOMAIN s
    BY <1>1
  <2> QED
    BY Zenon, <1>1, <2>1 DEF Ops
<1>4. ASSUME NEW op \in Ops(Tail(s))
      PROVE  op \in Ops(s)
  <2>1. PICK k \in 1..(Len(s) - 1) : op = Tail(s)[k].op
    BY Zenon, <1>1, <1>4 DEF Ops
  <2>2. k + 1 \in 1..Len(s) /\ Tail(s)[k] = s[k + 1]
    BY <1>1
  <2> QED
    BY Zenon, <1>1, <2>1, <2>2 DEF Ops
<1> QED
  BY Zenon, <1>1, <1>2, <1>3, <1>4

\* Continue keeps every step but an answer that stands alone, and touches no other request.
LEMMA ContinueSteps ==
  ASSUME TypeOK, NEW r \in Requests, NEW s \in Seq(Steps), Continue(r, s)
  PROVE  /\ todo' \in [Requests -> Seq(Steps)] /\ DOMAIN answer' = Requests
         /\ \/ todo'[r] = s /\ answer'[r] = answer[r] /\ ~Replies(s)
            \/ todo'[r] = <<>> /\ Ops(s) = {"reply"} /\ Len(s) = 1 /\ answer'[r] = s[1].what
         /\ \A q \in Requests \ {r} : todo'[q] = todo[q] /\ answer'[q] = answer[q]
<1>1. todo' = [todo EXCEPT ![r] = IF Replies(s) THEN <<>> ELSE s]
  BY Zenon DEF Continue
<1>2. answer' = IF Replies(s) THEN [answer EXCEPT ![r] = s[1].what] ELSE answer
  BY Zenon DEF Continue
<1>3. Replies(s) => Ops(s) = {"reply"} /\ Len(s) = 1
  BY DEF Replies, Ops
<1>4. <<>> \in Seq(Steps)
  OBVIOUS
<1>5. todo \in [Requests -> Seq(Steps)] /\ DOMAIN answer = Requests
  BY Zenon DEF TypeOK
<1>6. CASE Replies(s)
  BY Zenon, <1>1, <1>2, <1>3, <1>4, <1>5, <1>6
<1>7. CASE ~Replies(s)
  BY Zenon, <1>1, <1>2, <1>5, <1>7
<1> QED
  BY Zenon, <1>6, <1>7
-----------------------------------------------------------------------------
(* What the handlers decide.                                                *)

\* Steps that neither start or await a script nor store a preview
Quiet(s) == s \in Seq(Steps) /\ Ops(s) \cap {"spawn", "wait", "preview"} = {}

\* A step other than a script or a preview is quiet,
LEMMA QuietStep ==
  ASSUME NEW op \in OpNames \ {"spawn", "wait", "preview"}, NEW what \in Whats
  PROVE  Quiet(<<[op |-> op, what |-> what]>>)
  BY OneStep DEF Quiet

\* quiet lists joined are quiet,
LEMMA QuietJoin ==
  ASSUME NEW s, NEW t, Quiet(s), Quiet(t)
  PROVE  Quiet(s \o t)
  BY Zenon, JoinedSteps DEF Quiet

\* and so are the lists most branches are built from.
LEMMA QuietLists ==
  ASSUME NEW what \in Whats
  PROVE  /\ Quiet(Reply(what)) /\ Quiet(Exec(what)) /\ Quiet(write_audit(what))
         /\ Quiet(append_contract_audit(what)) /\ Quiet(execution_contract_payload(what))
<1>1. {"reply", "execution", "audit", "tail", "contract"} \subseteq OpNames \ {"spawn", "wait", "preview"}
  BY Zenon DEF OpNames
<1>2. "" \in Whats
  BY Zenon DEF Whats
<1>3. Quiet(Reply(what)) /\ Quiet(Exec(what)) /\ Quiet(write_audit(what))
  BY Zenon, <1>1, QuietStep DEF Reply, Exec, write_audit
<1>4. Quiet(Store("tail")) /\ Quiet(<<[op |-> "contract", what |-> what]>>)
  BY <1>1, <1>2, QuietStep, Zenon DEF Store
<1>5. Quiet(append_contract_audit(what))
  BY <1>4, QuietJoin, Zenon DEF append_contract_audit
<1>6. Quiet(execution_contract_payload(what))
  BY <1>3, <1>5, QuietJoin, Zenon DEF execution_contract_payload
<1> QED
  BY Zenon, <1>3, <1>5, <1>6

\* The registry: what the API may execute asks for a phrase and has the risk of a repair.
LEMMA ExecutableHasPhrase ==
  ASSUME NEW a, Known(a), get_remediation_action(a).api_execute_allowed
  PROVE  /\ get_remediation_action(a).risk_level = "medium"
         /\ get_remediation_action(a).confirmation_phrase # ""
<1> DEFINE n == canonical_action_name(a)
<1>1. n \in DOMAIN REMEDIATION_REGISTRY
  BY Zenon DEF Known
<1>2. get_remediation_action(a) = REMEDIATION_REGISTRY[n]
  BY Zenon DEF get_remediation_action
<1> HIDE DEF n
<1>3. n \in {"inspect_proxy", "preview_dns_flush", "export_report", "reset_dns", "reset_proxy",
             "stop_proxy_listener", "stop_proxy_reverter", "winsock_reset", "tcpip_reset",
             "firewall_reset_manual_only", "arbitrary_command_forbidden",
             "adapter_disable_forbidden", "process_kill_forbidden",
             "certificate_delete_forbidden"}
  BY Zenon, <1>1 DEF REMEDIATION_REGISTRY
<1>4. /\ ~REMEDIATION_REGISTRY.inspect_proxy.api_execute_allowed
      /\ ~REMEDIATION_REGISTRY.preview_dns_flush.api_execute_allowed
      /\ ~REMEDIATION_REGISTRY.export_report.api_execute_allowed
      /\ ~REMEDIATION_REGISTRY.stop_proxy_listener.api_execute_allowed
      /\ ~REMEDIATION_REGISTRY.stop_proxy_reverter.api_execute_allowed
      /\ ~REMEDIATION_REGISTRY.winsock_reset.api_execute_allowed
      /\ ~REMEDIATION_REGISTRY.tcpip_reset.api_execute_allowed
      /\ ~REMEDIATION_REGISTRY.firewall_reset_manual_only.api_execute_allowed
  BY Zenon DEF REMEDIATION_REGISTRY, Row, ReadOnlyRow
<1>5. /\ ~REMEDIATION_REGISTRY.arbitrary_command_forbidden.api_execute_allowed
      /\ ~REMEDIATION_REGISTRY.adapter_disable_forbidden.api_execute_allowed
      /\ ~REMEDIATION_REGISTRY.process_kill_forbidden.api_execute_allowed
      /\ ~REMEDIATION_REGISTRY.certificate_delete_forbidden.api_execute_allowed
  BY Zenon DEF REMEDIATION_REGISTRY, Row, ForbiddenRow
<1>6. /\ REMEDIATION_REGISTRY.reset_dns.risk_level = "medium"
      /\ REMEDIATION_REGISTRY.reset_dns.confirmation_phrase # ""
      /\ REMEDIATION_REGISTRY.reset_proxy.risk_level = "medium"
      /\ REMEDIATION_REGISTRY.reset_proxy.confirmation_phrase # ""
  BY Zenon DEF REMEDIATION_REGISTRY, Row
<1>7. n \in {"reset_dns", "reset_proxy"}
  BY Zenon, <1>2, <1>3, <1>4, <1>5
<1> QED
  BY <1>2, <1>6, <1>7, Zenon

\* The conjunction of all gates, for a request and the files as they are
Authorised(b) ==
  /\ b.role = "admin" /\ ~b.dry_run /\ ~DemoMode
  /\ \E p \in previews :
       /\ p.id = b.preview /\ p.event \in failureEvents
       /\ get_remediation_action(p.action).api_execute_allowed
       /\ ~get_remediation_action(p.action).manual_only
       /\ get_remediation_action(p.action).confirmation_phrase = b.phrase

\* A stored preview is about a stored event, and asks for the phrase of its action.
PreviewsAreFounded ==
  \A p \in previews :
    /\ p.event \in failureEvents
    /\ /\ Known(p.action)
       /\ get_remediation_action(p.action).risk_level = "medium"
       /\ get_remediation_action(p.action).confirmation_phrase # ""
       => p.requires_typed_confirmation

\* What is known of the steps a handler has decided on
Decided(b, s) ==
  /\ s \in Seq(Steps)
  /\ "wait" \notin Ops(s)
  /\ "spawn" \in Ops(s) => s = ExecuteLive /\ Authorised(b)
  /\ "preview" \in Ops(s) => b.event \in failureEvents

\* The branches of remediation_execute: only the live one starts a script.
LEMMA ExecuteLists ==
  /\ Quiet(ExecuteBlocked) /\ Quiet(ExecuteRefused) /\ Quiet(ExecuteDryRun) /\ Quiet(ExecuteElsewhere)
  /\ ExecuteLive \in Seq(Steps) /\ Ops(ExecuteLive) = {"audit", "spawn"}
<1>1. /\ "blocked" \in Whats /\ "400" \in Whats /\ "dry_run" \in Whats
      /\ "preview_only" \in Whats /\ "failure" \in Whats /\ "pending" \in Whats
  BY Zenon DEF Whats, Decisions
<1>2. Quiet(ExecuteRefused)
  BY <1>1, QuietLists, QuietJoin, Zenon DEF ExecuteRefused
<1>3. Quiet(ExecuteDryRun)
  BY <1>1, QuietLists, QuietJoin, Zenon DEF ExecuteDryRun
<1>4. Quiet(ExecuteElsewhere)
  BY <1>1, QuietLists, QuietJoin, Zenon DEF ExecuteElsewhere
<1>5. Quiet(ExecuteBlocked)
  <2>1. Quiet(Exec("blocked") \o write_audit("blocked"))
    BY <1>1, QuietLists, QuietJoin, Zenon
  <2> QED
    BY <1>1, <2>1, QuietLists, QuietJoin, Zenon DEF ExecuteBlocked
<1>6. ExecuteLive \in Seq(Steps) /\ Ops(ExecuteLive) = {"audit", "spawn"}
  <2>1. "audit" \in OpNames /\ "spawn" \in OpNames /\ "" \in Whats
    BY Zenon DEF OpNames, Whats
  <2> DEFINE s == <<[op |-> "audit", what |-> "pending"]>>
             t == <<[op |-> "spawn", what |-> ""]>>
  <2>2. s \in Seq(Steps) /\ Ops(s) = {"audit"}
    BY <1>1, <2>1, OneStep, Zenon
  <2>3. t \in Seq(Steps) /\ Ops(t) = {"spawn"}
    BY <2>1, OneStep, Zenon
  <2>4. ExecuteLive = s \o t
    BY Zenon DEF ExecuteLive, write_audit
  <2> HIDE DEF s, t
  <2>5. s \o t \in Seq(Steps) /\ Ops(s \o t) = Ops(s) \cup Ops(t)
    BY Zenon, <2>2, <2>3, JoinedSteps
  <2> QED
    BY Zenon, <2>2, <2>3, <2>4, <2>5
<1> QED
  BY Zenon, <1>2, <1>3, <1>4, <1>5, <1>6

\* A handler that is quiet has nothing to answer for.
LEMMA QuietDecides ==
  ASSUME NEW b, NEW s, Quiet(s)
  PROVE  Decided(b, s)
  BY Zenon DEF Quiet, Decided

\* Of all the ways through remediation_execute only one starts a script, and it has passed
\* every gate.
LEMMA ExecuteDecides ==
  ASSUME PreviewsAreFounded, NEW b
  PROVE  Decided(b, remediation_execute(b))
<1>1. Quiet(Reply("403")) /\ Quiet(Reply("404"))
  BY QuietLists, Zenon DEF Whats
<1>2. CASE remediation_execute(b) \in {Reply("403"), Reply("404"), ExecuteBlocked, ExecuteRefused,
                                       ExecuteDryRun, ExecuteElsewhere}
  <2>1. Quiet(remediation_execute(b))
    BY <1>1, <1>2, ExecuteLists, Zenon
  <2> QED
    BY Zenon, <2>1, QuietDecides
<1>3. CASE remediation_execute(b) \notin {Reply("403"), Reply("404"), ExecuteBlocked,
                                          ExecuteRefused, ExecuteDryRun, ExecuteElsewhere}
  <2> DEFINE p == PreviewOf(b)
  <2>1. /\ assert_can_execute(b.role, b.dry_run) /\ ~(DemoMode /\ ~b.dry_run)
        /\ \E q \in previews : q.id = b.preview
        /\ Known(p.action)
        /\ remediation_execute(b) = ExecuteKnown(b, p)
    BY Zenon, <1>3 DEF remediation_execute
  <2>2. p \in previews /\ p.id = b.preview
    BY Zenon, <2>1 DEF PreviewOf
  <2> HIDE DEF p
  <2>3. /\ ~(p.requires_typed_confirmation /\ ~validate_confirmation_phrase(p.action, b.phrase))
        /\ ~(~b.dry_run /\ (get_remediation_action(p.action).manual_only
                              \/ ~get_remediation_action(p.action).api_execute_allowed))
        /\ ~b.dry_run
        /\ ExecuteKnown(b, p) = ExecuteLive
    BY <1>3, <2>1, Zenon DEF ExecuteKnown
  <2>4. b.role = "admin" /\ ~DemoMode
    BY Zenon, <2>1, <2>3 DEF assert_can_execute
  <2>5. /\ get_remediation_action(p.action).api_execute_allowed
        /\ ~get_remediation_action(p.action).manual_only
    BY Zenon, <2>3
  <2>6. get_remediation_action(p.action).confirmation_phrase = b.phrase
    BY <2>1, <2>2, <2>3, <2>5, ExecutableHasPhrase, Zenon DEF PreviewsAreFounded, validate_confirmation_phrase
  <2>7. Authorised(b)
    BY <2>2, <2>3, <2>4, <2>5, <2>6, Zenon DEF Authorised, PreviewsAreFounded
  <2> QED
    BY <2>1, <2>3, <2>7, ExecuteLists DEF Decided
<1> QED
  BY Zenon, <1>2, <1>3

\* Steps that do not start or await a script
Scriptless(s) == s \in Seq(Steps) /\ Ops(s) \cap {"spawn", "wait"} = {}

\* A list without a script keeps none when a quiet one is joined to it.
LEMMA ScriptlessJoin ==
  ASSUME NEW s, NEW t, Scriptless(s), Quiet(t)
  PROVE  Scriptless(s \o t)
  BY Zenon, JoinedSteps DEF Scriptless, Quiet

\* A preview is stored only for an event that is stored already.
LEMMA PreviewDecides ==
  ASSUME NEW b
  PROVE  Decided(b, remediation_preview(b))
<1>1. Quiet(Reply("403")) /\ Quiet(Reply("400")) /\ Quiet(Reply("404"))
  BY QuietLists, Zenon DEF Whats
<1>2. CASE remediation_preview(b) \in {Reply("403"), Reply("400"), Reply("404")}
  <2>1. Quiet(remediation_preview(b))
    BY <1>1, <1>2, Zenon
  <2> QED
    BY Zenon, <2>1, QuietDecides
<1>3. CASE remediation_preview(b) \notin {Reply("403"), Reply("400"), Reply("404")}
  <2>1. b.event \in failureEvents
    BY Zenon, <1>3 DEF remediation_preview
  <2>2. PICK w \in {"allowed", "blocked"}, d \in {"preview_only", "blocked"} :
          remediation_preview(b) = Store("preview") \o write_audit(w) \o append_contract_audit(d) \o Reply(d)
    BY <1>3, Zenon DEF remediation_preview
  <2>3. w \in Whats /\ d \in Whats /\ "" \in Whats /\ "preview" \in OpNames
    BY Zenon DEF Whats, Decisions, OpNames
  <2>4. Scriptless(Store("preview"))
    BY <2>3, OneStep, Zenon DEF Scriptless, Store
  <2>5. Scriptless(Store("preview") \o write_audit(w))
    BY <2>3, <2>4, QuietLists, ScriptlessJoin, Zenon
  <2>6. Scriptless(Store("preview") \o write_audit(w) \o append_contract_audit(d))
    BY <2>3, <2>5, QuietLists, ScriptlessJoin, Zenon
  <2>7. Scriptless(remediation_preview(b))
    BY <2>2, <2>3, <2>6, QuietLists, ScriptlessJoin, Zenon
  <2> QED
    BY Zenon, <2>1, <2>7 DEF Decided, Scriptless
<1> QED
  BY Zenon, <1>2, <1>3

\* Whatever the route and the body, the plan of a handler is as decided.
LEMMA HandlerDecides ==
  ASSUME PreviewsAreFounded, NEW r \in Requests, NEW b \in Bodies[r]
  PROVE  Decided(b, Handler(b))
<1>1. \A what \in {"403", "404", "500", "stored", "allow", "preview_only", "blocked", "ingest",
                   "snapshot", "attribution_resolve"} : what \in Whats
  BY Zenon DEF Whats, Decisions
<1>2. Quiet(Reply("403")) /\ Quiet(Reply("404")) /\ Quiet(Reply("500")) /\ Quiet(Reply("stored"))
  BY Zenon, <1>1, QuietLists
<1>3. \A op \in {"failure_event", "lkg", "diagnosis", "snapshot", "attribution", "reasoning",
                 "incident"} : Quiet(Store(op))
  BY QuietStep, Zenon DEF Store, OpNames, Whats
<1>4. Quiet(ingest_failure_event(b))
  <2>1. Quiet(Store("failure_event") \o write_audit("ingest"))
    BY Zenon, <1>1, <1>3, QuietLists, QuietJoin
  <2>2. Quiet(Store("failure_event") \o write_audit("ingest") \o Reply("stored"))
    BY Zenon, <1>2, <2>1, QuietJoin
  <2> QED
    BY Zenon, <1>2, <2>2 DEF ingest_failure_event
<1>5. Quiet(post_lkg_snapshot(b))
  <2>1. Quiet(Store("lkg") \o append_contract_audit("allow"))
    BY Zenon, <1>1, <1>3, QuietLists, QuietJoin
  <2>2. Quiet(Store("lkg") \o append_contract_audit("allow") \o Reply("stored"))
    BY Zenon, <1>2, <2>1, QuietJoin
  <2> QED
    BY Zenon, <1>2, <2>2 DEF post_lkg_snapshot
<1>6. Quiet(rollback_preview(b))
  <2>1. \A d \in {"preview_only", "blocked"} : Quiet(append_contract_audit(d) \o Reply(d))
    BY Zenon, <1>1, QuietLists, QuietJoin
  <2> QED
    BY Zenon, <1>2, <2>1 DEF rollback_preview
<1>7. b.route = "diagnosis" => Quiet(build_diagnosis_run(b))
  <2> SUFFICES ASSUME b.route = "diagnosis" PROVE Quiet(build_diagnosis_run(b))
    BY Zenon
  <2>1. b.policy \in Whats
    BY ApiAssumption, Zenon DEF Whats
  <2>2. Quiet(append_contract_audit(b.policy) \o Store("diagnosis"))
    BY Zenon, <1>3, <2>1, QuietLists, QuietJoin
  <2>3. Quiet(append_contract_audit(b.policy) \o Store("diagnosis") \o Reply(b.policy))
    BY Zenon, <2>1, <2>2, QuietLists, QuietJoin
  <2> QED
    BY Zenon, <2>3 DEF build_diagnosis_run
<1>8. b.route = "incident" => Quiet(apply_transition(b))
  <2> SUFFICES ASSUME b.route = "incident" PROVE Quiet(apply_transition(b))
    BY Zenon
  <2>1. b.state \in Whats
    BY ApiAssumption, Zenon DEF Whats
  <2>2. Quiet(Store("incident") \o Reply(b.state))
    BY Zenon, <1>3, <2>1, QuietLists, QuietJoin
  <2> QED
    BY Zenon, <1>2, <2>2 DEF apply_transition
<1>9. Quiet(post_snapshot(b))
  <2>1. Quiet(Store("snapshot") \o write_audit("snapshot"))
    BY Zenon, <1>1, <1>3, QuietLists, QuietJoin
  <2>2. Quiet(Store("snapshot") \o write_audit("snapshot") \o Reply("stored"))
    BY Zenon, <1>2, <2>1, QuietJoin
  <2> QED
    BY Zenon, <1>2, <2>2 DEF post_snapshot
<1>10. Quiet(platform_attribution(b))
  <2>1. Quiet(Store("attribution") \o write_audit("attribution_resolve"))
    BY Zenon, <1>1, <1>3, QuietLists, QuietJoin
  <2>2. Quiet(Store("attribution") \o write_audit("attribution_resolve") \o Reply("stored"))
    BY Zenon, <1>2, <2>1, QuietJoin
  <2> QED
    BY Zenon, <1>2, <2>2 DEF platform_attribution
<1>11. Quiet(agent_next_step(b))
  BY Zenon, <1>1, QuietLists, QuietJoin DEF agent_next_step
<1>12. b.route = "correlation" => Quiet(correlation_run(b))
  <2> SUFFICES ASSUME b.route = "correlation" PROVE Quiet(correlation_run(b))
    BY Zenon
  <2>1. b.policy \in Whats
    BY ApiAssumption, Zenon DEF Whats
  <2>2. Quiet(append_contract_audit(b.policy) \o Reply(b.policy))
    BY Zenon, <2>1, QuietLists, QuietJoin
  <2> QED
    BY Zenon, <1>2, <2>2 DEF correlation_run
<1>13. Quiet(reasoning_run(b))
  BY Zenon, <1>2, <1>3, QuietJoin DEF reasoning_run
<1>14. CASE b.route = "preview"
  BY Zenon, <1>14, PreviewDecides DEF Handler
<1>15. CASE b.route = "execute"
  BY Zenon, <1>15, ExecuteDecides DEF Handler
<1>16. CASE b.route \notin {"preview", "execute"}
  <2>1. Quiet(Handler(b))
    BY Zenon, <1>4, <1>5, <1>6, <1>7, <1>8, <1>9, <1>10, <1>11, <1>12, <1>13, <1>16 DEF Handler
  <2> QED
    BY Zenon, <2>1, QuietDecides
<1> QED
  BY Zenon, <1>14, <1>15, <1>16
-----------------------------------------------------------------------------
(* What the lists of the handlers owe to the audit file.                    *)

\* The decision an answer stands for
Stands(what) == IF what = "400" THEN "blocked" ELSE IF what = "stored" THEN "allow" ELSE what

\* One contract audit row is still to come, and it carries the decision of the last step.
Promises(s) ==
  \E k \in 1..(Len(s) - 1) :
    /\ s[k].op = "contract" /\ s[k].what = Stands(s[Len(s)].what)
    /\ \A j \in DOMAIN s : s[j].op = "contract" => j = k

\* No further contract audit row is to come, and the last step stands for this decision.
Keeps(s, decision) ==
  /\ \A j \in DOMAIN s : s[j].op # "contract"
  /\ s # <<>> => Stands(s[Len(s)].what) = decision

\* The list ends in an error answer.
Errs(s) == s # <<>> /\ s[Len(s)].what = "500"

\* A diagnosis is stored only behind a contract audit row.
AuditFirst(s) ==
  \A k \in DOMAIN s : s[k].op = "diagnosis" => \E j \in 1..(k - 1) : s[j].op = "contract"

\* Taking the first step off a plan.
LEMMA TailOf ==
  ASSUME NEW s \in Seq(Steps), s # <<>>
  PROVE  /\ Len(s) \in Nat /\ Len(s) >= 1 /\ DOMAIN s = 1..Len(s) /\ Head(s) = s[1]
         /\ Len(Tail(s)) = Len(s) - 1 /\ DOMAIN Tail(s) = 1..(Len(s) - 1)
         /\ \A k \in 1..(Len(s) - 1) : Tail(s)[k] = s[k + 1]
         /\ Tail(s) = <<>> <=> Len(s) = 1
<1>1. /\ Len(s) \in Nat /\ Len(s) >= 1 /\ DOMAIN s = 1..Len(s) /\ Head(s) = s[1]
      /\ Tail(s) \in Seq(Steps)
      /\ Len(Tail(s)) = Len(s) - 1 /\ DOMAIN Tail(s) = 1..(Len(s) - 1)
      /\ \A k \in 1..(Len(s) - 1) : Tail(s)[k] = s[k + 1]
  OBVIOUS
<1>2. Tail(s) = <<>> <=> Len(Tail(s)) = 0
  BY Zenon, <1>1, EmptySeq
<1>3. Len(Tail(s)) = 0 <=> Len(s) = 1
  BY <1>1
<1> QED
  BY Zenon, <1>1, <1>2, <1>3

\* A plan that promises a contract row promises it until it is appended,
LEMMA PromisesTail ==
  ASSUME NEW s \in Seq(Steps), s # <<>>, Promises(s)
  PROVE  /\ Head(s).op # "contract" => Promises(Tail(s))
         /\ Head(s).op = "contract" => Keeps(Tail(s), Head(s).what)
<1>1. PICK k \in 1..(Len(s) - 1) :
        /\ s[k].op = "contract" /\ s[k].what = Stands(s[Len(s)].what)
        /\ \A j \in DOMAIN s : s[j].op = "contract" => j = k
  BY Zenon DEF Promises
<1> DEFINE t == Tail(s)
<1>2. /\ Len(s) \in Nat /\ Len(s) >= 2 /\ DOMAIN s = 1..Len(s) /\ Head(s) = s[1]
      /\ Len(t) = Len(s) - 1 /\ DOMAIN t = 1..(Len(s) - 1)
      /\ \A j \in 1..(Len(s) - 1) : t[j] = s[j + 1]
  BY <1>1, TailOf
<1> HIDE DEF t
<1>3. t[Len(t)] = s[Len(s)]
  BY <1>2
<1>4. CASE k = 1
  <2>1. \A j \in DOMAIN t : j + 1 \in DOMAIN s /\ j + 1 # 1 /\ t[j] = s[j + 1]
    BY <1>2
  <2>2. \A j \in DOMAIN t : t[j].op # "contract"
    BY Zenon, <1>1, <1>4, <2>1
  <2> QED
    BY Zenon, <1>1, <1>2, <1>3, <1>4, <2>2 DEF Keeps, t
<1>5. CASE k # 1
  <2>1. Head(s).op # "contract"
    BY <1>1, <1>2, <1>5
  <2>2. k - 1 \in 1..(Len(t) - 1) /\ t[k - 1] = s[k]
    BY <1>1, <1>2, <1>5
  <2>3. \A j \in DOMAIN t : t[j].op = "contract" => j = k - 1
    <3>1. \A j \in DOMAIN t : j \in Int /\ j + 1 \in DOMAIN s /\ t[j] = s[j + 1]
      BY <1>2
    <3>2. \A j \in DOMAIN t : t[j].op = "contract" => j + 1 = k
      BY Zenon, <1>1, <3>1
    <3> QED
      BY <3>1, <3>2
  <2>4. Promises(t)
    BY Zenon, <1>1, <1>3, <2>2, <2>3 DEF Promises
  <2> QED
    BY Zenon, <2>1, <2>4 DEF t
<1> QED
  BY Zenon, <1>4, <1>5

\* then keeps to the decision of that row,
LEMMA KeepsTail ==
  ASSUME NEW s \in Seq(Steps), s # <<>>, NEW decision, Keeps(s, decision)
  PROVE  Head(s).op # "contract" /\ Keeps(Tail(s), decision)
<1> DEFINE t == Tail(s)
<1>1. /\ Len(s) \in Nat /\ Len(s) >= 1 /\ DOMAIN s = 1..Len(s) /\ Head(s) = s[1]
      /\ Len(t) = Len(s) - 1 /\ DOMAIN t = 1..(Len(s) - 1)
      /\ \A j \in 1..(Len(s) - 1) : t[j] = s[j + 1]
      /\ t = <<>> <=> Len(s) = 1
  BY Zenon, TailOf
<1> HIDE DEF t
<1>2. Head(s).op # "contract" /\ \A j \in DOMAIN t : t[j].op # "contract"
  BY <1>1 DEF Keeps
<1>3. t # <<>> => t[Len(t)] = s[Len(s)]
  BY <1>1
<1> QED
  BY Zenon, <1>2, <1>3 DEF Keeps, t

\* a plan that ends in an error goes on doing so,
LEMMA ErrsTail ==
  ASSUME NEW s \in Seq(Steps), Errs(s)
  PROVE  Tail(s) = <<>> \/ Errs(Tail(s))
<1> DEFINE t == Tail(s)
<1>1. /\ Len(s) \in Nat /\ Len(s) >= 1 /\ Len(t) = Len(s) - 1
      /\ \A j \in 1..(Len(s) - 1) : t[j] = s[j + 1]
      /\ t = <<>> <=> Len(s) = 1
  BY Zenon, TailOf DEF Errs
<1> HIDE DEF t
<1>2. t # <<>> => t[Len(t)] = s[Len(s)]
  BY <1>1
<1> QED
  BY Zenon, <1>2 DEF Errs, t

\* and a plan that audits before it stores goes on doing so.
LEMMA AuditFirstTail ==
  ASSUME NEW s \in Seq(Steps), s # <<>>, AuditFirst(s)
  PROVE  /\ Head(s).op # "diagnosis"
         /\ Head(s).op # "contract" => AuditFirst(Tail(s))
<1> DEFINE t == Tail(s)
<1>1. /\ Len(s) \in Nat /\ Len(s) >= 1 /\ DOMAIN s = 1..Len(s) /\ Head(s) = s[1]
      /\ DOMAIN t = 1..(Len(s) - 1) /\ \A j \in 1..(Len(s) - 1) : t[j] = s[j + 1]
  BY Zenon, TailOf
<1> HIDE DEF t
<1>2. Head(s).op # "diagnosis"
  BY <1>1 DEF AuditFirst
<1>3. ASSUME Head(s).op # "contract", NEW k \in DOMAIN t, t[k].op = "diagnosis"
      PROVE  \E j \in 1..(k - 1) : t[j].op = "contract"
  <2>1. k + 1 \in DOMAIN s /\ s[k + 1].op = "diagnosis"
    BY <1>1, <1>3
  <2>2. PICK j \in 1..((k + 1) - 1) : s[j].op = "contract"
    BY Zenon, <2>1 DEF AuditFirst
  <2>3. j # 1
    BY Zenon, <1>1, <1>3, <2>2
  <2>4. j - 1 \in 1..(k - 1) /\ t[j - 1] = s[j]
    BY <1>1, <2>2, <2>3
  <2> QED
    BY Zenon, <2>2, <2>4
<1> QED
  BY Zenon, <1>2, <1>3 DEF AuditFirst, t

\* Steps before the contract audit row
Early(s) == s \in Seq(Steps) /\ Ops(s) \cap {"contract", "diagnosis"} = {}

\* A step that neither appends a contract row nor stores a diagnosis is early,
LEMMA EarlyStep ==
  ASSUME NEW op \in OpNames \ {"contract", "diagnosis"}, NEW what \in Whats
  PROVE  Early(<<[op |-> op, what |-> what]>>)
  BY OneStep DEF Early

\* and early lists joined are early.
LEMMA EarlyJoin ==
  ASSUME NEW s, NEW t, Early(s), Early(t)
  PROVE  Early(s \o t)
  BY Zenon, JoinedSteps DEF Early

\* The usual list: some steps, the contract audit row and the answer
LEMMA AuditedList ==
  ASSUME NEW s, Early(s), NEW decision \in Whats, NEW what \in Whats, decision = Stands(what)
  PROVE  /\ Promises(s \o append_contract_audit(decision) \o Reply(what))
         /\ AuditFirst(s \o append_contract_audit(decision) \o Reply(what))
<1> DEFINE a == [op |-> "tail", what |-> ""]
           c == [op |-> "contract", what |-> decision]
           e == [op |-> "reply", what |-> what]
           n == Len(s)
           l == s \o append_contract_audit(decision) \o Reply(what)
<1>1. s \in Seq(Steps) /\ n \in Nat /\ DOMAIN s = 1..n
  BY DEF Early
<1>2. append_contract_audit(decision) = <<a>> \o <<c>> /\ Reply(what) = <<e>>
  BY Zenon DEF append_contract_audit, Store, Reply
<1>3. a.op = "tail" /\ c.op = "contract" /\ c.what = decision /\ e.op = "reply" /\ e.what = what
  BY Zenon
<1>4. \A j \in 1..n : s[j].op \notin {"contract", "diagnosis"}
  BY Zenon, <1>1 DEF Early, Ops
<1> HIDE DEF a, c, e
<1>5. a \in Steps /\ c \in Steps /\ e \in Steps
  BY ZenonT(40) DEF Steps, OpNames, Whats, a, c, e
<1>6. /\ Len(l) = n + 3 /\ DOMAIN l = 1..(n + 3)
      /\ \A j \in 1..n : l[j] = s[j]
      /\ l[n + 1] = a /\ l[n + 2] = c /\ l[n + 3] = e
  BY <1>1, <1>2, <1>5
<1> HIDE DEF l, n
<1>7. \A j \in DOMAIN l : j \in 1..n \/ j = n + 1 \/ j = n + 2 \/ j = n + 3
  BY <1>1, <1>6
<1>8. n + 2 \in 1..(Len(l) - 1)
  BY <1>1, <1>6
<1>9. \A j \in DOMAIN l : (l[j].op = "contract" => j = n + 2) /\ l[j].op # "diagnosis"
  BY Zenon, <1>3, <1>4, <1>6, <1>7
<1>10. Promises(l)
  BY Zenon, <1>3, <1>6, <1>8, <1>9 DEF Promises
<1>11. AuditFirst(l)
  BY Zenon, <1>9 DEF AuditFirst
<1> QED
  BY Zenon, <1>10, <1>11 DEF l

\* A list with one step more at its end.
LEMMA OneMore ==
  ASSUME NEW s \in Seq(Steps), NEW x \in Steps
  PROVE  /\ s \o <<x>> \in Seq(Steps) /\ Len(s \o <<x>>) = Len(s) + 1 /\ Len(s) \in Nat
         /\ \A k \in 1..Len(s) : (s \o <<x>>)[k] = s[k]
         /\ (s \o <<x>>)[Len(s) + 1] = x
  OBVIOUS

\* build_diagnosis_run stores the diagnosis between its audit row and the answer.
LEMMA DiagnosisList ==
  ASSUME NEW decision \in Decisions
  PROVE  /\ Promises(append_contract_audit(decision) \o Store("diagnosis") \o Reply(decision))
         /\ AuditFirst(append_contract_audit(decision) \o Store("diagnosis") \o Reply(decision))
<1> DEFINE a == [op |-> "tail", what |-> ""]
           c == [op |-> "contract", what |-> decision]
           d == [op |-> "diagnosis", what |-> ""]
           e == [op |-> "reply", what |-> decision]
           l == append_contract_audit(decision) \o Store("diagnosis") \o Reply(decision)
<1>1. l = <<a>> \o <<c>> \o <<d>> \o <<e>>
  BY Zenon DEF append_contract_audit, Store, Reply
<1>2. a.op = "tail" /\ c.op = "contract" /\ c.what = decision /\ d.op = "diagnosis"
      /\ e.op = "reply" /\ e.what = decision
  BY Zenon
<1>3. Stands(decision) = decision
  BY Zenon DEF Stands, Decisions
<1> HIDE DEF a, c, d, e
<1>4. /\ Len(l) = 4 /\ DOMAIN l = {1, 2, 3, 4}
      /\ l[1] = a /\ l[2] = c /\ l[3] = d /\ l[4] = e
  <2>1. a \in Steps /\ c \in Steps /\ d \in Steps /\ e \in Steps
    BY Zenon DEF Steps, OpNames, Whats, a, c, d, e
  <2> DEFINE m == <<a>> \o <<c>>
             o == m \o <<d>>
  <2>2. m \in Seq(Steps) /\ Len(m) = 2 /\ m[1] = a /\ m[2] = c
    BY <2>1
  <2>3. l = o \o <<e>>
    BY Zenon, <1>1
  <2> HIDE DEF m
  <2>4. o \in Seq(Steps) /\ Len(o) = 3 /\ o[1] = a /\ o[2] = c /\ o[3] = d
    <3>1. /\ o \in Seq(Steps) /\ Len(o) = Len(m) + 1 /\ \A k \in 1..Len(m) : o[k] = m[k]
          /\ o[Len(m) + 1] = d
      BY <2>1, <2>2, OneMore, Zenon
    <3> HIDE DEF o
    <3> QED
      BY <2>2, <3>1
  <2> HIDE DEF o, l
  <2>5. Len(l) = 4 /\ DOMAIN l = 1..4 /\ l[1] = a /\ l[2] = c /\ l[3] = d /\ l[4] = e
    <3>1. l \in Seq(Steps) /\ Len(l) = 4 /\ l[1] = a /\ l[2] = c /\ l[3] = d /\ l[4] = e
      <4>1. /\ l \in Seq(Steps) /\ Len(l) = Len(o) + 1 /\ \A k \in 1..Len(o) : l[k] = o[k]
            /\ l[Len(o) + 1] = e
        BY <2>1, <2>3, <2>4, OneMore, Zenon
      <4> QED
        BY <2>4, <4>1
    <3> QED
      BY <3>1
  <2> QED
    BY <2>5
<1> HIDE DEF l
<1>5. \A j \in DOMAIN l : (l[j].op = "contract" => j = 2) /\ (l[j].op = "diagnosis" => j = 3)
  BY Zenon, <1>2, <1>4
<1>6. Promises(l)
  <2>1. 2 \in 1..(Len(l) - 1)
    BY <1>4
  <2> QED
    BY Zenon, <1>2, <1>3, <1>4, <1>5, <2>1 DEF Promises
<1>7. AuditFirst(l)
  <2>1. 2 \in 1..(3 - 1)
    OBVIOUS
  <2> QED
    BY Zenon, <1>2, <1>4, <1>5, <2>1 DEF AuditFirst
<1> QED
  BY Zenon, <1>6, <1>7 DEF l

\* The lists handlers begin with are early.
LEMMA EarlyLists ==
  ASSUME NEW what \in Whats
  PROVE  /\ Early(<<>>) /\ Early(Reply(what)) /\ Early(Exec(what)) /\ Early(write_audit(what))
         /\ \A op \in {"failure_event", "preview", "lkg", "snapshot", "attribution", "reasoning",
                       "incident"} : Early(Store(op))
<1>1. {"reply", "execution", "audit", "failure_event", "preview", "lkg", "snapshot", "attribution",
       "reasoning", "incident"} \subseteq OpNames \ {"contract", "diagnosis"}
  BY Zenon DEF OpNames
<1>2. "" \in Whats
  BY Zenon DEF Whats
<1>3. Early(<<>>)
  BY DEF Early, Ops
<1>4. Early(Reply(what)) /\ Early(Exec(what)) /\ Early(write_audit(what))
  BY Zenon, <1>1, EarlyStep DEF Reply, Exec, write_audit
<1>5. \A op \in {"failure_event", "preview", "lkg", "snapshot", "attribution", "reasoning",
                 "incident"} : Early(Store(op))
  BY <1>1, <1>2, EarlyStep, Zenon DEF Store
<1> QED
  BY Zenon, <1>3, <1>4, <1>5

\* A list without a contract audit row has no diagnosis either.
LEMMA EarlyIsFirst ==
  ASSUME NEW s, Early(s)
  PROVE  AuditFirst(s)
  BY Zenon DEF Early, AuditFirst, Ops

\* The same list with the payload built by execution_contract_payload
LEMMA PayloadList ==
  ASSUME NEW s, Early(s), NEW decision \in Decisions
  PROVE  /\ Promises(s \o execution_contract_payload(decision))
         /\ AuditFirst(s \o execution_contract_payload(decision))
<1>1. decision \in Whats /\ Stands(decision) = decision
  BY Zenon DEF Whats, Stands, Decisions
<1>2. append_contract_audit(decision) \in Seq(Steps) /\ Reply(decision) \in Seq(Steps)
  BY Zenon, <1>1, QuietLists DEF Quiet
<1>3. s \in Seq(Steps)
  BY Zenon DEF Early
<1>4. s \o execution_contract_payload(decision) = s \o append_contract_audit(decision) \o Reply(decision)
  <2> DEFINE a == append_contract_audit(decision)
             b == Reply(decision)
  <2>1. a \in Seq(Steps) /\ b \in Seq(Steps)
    BY Zenon, <1>2
  <2> HIDE DEF a, b
  <2>2. s \o (a \o b) = s \o a \o b
    BY <1>3, <2>1, ConcatAssociative
  <2> QED
    BY Zenon, <2>2 DEF execution_contract_payload, a, b
<1> QED
  BY Zenon, <1>1, <1>4, AuditedList

Unaudited == {"ingest", "snapshot", "attribution", "incident"}

\* What a handler has decided on accounts for its answer.
Planned(b, s) ==
  /\ AuditFirst(s)
  /\ \/ b.route \in Unaudited
     \/ s \in {Reply("403"), Reply("404")}
     \/ b.route = "preview" /\ s = Reply("400")
     \/ s = ExecuteLive
     \/ Promises(s)
     \/ Errs(s)

\* The plans of remediation_execute,
LEMMA ExecutePlans ==
  ASSUME NEW b, b.route = "execute"
  PROVE  Planned(b, remediation_execute(b))
<1>1. /\ "blocked" \in Whats /\ "400" \in Whats /\ "403" \in Whats /\ "404" \in Whats
      /\ "dry_run" \in Whats /\ "failure" \in Whats /\ "pending" \in Whats
      /\ "blocked" \in Decisions /\ "preview_only" \in Decisions
  BY Zenon DEF Whats, Decisions
<1>2. Promises(ExecuteBlocked) /\ AuditFirst(ExecuteBlocked)
  <2>1. Early(Exec("blocked") \o write_audit("blocked"))
    BY <1>1, EarlyLists, EarlyJoin, Zenon
  <2> QED
    BY <1>1, <2>1, PayloadList, Zenon DEF ExecuteBlocked
<1>3. Promises(ExecuteRefused) /\ AuditFirst(ExecuteRefused)
  <2>1. Stands("400") = "blocked"
    BY Zenon DEF Stands
  <2>2. append_contract_audit("blocked") \in Seq(Steps)
    BY Zenon, <1>1, QuietLists DEF Quiet
  <2>3. <<>> \o append_contract_audit("blocked") = append_contract_audit("blocked")
    BY <2>2
  <2>4. Early(<<>>)
    BY Zenon, <1>1, EarlyLists
  <2>5. /\ Promises(<<>> \o append_contract_audit("blocked") \o Reply("400"))
        /\ AuditFirst(<<>> \o append_contract_audit("blocked") \o Reply("400"))
    BY Zenon, <1>1, <2>1, <2>4, AuditedList
  <2> QED
    BY Zenon, <2>3, <2>5 DEF ExecuteRefused
<1>4. Promises(ExecuteDryRun) /\ AuditFirst(ExecuteDryRun)
  BY <1>1, EarlyLists, PayloadList, Zenon DEF ExecuteDryRun
<1>5. Promises(ExecuteElsewhere) /\ AuditFirst(ExecuteElsewhere)
  BY <1>1, EarlyLists, PayloadList, Zenon DEF ExecuteElsewhere
<1>6. AuditFirst(ExecuteLive)
  BY Zenon, ExecuteLists, EarlyIsFirst DEF Early
<1>7. AuditFirst(Reply("403")) /\ AuditFirst(Reply("404"))
  BY <1>1, EarlyLists, EarlyIsFirst, Zenon
<1>8. remediation_execute(b) \in {Reply("403"), Reply("404"), ExecuteBlocked, ExecuteRefused,
                                  ExecuteDryRun, ExecuteElsewhere, ExecuteLive}
  BY Zenon DEF remediation_execute, ExecuteKnown
<1> QED
  BY <1>2, <1>3, <1>4, <1>5, <1>6, <1>7, <1>8, Zenon DEF Planned

\* A contract audit row and the answer, and nothing before them
LEMMA PlainAuditedList ==
  ASSUME NEW decision \in Decisions
  PROVE  /\ Promises(append_contract_audit(decision) \o Reply(decision))
         /\ AuditFirst(append_contract_audit(decision) \o Reply(decision))
<1>1. decision \in Whats /\ Stands(decision) = decision
  BY Zenon DEF Whats, Stands, Decisions
<1>2. append_contract_audit(decision) \in Seq(Steps) /\ Early(<<>>)
  BY Zenon, <1>1, QuietLists, EarlyLists DEF Quiet
<1>3. <<>> \o append_contract_audit(decision) = append_contract_audit(decision)
  BY <1>2
<1>4. /\ Promises(<<>> \o append_contract_audit(decision) \o Reply(decision))
      /\ AuditFirst(<<>> \o append_contract_audit(decision) \o Reply(decision))
  BY Zenon, <1>1, <1>2, AuditedList
<1> QED
  BY Zenon, <1>3, <1>4

\* of remediation_preview,
LEMMA PreviewPlans ==
  ASSUME NEW b, b.route = "preview"
  PROVE  Planned(b, remediation_preview(b))
<1>1. "403" \in Whats /\ "404" \in Whats /\ "400" \in Whats
  BY Zenon DEF Whats
<1>2. AuditFirst(Reply("403")) /\ AuditFirst(Reply("404")) /\ AuditFirst(Reply("400"))
  BY <1>1, EarlyLists, EarlyIsFirst, Zenon
<1>3. CASE remediation_preview(b) \in {Reply("403"), Reply("400"), Reply("404")}
  BY <1>2, <1>3, Zenon DEF Planned
<1>4. CASE remediation_preview(b) \notin {Reply("403"), Reply("400"), Reply("404")}
  <2>1. PICK w \in {"allowed", "blocked"}, d \in {"preview_only", "blocked"} :
          remediation_preview(b) = Store("preview") \o write_audit(w) \o append_contract_audit(d) \o Reply(d)
    BY <1>4, Zenon DEF remediation_preview
  <2>2. w \in Whats /\ d \in Whats /\ Stands(d) = d
    BY Zenon DEF Whats, Decisions, Stands
  <2>3. Early(Store("preview") \o write_audit(w))
    BY <2>2, EarlyLists, EarlyJoin, Zenon
  <2>4. Promises(remediation_preview(b)) /\ AuditFirst(remediation_preview(b))
    BY <2>1, <2>2, <2>3, AuditedList, Zenon
  <2> QED
    BY Zenon, <2>4 DEF Planned
<1> QED
  BY Zenon, <1>3, <1>4

\* and of every handler keep to the order of auditing and answering.
LEMMA HandlerPlans ==
  ASSUME NEW r \in Requests, NEW b \in Bodies[r]
  PROVE  Planned(b, Handler(b))
<1>1. \A what \in {"403", "404", "500", "stored", "allow", "ingest", "snapshot",
                   "attribution_resolve"} : what \in Whats
  BY Zenon DEF Whats, Decisions
<1>2. Early(Reply("403")) /\ Early(Reply("404")) /\ Early(Reply("500")) /\ Early(Reply("stored"))
  BY Zenon, <1>1, EarlyLists
<1>3. AuditFirst(Reply("403"))
  BY Zenon, <1>2, EarlyIsFirst
<1>4. Early(ingest_failure_event(b))
  <2>1. Early(Store("failure_event") \o write_audit("ingest"))
    BY <1>1, EarlyLists, EarlyJoin, Zenon
  <2>2. Early(Store("failure_event") \o write_audit("ingest") \o Reply("stored"))
    BY Zenon, <1>2, <2>1, EarlyJoin
  <2> QED
    BY Zenon, <1>2, <2>2 DEF ingest_failure_event
<1>5. Early(post_snapshot(b))
  <2>1. Early(Store("snapshot") \o write_audit("snapshot"))
    BY <1>1, EarlyLists, EarlyJoin, Zenon
  <2>2. Early(Store("snapshot") \o write_audit("snapshot") \o Reply("stored"))
    BY Zenon, <1>2, <2>1, EarlyJoin
  <2> QED
    BY Zenon, <1>2, <2>2 DEF post_snapshot
<1>6. Early(platform_attribution(b))
  <2>1. Early(Store("attribution") \o write_audit("attribution_resolve"))
    BY <1>1, EarlyLists, EarlyJoin, Zenon
  <2>2. Early(Store("attribution") \o write_audit("attribution_resolve") \o Reply("stored"))
    BY Zenon, <1>2, <2>1, EarlyJoin
  <2> QED
    BY Zenon, <1>2, <2>2 DEF platform_attribution
<1>7. b.route = "incident" => Early(apply_transition(b))
  <2> SUFFICES ASSUME b.route = "incident" PROVE Early(apply_transition(b))
    BY Zenon
  <2>1. b.state \in Whats
    BY ApiAssumption, Zenon DEF Whats
  <2>2. Early(Store("incident") \o Reply(b.state))
    BY <2>1, EarlyLists, EarlyJoin, Zenon
  <2> QED
    BY Zenon, <1>2, <2>2 DEF apply_transition
<1>8. CASE b.route \in Unaudited
  <2>1. Early(Handler(b))
    BY Zenon, <1>4, <1>5, <1>6, <1>7, <1>8 DEF Handler, Unaudited
  <2> QED
    BY Zenon, <1>8, <2>1, EarlyIsFirst DEF Planned
<1>9. CASE b.route = "preview"
  BY Zenon, <1>9, PreviewPlans DEF Handler
<1>10. CASE b.route = "execute"
  BY Zenon, <1>10, ExecutePlans DEF Handler
<1>11. CASE b.route = "lkg"
  <2>1. Stands("stored") = "allow"
    BY Zenon DEF Stands
  <2>2. /\ Promises(Store("lkg") \o append_contract_audit("allow") \o Reply("stored"))
        /\ AuditFirst(Store("lkg") \o append_contract_audit("allow") \o Reply("stored"))
    BY <1>1, <2>1, EarlyLists, AuditedList, Zenon
  <2>3. Planned(b, post_lkg_snapshot(b))
    BY <1>3, <2>2, Zenon DEF Planned, post_lkg_snapshot
  <2> QED
    BY Zenon, <1>11, <2>3 DEF Handler
<1>12. CASE b.route = "rollback"
  <2>1. \A d \in {"preview_only", "blocked"} :
          /\ Promises(append_contract_audit(d) \o Reply(d))
          /\ AuditFirst(append_contract_audit(d) \o Reply(d))
    BY PlainAuditedList, Zenon DEF Decisions
  <2>2. Planned(b, rollback_preview(b))
    BY <1>3, <2>1, Zenon DEF Planned, rollback_preview
  <2> QED
    BY Zenon, <1>12, <2>2 DEF Handler
<1>13. CASE b.route = "diagnosis"
  <2>1. b.policy \in Decisions
    BY <1>13, ApiAssumption, Zenon
  <2>2. Planned(b, build_diagnosis_run(b))
    BY Zenon, <2>1, DiagnosisList DEF Planned, build_diagnosis_run
  <2> QED
    BY Zenon, <1>13, <2>2 DEF Handler
<1>14. CASE b.route = "next_step"
  <2>1. Planned(b, agent_next_step(b))
    BY PlainAuditedList, Zenon DEF Planned, agent_next_step, Decisions
  <2> QED
    BY Zenon, <1>14, <2>1 DEF Handler
<1>15. CASE b.route = "correlation"
  <2>1. b.policy \in Decisions
    BY <1>15, ApiAssumption, Zenon
  <2>2. Planned(b, correlation_run(b))
    BY <1>3, <2>1, PlainAuditedList, Zenon DEF Planned, correlation_run
  <2> QED
    BY Zenon, <1>15, <2>2 DEF Handler
<1>16. CASE b.route \notin Unaudited \cup {"preview", "execute", "lkg", "rollback", "diagnosis",
                                          "next_step", "correlation"}
  <2> DEFINE l == Store("reasoning") \o Reply("500")
  <2>1. AuditFirst(l)
    BY <1>1, EarlyLists, EarlyJoin, EarlyIsFirst, Zenon
  <2>2. Errs(l)
    BY DEF Errs, Store, Reply
  <2>3. Planned(b, reasoning_run(b))
    BY <1>3, <2>1, <2>2, Zenon DEF Planned, reasoning_run
  <2> QED
    BY Zenon, <1>16, <2>3 DEF Handler, Unaudited
<1> QED
  BY Zenon, <1>8, <1>9, <1>10, <1>11, <1>12, <1>13, <1>14, <1>15, <1>16
-----------------------------------------------------------------------------
(* What a step does.                                                        *)

\* The files only grow.
Grows == /\ failureEvents \subseteq failureEvents' /\ previews \subseteq previews'
         /\ executions \subseteq executions'
         /\ DOMAIN audit \subseteq DOMAIN audit'
         /\ \A i \in DOMAIN audit : audit'[i] = audit[i]

\* The handler of r performs a step other than starting or awaiting a script.
Performs(r) == /\ todo[r] # <<>> /\ Head(todo[r]).op \notin {"spawn", "wait"}
               /\ Advance(r)
               /\ UNCHANGED <<body, spawned>>

Appends(r) == \/ AppendFailureEvent(r) \/ AppendPreview(r) \/ AppendExecution(r) \/ AppendStored(r)
              \/ AppendIncident(r) \/ AppendAudit(r) \/ ReadTail(r) \/ AppendContract(r)

\* An append is the performance of the first step of a plan.
LEMMA AppendsPerform ==
  ASSUME NEW r \in Requests, Appends(r)
  PROVE  Performs(r)
<1>1. CASE AppendFailureEvent(r)
  BY Zenon, <1>1 DEF AppendFailureEvent, At, Performs
<1>2. CASE AppendPreview(r)
  BY Zenon, <1>2 DEF AppendPreview, At, Performs
<1>3. CASE AppendExecution(r)
  BY Zenon, <1>3 DEF AppendExecution, At, Performs
<1>4. CASE AppendStored(r)
  BY Zenon, <1>4 DEF AppendStored, At, Performs
<1>5. CASE AppendIncident(r)
  BY Zenon, <1>5 DEF AppendIncident, At, Performs
<1>6. CASE AppendAudit(r)
  BY Zenon, <1>6 DEF AppendAudit, At, Performs
<1>7. CASE ReadTail(r)
  BY Zenon, <1>7 DEF ReadTail, At, Performs
<1>8. CASE AppendContract(r)
  BY Zenon, <1>8 DEF AppendContract, At, Performs
<1> QED
  BY Zenon, <1>1, <1>2, <1>3, <1>4, <1>5, <1>6, <1>7, <1>8 DEF Appends

\* An append to the audit file leaves the rows before it.
LEMMA RowsAppended ==
  ASSUME TypeOK, NEW row \in AuditRows, audit' = audit \o <<row>>
  PROVE  /\ audit' \in Seq(AuditRows)
         /\ Len(audit') = Len(audit) + 1 /\ Len(audit) \in Nat
         /\ DOMAIN audit = 1..Len(audit) /\ DOMAIN audit' = 1..(Len(audit) + 1)
         /\ \A i \in DOMAIN audit : audit'[i] = audit[i]
         /\ audit'[Len(audit) + 1] = row
  BY DEF TypeOK

\* The two actions that write the audit file append a row of r.
LEMMA AuditRow ==
  ASSUME TypeOK, NEW r \in Requests, AppendAudit(r) \/ AppendContract(r)
  PROVE  \E row \in AuditRows :
           /\ audit' = audit \o <<row>>
           /\ row.id = r /\ row.what = What(r)
           /\ AppendAudit(r) => row = [kind |-> "plain", id |-> r, what |-> What(r), previous |-> NoLink]
           /\ AppendContract(r) => row.kind = "contract"
           /\ row.previous \in {NoLink, tail[r]}
<1>1. todo[r] \in Seq(Steps) /\ todo[r] # <<>>
  BY Zenon DEF TypeOK, AppendAudit, AppendContract, At
<1>2. What(r) \in Whats
  BY <1>1, RemainingSteps, Zenon DEF What, Steps
<1>3. CASE AppendAudit(r)
  <2> DEFINE row == [kind |-> "plain", id |-> r, what |-> What(r), previous |-> NoLink]
  <2>1. row \in AuditRows
    BY Zenon, <1>2 DEF AuditRows
  <2>2. audit' = audit \o <<row>>
    BY Zenon, <1>3 DEF AppendAudit
  <2>3. ~AppendContract(r)
    BY Zenon, <1>3 DEF AppendAudit, AppendContract, At
  <2> QED
    BY <2>1, <2>2, <2>3, Zenon
<1>4. CASE AppendContract(r)
  <2> DEFINE row == [kind |-> "contract", id |-> r, what |-> What(r), previous |-> tail[r]]
  <2>1. row \in AuditRows
    BY Zenon, <1>2 DEF AuditRows, TypeOK
  <2>2. audit' = audit \o <<row>>
    BY Zenon, <1>4 DEF AppendContract
  <2>3. ~AppendAudit(r)
    BY Zenon, <1>4 DEF AppendAudit, AppendContract, At
  <2> QED
    BY <2>1, <2>2, <2>3, Zenon
<1> QED
  BY <1>3, <1>4, Zenon

\* Every other step leaves the audit file alone.
LEMMA AuditKept ==
  ASSUME [Next]_vars, \A r \in Requests : ~AppendAudit(r) /\ ~AppendContract(r)
  PROVE  audit' = audit
<1>1. CASE UNCHANGED vars
  BY Zenon, <1>1 DEF vars
<1>2. ASSUME NEW r \in Requests, NEW b \in Bodies[r], Receive(r, b)
      PROVE  audit' = audit
  BY Zenon, <1>2 DEF Receive, files
<1>3. ASSUME NEW r \in Requests, Step(r) \/ ScriptEnds(r) \/ AppendRaises(r)
      PROVE  audit' = audit
  BY <1>3, Zenon DEF Step, AppendFailureEvent, AppendPreview, AppendExecution, AppendStored,
              AppendIncident, ReadTail, Spawn, ScriptTimesOut, ScriptEnds, AppendRaises, files
<1>4. CASE Crash
  BY Zenon, <1>4 DEF Crash, files
<1> QED
  BY Zenon, <1>1, <1>2, <1>3, <1>4 DEF Next

\* No step takes anything out of a file.
LEMMA FilesGrow ==
  ASSUME TypeOK, [Next]_vars
  PROVE  Grows
<1> DEFINE TablesGrow == /\ failureEvents \subseteq failureEvents' /\ previews \subseteq previews'
                         /\ executions \subseteq executions'
<1>1. TablesGrow
  <2>1. CASE UNCHANGED vars
    BY Zenon, <2>1 DEF vars
  <2>2. ASSUME NEW r \in Requests, NEW b \in Bodies[r], Receive(r, b)
        PROVE  TablesGrow
    BY Zenon, <2>2 DEF Receive, files
  <2>3. ASSUME NEW r \in Requests, Step(r) \/ ScriptEnds(r) \/ AppendRaises(r)
        PROVE  TablesGrow
    BY <2>3, Zenon DEF Step, AppendFailureEvent, AppendPreview, AppendExecution, AppendStored, AppendIncident,
                AppendAudit, ReadTail, AppendContract, Spawn, ScriptTimesOut, ScriptEnds, AppendRaises, files
  <2>4. CASE Crash
    BY Zenon, <2>4 DEF Crash, files
  <2> QED
    BY Zenon, <2>1, <2>2, <2>3, <2>4 DEF Next
<1>2. DOMAIN audit \subseteq DOMAIN audit' /\ \A i \in DOMAIN audit : audit'[i] = audit[i]
  <2>1. CASE \A r \in Requests : ~AppendAudit(r) /\ ~AppendContract(r)
    BY Zenon, <2>1, AuditKept
  <2>2. CASE ~\A r \in Requests : ~AppendAudit(r) /\ ~AppendContract(r)
    <3>1. PICK row \in AuditRows : audit' = audit \o <<row>>
      BY <2>2, AuditRow, Zenon
    <3> QED
      BY <3>1, RowsAppended
  <2> QED
    BY Zenon, <2>1, <2>2
<1> QED
  BY Zenon, <1>1, <1>2 DEF Grows
-----------------------------------------------------------------------------
(* How the steps of a request follow each other.                            *)

SpawnStep == [op |-> "spawn", what |-> ""]
WaitStep == [op |-> "wait", what |-> ""]

\* A script is started right after its pending row and awaited alone.
Shapes ==
  \A r \in Requests :
    /\ "spawn" \in Ops(todo[r]) => todo[r] = ExecuteLive \/ todo[r] = <<SpawnStep>>
    /\ "wait" \in Ops(todo[r]) => todo[r] = <<WaitStep>>

\* A request that has not arrived has done nothing, and one in flight has no answer.
Untouched ==
  \A r \in Requests :
    /\ body[r] = NoBody => todo[r] = <<>> /\ r \notin spawned /\ answer[r] = "none"
    /\ todo[r] # <<>> => answer[r] = "none"

\* A handler about to store a preview has found its event.
PreviewsHaveEvents ==
  \A r \in Requests : "preview" \in Ops(todo[r]) => body[r].event \in failureEvents

Base == TypeOK /\ Shapes /\ Untouched /\ PreviewsHaveEvents /\ PreviewsAreFounded

\* The first step of a list of one,
LEMMA HeadOfOne ==
  ASSUME NEW x
  PROVE  Head(<<x>>) = x
  OBVIOUS

\* and of a list put together in front.
LEMMA HeadJoined ==
  ASSUME NEW x \in Steps, NEW t \in Seq(Steps)
  PROVE  <<x>> \o t # <<>> /\ Head(<<x>> \o t) = x /\ Tail(<<x>> \o t) = t
  OBVIOUS

\* A live execution audits, then starts its script.
LEMMA LiveSteps ==
  /\ ExecuteLive # <<>>
  /\ Head(ExecuteLive) = [op |-> "audit", what |-> "pending"]
  /\ Tail(ExecuteLive) = <<SpawnStep>>
<1> DEFINE a == [op |-> "audit", what |-> "pending"]
<1>1. ExecuteLive = <<a>> \o <<SpawnStep>>
  BY Zenon DEF ExecuteLive, write_audit, SpawnStep
<1>2. a \in Steps /\ <<SpawnStep>> \in Seq(Steps)
  BY DEF Steps, SpawnStep, OpNames, Whats
<1> HIDE DEF a
<1>3. <<a>> \o <<SpawnStep>> # <<>> /\ Head(<<a>> \o <<SpawnStep>>) = a
      /\ Tail(<<a>> \o <<SpawnStep>>) = <<SpawnStep>>
  BY <1>2, HeadJoined, Zenon
<1> QED
  BY Zenon, <1>1, <1>3 DEF a

\* The plans of a request whose script is to be started or waited for.
LEMMA ScriptSteps ==
  /\ <<SpawnStep>> \in Seq(Steps) /\ Ops(<<SpawnStep>>) = {"spawn"}
  /\ <<WaitStep>> \in Seq(Steps) /\ Ops(<<WaitStep>>) = {"wait"}
  BY OneStep, Zenon DEF SpawnStep, WaitStep, OpNames, Whats

\* The steps of r are those of s, or s was the answer alone.
Goes(r, s) == \/ todo'[r] = s /\ answer'[r] = answer[r] /\ ~Replies(s)
              \/ todo'[r] = <<>> /\ Ops(s) = {"reply"} /\ Len(s) = 1 /\ answer'[r] = s[1].what

\* What follows a script: first its execution row, later its contract audit row
Resumes(s) == /\ Quiet(s) /\ s # <<>>
              /\ Head(s).op = "execution" /\ Head(s).what \in {"success", "failure"}
              /\ "contract" \in Ops(Tail(s)) /\ Promises(s) /\ AuditFirst(s)

\* What a request has left to do when its script has ended.
LEMMA Resumption ==
  ASSUME NEW result \in {"success", "failure"}, NEW decision \in {"allow", "preview_only"}
  PROVE  /\ Resumes(<<>> \o Exec(result) \o write_audit(result) \o execution_contract_payload(decision))
         /\ Resumes(<<>> \o Exec(result) \o execution_contract_payload(decision))
<1> DEFINE x == [op |-> "execution", what |-> result]
           w == write_audit(result)
           p == execution_contract_payload(decision)
<1>1. result \in Whats /\ decision \in Whats /\ "execution" \in OpNames
  BY Zenon DEF Whats, Decisions, OpNames
<1>2. x \in Steps /\ Exec(result) = <<x>> /\ x.op = "execution" /\ x.what = result
  BY Zenon, <1>1 DEF Steps, Exec
<1>3. Quiet(<<x>>) /\ Quiet(w) /\ Quiet(p)
  BY Zenon, <1>1, <1>2, QuietLists
<1>4. "contract" \in Ops(p)
  <2> DEFINE c == <<[op |-> "contract", what |-> decision]>>
  <2>1. "tail" \in OpNames /\ "contract" \in OpNames /\ "reply" \in OpNames /\ "" \in Whats
    BY Zenon DEF OpNames, Whats
  <2>2. c \in Seq(Steps) /\ "contract" \in Ops(c)
    BY <1>1, <2>1, OneStep, Zenon
  <2>3. Store("tail") \in Seq(Steps) /\ Reply(decision) \in Seq(Steps)
    BY <1>1, <2>1, OneStep, Zenon DEF Store, Reply
  <2>4. p = Store("tail") \o c \o Reply(decision)
    BY Zenon DEF execution_contract_payload, append_contract_audit
  <2> HIDE DEF c
  <2>5. Store("tail") \o c \in Seq(Steps) /\ "contract" \in Ops(Store("tail") \o c)
    BY <2>2, <2>3, JoinedSteps
  <2> QED
    BY <2>3, <2>4, <2>5, JoinedSteps, ZenonT(40)
<1> HIDE DEF x, w, p
<1>5. w \in Seq(Steps) /\ p \in Seq(Steps) /\ <<x>> \in Seq(Steps)
  BY Zenon, <1>3 DEF Quiet
<1>6. <<>> \o <<x>> = <<x>>
  OBVIOUS
<1>7. (<<x>> \o w) \o p = <<x>> \o (w \o p)
  BY <1>5, ConcatAssociative
<1>11. Early(<<x>>) /\ Early(w) /\ decision \in Decisions
  BY <1>1, <1>2, EarlyLists, Zenon DEF w, Decisions
<1>12. Promises(<<x>> \o p) /\ AuditFirst(<<x>> \o p)
  BY <1>11, PayloadList, Zenon DEF p
<1>13. Promises((<<x>> \o w) \o p) /\ AuditFirst((<<x>> \o w) \o p)
  BY <1>11, EarlyJoin, PayloadList, Zenon DEF p
<1>8. Resumes(<<x>> \o p)
  BY <1>2, <1>3, <1>4, <1>5, <1>12, HeadJoined, QuietJoin, Zenon DEF Resumes
<1>9. w \o p \in Seq(Steps) /\ Quiet(w \o p) /\ "contract" \in Ops(w \o p)
  BY <1>3, <1>4, <1>5, JoinedSteps, QuietJoin
<1>10. Resumes(<<x>> \o (w \o p))
  BY <1>2, <1>3, <1>7, <1>9, <1>13, HeadJoined, QuietJoin, Zenon DEF Resumes
<1> QED
  BY <1>2, <1>6, <1>7, <1>8, <1>10, Zenon DEF w, p

\* The ways a step of the server concerns one request
Rests(q) == /\ todo'[q] = todo[q] /\ answer'[q] = answer[q] /\ body'[q] = body[q]
            /\ q \in spawned' <=> q \in spawned
Fails(q) == /\ todo'[q] = <<>> /\ todo[q] # <<>> /\ answer'[q] \in {"500", "lost"}
            /\ body'[q] = body[q] /\ (q \in spawned' <=> q \in spawned)
Arrives(q) == /\ body[q] = NoBody /\ body'[q] \in Bodies[q] /\ Goes(q, Handler(body'[q]))
              /\ Decided(body'[q], Handler(body'[q])) /\ Planned(body'[q], Handler(body'[q]))
              /\ (q \in spawned' <=> q \in spawned)
Proceeds(q) == /\ Appends(q) /\ todo[q] # <<>> /\ Head(todo[q]).op \notin {"spawn", "wait"}
               /\ Goes(q, Tail(todo[q]))
               /\ body'[q] = body[q] /\ (q \in spawned' <=> q \in spawned)
Starts(q) == /\ todo[q] = <<SpawnStep>> /\ todo'[q] = <<WaitStep>> /\ answer'[q] = answer[q]
             /\ body'[q] = body[q] /\ q \in spawned'
Resumed(q) == /\ todo[q] = <<WaitStep>> /\ Resumes(todo'[q]) /\ answer'[q] = answer[q]
              /\ body'[q] = body[q] /\ (q \in spawned' <=> q \in spawned)

\* The list of a resumed request is not an answer alone.
LEMMA ResumesGoes ==
  ASSUME TypeOK, NEW r \in Requests, NEW s, Resumes(s), Continue(r, s)
  PROVE  todo'[r] = s /\ answer'[r] = answer[r]
<1>1. s \in Seq(Steps) /\ s # <<>> /\ Head(s).op = "execution"
  BY Zenon DEF Resumes, Quiet
<1>2. "execution" \in Ops(s)
  BY Zenon, <1>1, RemainingSteps
<1> QED
  BY Zenon, <1>1, <1>2, ContinueSteps

\* A handler that performs a step goes on with the others.
LEMMA AppendsProceed ==
  ASSUME Base, NEW r \in Requests, Appends(r)
  PROVE  /\ Proceeds(r)
         /\ todo' \in [Requests -> Seq(Steps)] /\ DOMAIN answer' = Requests
         /\ \A q \in Requests \ {r} : Rests(q)
<1>1. TypeOK /\ todo[r] \in Seq(Steps)
  BY Zenon DEF Base, TypeOK
<1>2. Performs(r)
  BY Zenon, AppendsPerform
<1>3. /\ todo[r] # <<>> /\ Head(todo[r]).op \notin {"spawn", "wait"}
      /\ Continue(r, Tail(todo[r])) /\ body' = body /\ spawned' = spawned
  BY Zenon, <1>2 DEF Performs, Advance
<1>4. Tail(todo[r]) \in Seq(Steps)
  BY Zenon, <1>1, <1>3, RemainingSteps
<1>5. Goes(r, Tail(todo[r]))
  BY <1>1, <1>3, <1>4, ContinueSteps, Zenon DEF Goes
<1>6. Proceeds(r)
  BY Zenon, <1>3, <1>5 DEF Proceeds
<1>7. /\ todo' \in [Requests -> Seq(Steps)] /\ DOMAIN answer' = Requests
      /\ \A q \in Requests \ {r} : todo'[q] = todo[q] /\ answer'[q] = answer[q]
  BY <1>1, <1>3, <1>4, ContinueSteps, Zenon
<1> QED
  BY Zenon, <1>3, <1>6, <1>7 DEF Rests

\* The five things a step can be for the request that takes it; the others rest.
LEMMA RequestStep ==
  ASSUME Base, NEW r \in Requests,
         (\E b \in Bodies[r] : Receive(r, b)) \/ Step(r) \/ ScriptEnds(r) \/ AppendRaises(r)
  PROVE  /\ Arrives(r) \/ Proceeds(r) \/ Starts(r) \/ Resumed(r) \/ Fails(r)
         /\ todo' \in [Requests -> Seq(Steps)] /\ DOMAIN answer' = Requests
         /\ \A q \in Requests \ {r} : Rests(q)
<1>1. TypeOK /\ todo[r] \in Seq(Steps)
  BY Zenon DEF Base, TypeOK
<1>2. ASSUME NEW b \in Bodies[r], Receive(r, b)
      PROVE  Arrives(r) /\ (todo' \in [Requests -> Seq(Steps)]) /\ DOMAIN answer' = Requests
             /\ \A q \in Requests \ {r} : Rests(q)
  <2>1. /\ body[r] = NoBody /\ body' = [body EXCEPT ![r] = b] /\ Continue(r, Handler(b))
        /\ spawned' = spawned
    BY Zenon, <1>2 DEF Receive
  <2>2. Decided(b, Handler(b)) /\ Handler(b) \in Seq(Steps)
    BY Zenon, HandlerDecides DEF Base, Decided
  <2>3. body'[r] = b /\ \A q \in Requests \ {r} : body'[q] = body[q]
    BY Zenon, <1>1, <2>1 DEF TypeOK
  <2>4. Goes(r, Handler(b))
    BY Zenon, <1>1, <2>1, <2>2, ContinueSteps DEF Goes
  <2>5. Arrives(r)
    BY Zenon, <2>1, <2>2, <2>3, <2>4, HandlerPlans DEF Arrives
  <2>6. \A q \in Requests \ {r} : todo'[q] = todo[q] /\ answer'[q] = answer[q]
    BY Zenon, <1>1, <2>1, <2>2, ContinueSteps
  <2>7. todo' \in [Requests -> Seq(Steps)] /\ DOMAIN answer' = Requests
    BY Zenon, <1>1, <2>1, <2>2, ContinueSteps
  <2> QED
    BY Zenon, <2>1, <2>3, <2>5, <2>6, <2>7 DEF Rests
<1>3. CASE Appends(r)
  BY Zenon, <1>3, AppendsProceed
<1>4. CASE Spawn(r)
  <2>1. /\ todo[r] # <<>> /\ Head(todo[r]).op = "spawn" /\ body' = body
        /\ spawned' = spawned \cup {r}
        /\ Continue(r, <<WaitStep>> \o Tail(todo[r]))
    BY <1>4, Zenon DEF Spawn, At, WaitStep
  <2>2. "spawn" \in Ops(todo[r])
    BY Zenon, <1>1, <2>1, RemainingSteps
  <2>3. todo[r] = <<SpawnStep>>
    BY <2>1, <2>2, LiveSteps DEF Base, Shapes
  <2>4. <<WaitStep>> \o Tail(todo[r]) = <<WaitStep>>
    BY <2>3
  <2>5. Continue(r, <<WaitStep>>) /\ <<WaitStep>> \in Seq(Steps) /\ Ops(<<WaitStep>>) = {"wait"}
    BY <2>1, <2>4, ScriptSteps, Zenon
  <2>6. todo'[r] = <<WaitStep>> /\ answer'[r] = answer[r]
    BY <1>1, <2>5, ContinueSteps, Zenon
  <2>7. Starts(r)
    BY Zenon, <2>1, <2>3, <2>6 DEF Starts
  <2>8. /\ todo' \in [Requests -> Seq(Steps)] /\ DOMAIN answer' = Requests
        /\ \A q \in Requests \ {r} : todo'[q] = todo[q] /\ answer'[q] = answer[q]
    BY <1>1, <2>5, ContinueSteps, Zenon
  <2> QED
    BY Zenon, <2>1, <2>7, <2>8 DEF Rests
<1>5. CASE ScriptEnds(r) \/ ScriptTimesOut(r)
  <2>1. todo[r] # <<>> /\ Head(todo[r]).op = "wait" /\ body' = body /\ spawned' = spawned
    BY Zenon, <1>5 DEF ScriptEnds, ScriptTimesOut, At
  <2>2. "wait" \in Ops(todo[r])
    BY Zenon, <1>1, <2>1, RemainingSteps
  <2>3. todo[r] = <<WaitStep>> /\ Tail(todo[r]) = <<>>
    <3>1. todo[r] = <<WaitStep>>
      BY Zenon, <2>2 DEF Base, Shapes
    <3>2. Tail(<<WaitStep>>) = <<>>
      OBVIOUS
    <3> QED
      BY Zenon, <3>1, <3>2
  <2>4. \E s : Resumes(s) /\ Continue(r, s)
    <3>1. CASE ScriptEnds(r)
      <4>1. PICK result \in {"success", "failure"} :
              Continue(r, Tail(todo[r]) \o Exec(result) \o write_audit(result)
                            \o execution_contract_payload(
                                 IF result = "success" THEN "allow" ELSE "preview_only"))
        BY Zenon, <3>1 DEF ScriptEnds
      <4>2. PICK decision \in {"allow", "preview_only"} :
              decision = IF result = "success" THEN "allow" ELSE "preview_only"
        BY Zenon
      <4>3. Continue(r, <<>> \o Exec(result) \o write_audit(result)
                          \o execution_contract_payload(decision))
        BY Zenon, <2>3, <4>1, <4>2
      <4> QED
        BY Zenon, <4>3, Resumption
    <3>2. CASE ScriptTimesOut(r)
      <4>1. Continue(r, <<>> \o Exec("failure") \o execution_contract_payload("preview_only"))
        BY Zenon, <2>3, <3>2 DEF ScriptTimesOut
      <4> QED
        BY Zenon, <4>1, Resumption
    <3> QED
      BY Zenon, <1>5, <3>1, <3>2
  <2>5. PICK s : Resumes(s) /\ Continue(r, s)
    BY Zenon, <2>4
  <2>6. Resumed(r)
    BY Zenon, <1>1, <2>1, <2>3, <2>5, ResumesGoes DEF Resumed
  <2>7. /\ todo' \in [Requests -> Seq(Steps)] /\ DOMAIN answer' = Requests
        /\ \A q \in Requests \ {r} : todo'[q] = todo[q] /\ answer'[q] = answer[q]
    BY Zenon, <1>1, <2>5, ContinueSteps DEF Resumes, Quiet
  <2> QED
    BY Zenon, <2>1, <2>6, <2>7 DEF Rests
<1>6. CASE AppendRaises(r)
  <2>1. /\ todo[r] # <<>> /\ todo' = [todo EXCEPT ![r] = <<>>]
        /\ answer' = [answer EXCEPT ![r] = "500"] /\ body' = body /\ spawned' = spawned
    BY Zenon, <1>6 DEF AppendRaises
  <2>2. todo \in [Requests -> Seq(Steps)] /\ DOMAIN answer = Requests /\ <<>> \in Seq(Steps)
    BY <1>1, SMTT(30) DEF TypeOK
  <2> QED
    BY Zenon, <2>1, <2>2 DEF Fails, Rests
<1> QED
  BY <1>2, <1>3, <1>4, <1>5, <1>6, Zenon DEF Step, Appends

\* Every step of the server rests, fails, arrives, proceeds, starts or resumes each request.
LEMMA EachRequest ==
  ASSUME Base, [Next]_vars
  PROVE  /\ todo' \in [Requests -> Seq(Steps)] /\ DOMAIN answer' = Requests
         /\ \A q \in Requests : \/ Rests(q) \/ Fails(q) \/ Arrives(q)
                                \/ Proceeds(q) \/ Starts(q) \/ Resumed(q)
<1>1. todo \in [Requests -> Seq(Steps)] /\ DOMAIN answer = Requests
  BY Zenon DEF Base, TypeOK
<1>2. CASE UNCHANGED vars
  BY Zenon, <1>1, <1>2 DEF vars, Rests
<1>3. CASE Crash
  <2>1. /\ todo' = [q \in Requests |-> <<>>] /\ body' = body /\ spawned' = spawned
        /\ answer' = [q \in Requests |-> IF todo[q] # <<>> THEN "lost" ELSE answer[q]]
    BY Zenon, <1>3 DEF Crash
  <2>2. <<>> \in Seq(Steps)
    OBVIOUS
  <2>3. \A q \in Requests : Rests(q) \/ Fails(q)
    BY <2>1, SMTT(30) DEF Rests, Fails
  <2> QED
    BY Zenon, <2>1, <2>2, <2>3
<1>4. ASSUME NEW r \in Requests,
             (\E b \in Bodies[r] : Receive(r, b)) \/ Step(r) \/ ScriptEnds(r) \/ AppendRaises(r)
      PROVE  /\ todo' \in [Requests -> Seq(Steps)] /\ DOMAIN answer' = Requests
             /\ \A q \in Requests : \/ Rests(q) \/ Fails(q) \/ Arrives(q)
                                    \/ Proceeds(q) \/ Starts(q) \/ Resumed(q)
  BY Zenon, <1>4, RequestStep
<1> QED
  BY Zenon, <1>2, <1>3, <1>4 DEF Next

-----------------------------------------------------------------------------
(* The base invariant.                                                      *)

\* Each of these variables has one action that changes it.
LEMMA OthersKeep ==
  ASSUME [Next]_vars
  PROVE  /\ (\A r \in Requests : ~ReadTail(r)) => tail' = tail
         /\ (\A r \in Requests : ~Spawn(r)) => spawned' = spawned
         /\ (\A r \in Requests : \A b \in Bodies[r] : ~Receive(r, b)) => body' = body
         /\ (\A r \in Requests : ~AppendPreview(r)) => previews' = previews
<1> DEFINE Kept == /\ (\A r \in Requests : ~ReadTail(r)) => tail' = tail
                   /\ (\A r \in Requests : ~Spawn(r)) => spawned' = spawned
                   /\ (\A r \in Requests : \A b \in Bodies[r] : ~Receive(r, b)) => body' = body
                   /\ (\A r \in Requests : ~AppendPreview(r)) => previews' = previews
<1>1. CASE UNCHANGED vars
  BY Zenon, <1>1 DEF vars
<1>2. CASE Crash
  BY Zenon, <1>2 DEF Crash, files
<1>3. ASSUME NEW r \in Requests, NEW b \in Bodies[r], Receive(r, b)
      PROVE  Kept
  <2>1. tail' = tail /\ spawned' = spawned /\ previews' = previews
    BY Zenon, <1>3 DEF Receive, files
  <2> QED
    BY Zenon, <1>3, <2>1
<1>4. ASSUME NEW r \in Requests, Step(r) \/ ScriptEnds(r) \/ AppendRaises(r)
      PROVE  Kept
  <2>1. CASE ReadTail(r)
    <3>1. spawned' = spawned /\ body' = body /\ previews' = previews
      BY Zenon, <2>1 DEF ReadTail, files
    <3> QED
      BY Zenon, <2>1, <3>1
  <2>2. CASE Spawn(r)
    <3>1. tail' = tail /\ body' = body /\ previews' = previews
      BY <2>2, Zenon DEF Spawn, files
    <3> QED
      BY Zenon, <2>2, <3>1
  <2>3. CASE AppendPreview(r)
    <3>1. tail' = tail /\ body' = body /\ spawned' = spawned
      BY Zenon, <2>3 DEF AppendPreview
    <3> QED
      BY Zenon, <2>3, <3>1
  <2>4. CASE ~ReadTail(r) /\ ~Spawn(r) /\ ~AppendPreview(r)
    <3>1. tail' = tail /\ body' = body /\ spawned' = spawned /\ previews' = previews
      BY Zenon, <1>4, <2>4 DEF Step, AppendFailureEvent, AppendExecution, AppendStored, AppendIncident,
                AppendAudit, AppendContract, ScriptTimesOut, ScriptEnds, AppendRaises, files
    <3> QED
      BY <3>1, SMTT(30)
  <2> QED
    BY Zenon, <2>1, <2>2, <2>3, <2>4
<1> QED
  BY Zenon, <1>1, <1>2, <1>3, <1>4 DEF Next

\* previous_hash is the id of a row with a hash, or empty.
LEMMA LastHashType ==
  ASSUME TypeOK
  PROVE  /\ LastHash \in Requests \cup {NoLink}
         /\ LastHash # NoLink => \E j \in DOMAIN audit : audit[j].kind = "contract" /\ audit[j].id = LastHash
<1>1. audit \in Seq(AuditRows)
  BY Zenon DEF TypeOK
<1>2. CASE audit = <<>> \/ audit[Len(audit)].kind = "plain"
  BY Zenon, <1>2 DEF LastHash
<1>3. CASE ~(audit = <<>> \/ audit[Len(audit)].kind = "plain")
  <2>1. Len(audit) \in DOMAIN audit /\ audit[Len(audit)] \in AuditRows
    BY <1>1, <1>3
  <2>2. audit[Len(audit)].kind = "contract" /\ audit[Len(audit)].id \in Requests
    BY Zenon, <1>3, <2>1 DEF AuditRows
  <2>3. LastHash = audit[Len(audit)].id
    BY Zenon, <1>3 DEF LastHash
  <2> QED
    BY Zenon, <2>1, <2>2, <2>3
<1> QED
  BY Zenon, <1>2, <1>3

\* Every step keeps the types,
LEMMA TypeStep ==
  ASSUME Base, [Next]_vars
  PROVE  TypeOK'
<1>1. TypeOK
  BY Zenon DEF Base
<1>2. audit' \in Seq(AuditRows)
  <2>1. CASE \A r \in Requests : ~AppendAudit(r) /\ ~AppendContract(r)
    BY Zenon, <1>1, <2>1, AuditKept DEF TypeOK
  <2>2. CASE ~\A r \in Requests : ~AppendAudit(r) /\ ~AppendContract(r)
    <3>1. PICK row \in AuditRows : audit' = audit \o <<row>>
      BY <1>1, <2>2, AuditRow, Zenon
    <3> QED
      BY Zenon, <1>1, <3>1, RowsAppended
  <2> QED
    BY Zenon, <2>1, <2>2
<1>3. tail' \in [Requests -> Requests \cup {NoLink}]
  <2>1. CASE \A r \in Requests : ~ReadTail(r)
    BY Zenon, <1>1, <2>1, OthersKeep DEF TypeOK
  <2>2. ASSUME NEW r \in Requests, ReadTail(r)
        PROVE  tail' \in [Requests -> Requests \cup {NoLink}]
    <3>1. tail' = [tail EXCEPT ![r] = LastHash]
      BY Zenon, <2>2 DEF ReadTail
    <3> QED
      BY Zenon, <1>1, <3>1, LastHashType DEF TypeOK
  <2> QED
    BY Zenon, <2>1, <2>2
<1>4. spawned' \subseteq Requests
  <2>1. CASE \A r \in Requests : ~Spawn(r)
    BY Zenon, <1>1, <2>1, OthersKeep DEF TypeOK
  <2>2. ASSUME NEW r \in Requests, Spawn(r)
        PROVE  spawned' \subseteq Requests
    BY <1>1, <2>2, Zenon DEF Spawn, TypeOK
  <2> QED
    BY <2>1, <2>2, SMTT(30)
<1>5. DOMAIN body' = Requests /\ \A r \in Requests : body'[r] # NoBody => body'[r] \in Bodies[r]
  <2>1. CASE \A r \in Requests : \A b \in Bodies[r] : ~Receive(r, b)
    BY Zenon, <1>1, <2>1, OthersKeep DEF TypeOK
  <2>2. ASSUME NEW r \in Requests, NEW b \in Bodies[r], Receive(r, b)
        PROVE  DOMAIN body' = Requests /\ \A q \in Requests : body'[q] # NoBody => body'[q] \in Bodies[q]
    BY Zenon, <1>1, <2>2 DEF Receive, TypeOK
  <2> QED
    BY <2>1, <2>2, SMTT(30)
<1>6. todo' \in [Requests -> Seq(Steps)] /\ DOMAIN answer' = Requests
  BY Zenon, EachRequest
<1> QED
  BY Zenon, <1>2, <1>3, <1>4, <1>5, <1>6 DEF TypeOK

\* A list a request goes on with has no more in it than the list it had.
LEMMA GoesOn ==
  ASSUME NEW q, NEW s, Goes(q, s)
  PROVE  Ops(todo'[q]) \subseteq Ops(s) /\ (Ops(todo'[q]) # Ops(s) => Ops(s) = {"reply"})
<1>1. Ops(<<>>) = {}
  BY DEF Ops
<1> QED
  BY Zenon, <1>1 DEF Goes

\* the shapes of the plans,
LEMMA ShapesStep ==
  ASSUME Base, [Next]_vars
  PROVE  Shapes'
<1> SUFFICES ASSUME NEW q \in Requests
             PROVE  /\ "spawn" \in Ops(todo'[q]) => todo'[q] = ExecuteLive \/ todo'[q] = <<SpawnStep>>
                    /\ "wait" \in Ops(todo'[q]) => todo'[q] = <<WaitStep>>
  BY Zenon DEF Shapes, Ops, ExecuteLive, write_audit
<1>1. Ops(<<>>) = {}
  BY DEF Ops
<1>2. CASE Rests(q)
  BY Zenon, <1>2 DEF Rests, Base, Shapes
<1>3. CASE Fails(q)
  BY Zenon, <1>1, <1>3 DEF Fails
<1>4. CASE Arrives(q)
  <2>1. Goes(q, Handler(body'[q])) /\ Decided(body'[q], Handler(body'[q]))
    BY Zenon, <1>4 DEF Arrives
  <2> QED
    BY Zenon, <1>1, <2>1 DEF Goes, Decided
<1>5. CASE Proceeds(q)
  <2>1. /\ todo[q] \in Seq(Steps) /\ todo[q] # <<>> /\ Head(todo[q]).op \notin {"spawn", "wait"}
        /\ Goes(q, Tail(todo[q]))
    BY Zenon, <1>5 DEF Proceeds, Base, TypeOK
  <2>2. Ops(todo[q]) = {Head(todo[q]).op} \cup Ops(Tail(todo[q]))
    BY Zenon, <2>1, RemainingSteps
  <2>3. Ops(todo'[q]) \subseteq Ops(todo[q])
    BY Zenon, <2>1, <2>2, GoesOn
  <2>4. "wait" \notin Ops(todo[q])
    <3>1. Head(<<WaitStep>>).op = "wait"
      <4>1. WaitStep.op = "wait"
        BY Zenon DEF WaitStep
      <4>2. Head(<<WaitStep>>) = WaitStep
        BY Zenon, HeadOfOne
      <4> QED
        BY <4>1, <4>2, Zenon
    <3>2. "wait" \in Ops(todo[q]) => todo[q] = <<WaitStep>>
      BY Zenon DEF Base, Shapes
    <3> QED
      BY <2>1, <3>1, <3>2, Zenon
  <2>5. "spawn" \in Ops(todo[q]) => Tail(todo[q]) = <<SpawnStep>>
    <3>1. Head(<<SpawnStep>>).op = "spawn"
      <4>1. SpawnStep.op = "spawn"
        BY Zenon DEF SpawnStep
      <4>2. Head(<<SpawnStep>>) = SpawnStep
        BY Zenon, HeadOfOne
      <4> QED
        BY <4>1, <4>2, Zenon
    <3>2. "spawn" \in Ops(todo[q]) => todo[q] = ExecuteLive \/ todo[q] = <<SpawnStep>>
      BY Zenon DEF Base, Shapes
    <3> QED
      BY <2>1, <3>1, <3>2, LiveSteps, Zenon
  <2> QED
    BY <1>1, <2>1, <2>3, <2>4, <2>5, Zenon DEF Goes
<1>6. CASE Starts(q)
  BY Zenon, <1>6, ScriptSteps DEF Starts
<1>7. CASE Resumed(q)
  BY <1>7, SMTT(30) DEF Resumed, Resumes, Quiet
<1> QED
  BY Zenon, <1>2, <1>3, <1>4, <1>5, <1>6, <1>7, EachRequest

\* what belongs to requests that have not arrived or have ended,
LEMMA UntouchedStep ==
  ASSUME Base, [Next]_vars
  PROVE  Untouched'
<1> SUFFICES ASSUME NEW q \in Requests
             PROVE  /\ body'[q] = NoBody => todo'[q] = <<>> /\ q \notin spawned' /\ answer'[q] = "none"
                    /\ todo'[q] # <<>> => answer'[q] = "none"
  BY Zenon DEF Untouched
<1>1. /\ body[q] = NoBody => todo[q] = <<>> /\ q \notin spawned /\ answer[q] = "none"
      /\ todo[q] # <<>> => answer[q] = "none"
  BY Zenon DEF Base, Untouched
<1>2. CASE Rests(q)
  BY Zenon, <1>1, <1>2 DEF Rests
<1>3. CASE Fails(q)
  BY Zenon, <1>1, <1>3 DEF Fails
<1>4. CASE Arrives(q)
  <2>1. body'[q] # NoBody
    BY Zenon, <1>4, ApiAssumption DEF Arrives
  <2> QED
    BY Zenon, <1>1, <1>4, <2>1 DEF Arrives, Goes
<1>5. CASE Proceeds(q)
  BY Zenon, <1>1, <1>5 DEF Proceeds, Goes
<1>6. CASE Starts(q)
  BY <1>1, <1>6 DEF Starts
<1>7. CASE Resumed(q)
  BY <1>1, <1>7 DEF Resumed
<1> QED
  BY Zenon, <1>2, <1>3, <1>4, <1>5, <1>6, <1>7, EachRequest

\* the events behind the previews
LEMMA EventsStep ==
  ASSUME Base, [Next]_vars
  PROVE  PreviewsHaveEvents'
<1> SUFFICES ASSUME NEW q \in Requests, "preview" \in Ops(todo'[q])
             PROVE  body'[q].event \in failureEvents'
  BY Zenon DEF PreviewsHaveEvents, Ops
<1>1. failureEvents \subseteq failureEvents'
  BY Zenon, FilesGrow DEF Base, Grows
<1>2. "preview" \in Ops(todo[q]) => body[q].event \in failureEvents
  BY Zenon DEF Base, PreviewsHaveEvents
<1>3. Ops(<<>>) = {}
  BY DEF Ops
<1>4. CASE Rests(q)
  BY Zenon, <1>1, <1>2, <1>4 DEF Rests
<1>5. CASE Fails(q)
  BY Zenon, <1>3, <1>5 DEF Fails
<1>6. CASE Arrives(q)
  <2>1. "preview" \in Ops(Handler(body'[q]))
    BY Zenon, <1>3, <1>6 DEF Arrives, Goes
  <2> QED
    BY Zenon, <1>1, <1>6, <2>1 DEF Arrives, Decided
<1>7. CASE Proceeds(q)
  <2>1. "preview" \in Ops(Tail(todo[q]))
    BY Zenon, <1>3, <1>7 DEF Proceeds, Goes
  <2>2. todo[q] \in Seq(Steps) /\ todo[q] # <<>> /\ body'[q] = body[q]
    BY Zenon, <1>7 DEF Proceeds, Base, TypeOK
  <2>3. "preview" \in Ops(todo[q])
    BY <2>1, <2>2, RemainingSteps, SMTT(30)
  <2> QED
    BY Zenon, <1>1, <1>2, <2>2, <2>3
<1>8. CASE Starts(q)
  BY <1>8, ScriptSteps DEF Starts
<1>9. CASE Resumed(q)
  BY Zenon, <1>9 DEF Resumed, Resumes, Quiet
<1> QED
  BY Zenon, <1>4, <1>5, <1>6, <1>7, <1>8, <1>9, EachRequest

\* and the confirmations behind them.
LEMMA FoundedStep ==
  ASSUME Base, [Next]_vars
  PROVE  PreviewsAreFounded'
<1>1. failureEvents \subseteq failureEvents'
  BY Zenon, FilesGrow DEF Base, Grows
<1>2. PreviewsAreFounded
  BY Zenon DEF Base
<1> DEFINE Asks(p) == /\ Known(p.action)
                      /\ get_remediation_action(p.action).risk_level = "medium"
                      /\ get_remediation_action(p.action).confirmation_phrase # ""
                      => p.requires_typed_confirmation
<1>3. \A p \in previews : p.event \in failureEvents /\ Asks(p)
  BY <1>2, Zenon DEF PreviewsAreFounded
<1>4. ASSUME NEW r \in Requests, AppendPreview(r)
      PROVE  \A p \in previews' : p.event \in failureEvents' /\ Asks(p)
  <2> DEFINE new == build_preview(r, body[r])
  <2>1. previews' = previews \cup {new} /\ todo[r] # <<>> /\ Head(todo[r]).op = "preview"
    BY Zenon, <1>4 DEF AppendPreview, At
  <2>2. todo[r] \in Seq(Steps)
    BY Zenon DEF Base, TypeOK
  <2>3. "preview" \in Ops(todo[r])
    BY Zenon, <2>1, <2>2, RemainingSteps
  <2>4. body[r].event \in failureEvents
    BY Zenon, <2>3 DEF Base, PreviewsHaveEvents
  <2>5. new.event = body[r].event /\ new.action = body[r].action
    BY Zenon DEF build_preview
  <2>6. new.requires_typed_confirmation =
          (\/ ~Known(body[r].action)
           \/ /\ get_remediation_action(body[r].action).risk_level \in {"low", "medium"}
              /\ get_remediation_action(body[r].action).confirmation_phrase # "")
    BY Zenon DEF build_preview
  <2> HIDE DEF new
  <2>7. Asks(new)
    BY <2>5, <2>6, Zenon
  <2> HIDE DEF Asks
  <2> QED
    BY Zenon, <1>1, <1>3, <2>1, <2>4, <2>5, <2>7
<1>5. CASE \A r \in Requests : ~AppendPreview(r)
  <2>1. previews' = previews
    BY Zenon, <1>5, OthersKeep
  <2> HIDE DEF Asks
  <2>2. \A p \in previews' : p.event \in failureEvents' /\ Asks(p)
    BY Zenon, <1>1, <1>3, <2>1
  <2> QED
    BY <2>2, Zenon DEF PreviewsAreFounded, Asks, Known, get_remediation_action
<1> QED
  BY <1>4, <1>5, Zenon DEF PreviewsAreFounded, Known, get_remediation_action

\* The base invariant holds initially,
LEMMA BaseInit == Init => Base
<1> SUFFICES ASSUME Init PROVE Base
  BY Zenon
<1>1. Ops(<<>>) = {}
  BY DEF Ops
<1>2. <<>> \in Seq(Steps) /\ <<>> \in Seq(AuditRows)
  OBVIOUS
<1>3. TypeOK
  BY Zenon, <1>2 DEF Init, TypeOK
<1>4. \A r \in Requests : todo[r] = <<>>
  BY Zenon DEF Init
<1>5. Shapes /\ PreviewsHaveEvents
  BY Zenon, <1>1, <1>4 DEF Shapes, PreviewsHaveEvents
<1>6. Untouched
  BY Zenon DEF Init, Untouched
<1>7. PreviewsAreFounded
  BY Zenon DEF Init, PreviewsAreFounded
<1> QED
  BY Zenon, <1>3, <1>5, <1>6, <1>7 DEF Base

\* every step keeps it,
LEMMA BaseStep == Base /\ [Next]_vars => Base'
  BY Zenon, TypeStep, ShapesStep, UntouchedStep, EventsStep, FoundedStep DEF Base

\* and so it always holds.
LEMMA BaseAlways == Spec => []Base
  BY BaseInit, BaseStep, PTL DEF Spec

-----------------------------------------------------------------------------
(* The links of the audit file.                                             *)

\* What a handler has read as the last hash is the hash of a row in the file.
TailsAreStored ==
  \A r \in Requests :
    tail[r] # NoLink => \E j \in DOMAIN audit : audit[j].kind = "contract" /\ audit[j].id = tail[r]

\* Every step keeps the links pointing back.
LEMMA LinksStep ==
  ASSUME Base, TailsAreStored, LinksPointBack, [Next]_vars
  PROVE  TailsAreStored' /\ LinksPointBack'
<1>1. TypeOK
  BY Zenon DEF Base
<1>2. DOMAIN audit \subseteq DOMAIN audit' /\ \A i \in DOMAIN audit : audit'[i] = audit[i]
  BY Zenon, <1>1, FilesGrow DEF Grows
<1>3. TailsAreStored'
  <2> SUFFICES ASSUME NEW q \in Requests, tail'[q] # NoLink
               PROVE  \E j \in DOMAIN audit : audit[j].kind = "contract" /\ audit[j].id = tail'[q]
    BY Zenon, <1>2 DEF TailsAreStored
  <2>1. CASE \A r \in Requests : ~ReadTail(r)
    BY Zenon, <2>1, OthersKeep DEF TailsAreStored
  <2>2. ASSUME NEW r \in Requests, ReadTail(r)
        PROVE  \E j \in DOMAIN audit : audit[j].kind = "contract" /\ audit[j].id = tail'[q]
    <3>1. tail' = [tail EXCEPT ![r] = LastHash] /\ tail \in [Requests -> Requests \cup {NoLink}]
      BY Zenon, <1>1, <2>2 DEF ReadTail, TypeOK
    <3>2. tail'[q] = LastHash \/ tail'[q] = tail[q]
      BY Zenon, <3>1
    <3> QED
      BY Zenon, <1>1, <3>2, LastHashType DEF TailsAreStored
  <2> QED
    BY Zenon, <2>1, <2>2
<1>4. LinksPointBack'
  <2>1. CASE \A r \in Requests : ~AppendAudit(r) /\ ~AppendContract(r)
    BY Zenon, <2>1, AuditKept DEF LinksPointBack
  <2>2. ASSUME NEW r \in Requests, AppendAudit(r) \/ AppendContract(r)
        PROVE  LinksPointBack'
    <3>1. PICK row \in AuditRows : audit' = audit \o <<row>> /\ row.previous \in {NoLink, tail[r]}
      BY <1>1, <2>2, AuditRow, Zenon
    <3>2. /\ Len(audit) \in Nat
          /\ DOMAIN audit = 1..Len(audit) /\ DOMAIN audit' = 1..(Len(audit) + 1)
          /\ \A i \in DOMAIN audit : audit'[i] = audit[i]
          /\ audit'[Len(audit) + 1] = row
      BY Zenon, <1>1, <3>1, RowsAppended
    <3> SUFFICES ASSUME NEW i \in DOMAIN audit', audit'[i].previous # NoLink
                 PROVE  \E j \in 1..(i - 1) : audit'[j].kind = "contract" /\ audit'[j].id = audit'[i].previous
      BY Zenon DEF LinksPointBack
    <3>3. CASE i \in DOMAIN audit
      <4>1. PICK j \in 1..(i - 1) : audit[j].kind = "contract" /\ audit[j].id = audit[i].previous
        BY Zenon, <3>2, <3>3 DEF LinksPointBack
      <4>2. j \in DOMAIN audit
        BY <3>2, <3>3
      <4> QED
        BY Zenon, <3>2, <3>3, <4>1, <4>2
    <3>4. CASE i \notin DOMAIN audit
      <4>1. i = Len(audit) + 1 /\ i - 1 = Len(audit)
        BY <3>2, <3>4
      <4>2. audit'[i].previous = tail[r] /\ tail[r] # NoLink
        BY Zenon, <3>1, <3>2, <4>1
      <4>3. PICK j \in DOMAIN audit : audit[j].kind = "contract" /\ audit[j].id = tail[r]
        BY Zenon, <4>2 DEF TailsAreStored
      <4> QED
        BY Zenon, <3>2, <4>1, <4>2, <4>3
    <3> QED
      BY Zenon, <3>3, <3>4
  <2> QED
    BY Zenon, <2>1, <2>2
<1> QED
  BY Zenon, <1>3, <1>4

\* append_contract_audit: previous_hash always names a contract row that stands earlier in the
\* file, however requests interleave between the read of the last row and the append.
THEOREM LinksLeadBack == Spec => []LinksPointBack
<1>1. Init => TailsAreStored /\ LinksPointBack
  BY DEF Init, TailsAreStored, LinksPointBack
<1>2. Base /\ TailsAreStored /\ LinksPointBack /\ [Next]_vars => TailsAreStored' /\ LinksPointBack'
  BY Zenon, LinksStep
<1> QED
  BY <1>1, <1>2, BaseAlways, PTL DEF Spec

-----------------------------------------------------------------------------
(* Scripts are authorised.                                                  *)

\* Whoever has started a script, or has decided to, has passed every gate.
ScriptsAreAuthorised ==
  \A r \in Requests : "spawn" \in Ops(todo[r]) \/ r \in spawned => Authorised(body[r])

\* A gate that was passed stays passed: previews and events are never removed.
LEMMA AuthorisedStays ==
  ASSUME NEW b, Authorised(b), previews \subseteq previews', failureEvents \subseteq failureEvents'
  PROVE  /\ b.role = "admin" /\ ~b.dry_run /\ ~DemoMode
         /\ \E p \in previews' :
              /\ p.id = b.preview /\ p.event \in failureEvents'
              /\ get_remediation_action(p.action).api_execute_allowed
              /\ ~get_remediation_action(p.action).manual_only
              /\ get_remediation_action(p.action).confirmation_phrase = b.phrase
  BY SMTT(30) DEF Authorised

\* Every step keeps the scripts authorised.
LEMMA AuthorisedStep ==
  ASSUME Base, ScriptsAreAuthorised, [Next]_vars
  PROVE  ScriptsAreAuthorised'
<1>1. previews \subseteq previews' /\ failureEvents \subseteq failureEvents'
  BY FilesGrow, SMTT(30) DEF Base, Grows
<1>2. ASSUME NEW q \in Requests, "spawn" \in Ops(todo'[q]) \/ q \in spawned'
      PROVE  Authorised(body'[q])
  <2>1. "spawn" \in Ops(todo[q]) \/ q \in spawned => Authorised(body[q])
    BY Zenon DEF ScriptsAreAuthorised
  <2>2. Ops(<<>>) = {}
    BY DEF Ops
  <2>3. CASE Rests(q)
    BY Zenon, <1>2, <2>1, <2>3 DEF Rests
  <2>4. CASE Fails(q)
    BY Zenon, <1>2, <2>1, <2>2, <2>4 DEF Fails
  <2>5. CASE Arrives(q)
    <3>1. q \notin spawned'
      BY Zenon, <2>5 DEF Arrives, Base, Untouched
    <3>2. "spawn" \in Ops(Handler(body'[q]))
      BY Zenon, <1>2, <2>2, <2>5, <3>1 DEF Arrives, Goes
    <3> QED
      BY Zenon, <2>5, <3>2 DEF Arrives, Decided
  <2>6. CASE Proceeds(q)
    <3>1. todo[q] \in Seq(Steps) /\ todo[q] # <<>> /\ body'[q] = body[q]
      BY Zenon, <2>6 DEF Proceeds, Base, TypeOK
    <3>2. Ops(Tail(todo[q])) \subseteq Ops(todo[q])
      BY Zenon, <3>1, RemainingSteps
    <3>3. "spawn" \in Ops(todo[q]) \/ q \in spawned
      BY Zenon, <1>2, <2>2, <2>6, <3>2 DEF Proceeds, Goes
    <3> QED
      BY Zenon, <2>1, <3>1, <3>3
  <2>7. CASE Starts(q)
    BY <2>1, <2>7, ScriptSteps, Zenon DEF Starts
  <2>8. CASE Resumed(q)
    BY Zenon, <1>2, <2>1, <2>8 DEF Resumed, Resumes, Quiet
  <2> QED
    BY Zenon, <2>3, <2>4, <2>5, <2>6, <2>7, <2>8, EachRequest
<1>3. \A q \in Requests : "spawn" \in Ops(todo'[q]) \/ q \in spawned' =>
        LET b == body'[q] IN
        /\ b.role = "admin" /\ ~b.dry_run /\ ~DemoMode
        /\ \E p \in previews' :
             /\ p.id = b.preview /\ p.event \in failureEvents'
             /\ get_remediation_action(p.action).api_execute_allowed
             /\ ~get_remediation_action(p.action).manual_only
             /\ get_remediation_action(p.action).confirmation_phrase = b.phrase
  BY Zenon, <1>1, <1>2, AuthorisedStays
<1> QED
  BY Zenon, <1>3 DEF ScriptsAreAuthorised, Authorised, Ops, get_remediation_action

\* remediation_execute starts a script only for an admin outside demo mode who typed the phrase
\* of the action, which the registry lets the API execute, after a stored preview of a stored
\* failure event: for all requests, bodies, interleavings and faults.
THEOREM ScriptsNeedAuthority == Spec => []LiveIsAuthorised
<1>1. Init => ScriptsAreAuthorised
  <2>1. Ops(<<>>) = {}
    BY DEF Ops
  <2> QED
    BY Zenon, <2>1 DEF Init, ScriptsAreAuthorised
<1>2. Base /\ ScriptsAreAuthorised /\ [Next]_vars => ScriptsAreAuthorised'
  BY Zenon, AuthorisedStep
<1>3. Base /\ ScriptsAreAuthorised => LiveIsAuthorised
  <2> SUFFICES ASSUME Base, ScriptsAreAuthorised, NEW r \in spawned
               PROVE  Authorised(body[r])
    BY Zenon DEF LiveIsAuthorised, Authorised
  <2> QED
    BY Zenon DEF Base, TypeOK, ScriptsAreAuthorised
<1> QED
  BY <1>1, <1>2, <1>3, BaseAlways, PTL DEF Spec

-----------------------------------------------------------------------------
(* Scripts leave their trace.                                               *)

HasExecution(r) == \E x \in executions : x.id = r /\ x.result \in {"success", "failure"}

\* The pending row precedes the script; behind the script comes its execution row, and a
\* contract audit row is stored or still to come.
ScriptsAreTraced ==
  \A r \in Requests :
    /\ r \in spawned \/ todo[r] = <<SpawnStep>> => Plain(r, "pending") # {}
    /\ r \in spawned /\ answer[r] \notin {"500", "lost"} =>
         \/ todo[r] = <<WaitStep>>
         \/ /\ todo[r] # <<>>
            /\ Head(todo[r]).op = "execution" /\ Head(todo[r]).what \in {"success", "failure"}
            /\ "contract" \in Ops(Tail(todo[r]))
         \/ HasExecution(r) /\ (Contracts(r) # {} \/ "contract" \in Ops(todo[r]))
    /\ todo[r] = <<WaitStep>> => r \in spawned
    /\ "spawn" \in Ops(todo[r]) => r \notin spawned

\* Rows and executions that are there stay there.
LEMMA TracesStay ==
  ASSUME Grows, NEW r
  PROVE  /\ Plain(r, "pending") # {} => Plain(r, "pending")' # {}
         /\ Contracts(r) # {} => Contracts(r)' # {}
         /\ HasExecution(r) => HasExecution(r)'
<1>1. ASSUME NEW i \in Plain(r, "pending") PROVE i \in Plain(r, "pending")'
  BY Zenon, <1>1 DEF Grows, Plain
<1>2. ASSUME NEW i \in Contracts(r) PROVE i \in Contracts(r)'
  BY Zenon, <1>2 DEF Grows, Contracts
<1>3. HasExecution(r) => HasExecution(r)'
  BY Zenon DEF Grows, HasExecution
<1> QED
  BY Zenon, <1>1, <1>2, <1>3

\* Each kind of step a handler proceeds by leaves its row.
LEMMA ProceedingLeaves ==
  ASSUME Base, NEW r \in Requests, Proceeds(r)
  PROVE  /\ Head(todo[r]).op = "execution" /\ Head(todo[r]).what \in {"success", "failure"}
              => HasExecution(r)'
         /\ Head(todo[r]).op = "contract" => Contracts(r)' # {}
         /\ Head(todo[r]) = [op |-> "audit", what |-> "pending"] => Plain(r, "pending")' # {}
<1>1. TypeOK /\ Appends(r)
  BY Zenon DEF Base, Proceeds
<1>2. ASSUME Head(todo[r]).op = "execution", Head(todo[r]).what \in {"success", "failure"}
      PROVE  HasExecution(r)'
  <2>1. AppendExecution(r)
    BY <1>1, <1>2, Zenon DEF Appends, AppendFailureEvent, AppendPreview, AppendStored, AppendIncident,
                      AppendAudit, ReadTail, AppendContract, At
  <2>2. [id |-> r, preview |-> body[r].preview, result |-> Head(todo[r]).what] \in executions'
    BY <2>1, Zenon DEF AppendExecution, What
  <2> QED
    BY Zenon, <1>2, <2>2 DEF HasExecution
<1>3. ASSUME Head(todo[r]).op = "contract"
      PROVE  Contracts(r)' # {}
  <2>1. AppendContract(r)
    BY <1>1, <1>3, Zenon DEF Appends, AppendFailureEvent, AppendPreview, AppendExecution, AppendStored,
                      AppendIncident, AppendAudit, ReadTail, At
  <2>2. PICK row \in AuditRows : audit' = audit \o <<row>> /\ row.id = r /\ row.kind = "contract"
    BY <1>1, <2>1, AuditRow, Zenon
  <2>3. Len(audit) + 1 \in DOMAIN audit' /\ audit'[Len(audit) + 1] = row
    BY <1>1, <2>2, RowsAppended
  <2> QED
    BY Zenon, <2>2, <2>3 DEF Contracts
<1>4. ASSUME Head(todo[r]) = [op |-> "audit", what |-> "pending"]
      PROVE  Plain(r, "pending")' # {}
  <2>1. Head(todo[r]).op = "audit" /\ What(r) = "pending"
    BY <1>4 DEF What
  <2>2. AppendAudit(r)
    BY <1>1, <2>1, Zenon DEF Appends, AppendFailureEvent, AppendPreview, AppendExecution, AppendStored,
                      AppendIncident, AppendContract, ReadTail, At
  <2> DEFINE row == [kind |-> "plain", id |-> r, what |-> "pending", previous |-> NoLink]
  <2>3. row \in AuditRows /\ audit' = audit \o <<row>>
    BY Zenon, <2>1, <2>2 DEF AppendAudit, AuditRows, Whats
  <2>4. Len(audit) + 1 \in DOMAIN audit' /\ audit'[Len(audit) + 1] = row
    BY <1>1, <2>3, RowsAppended
  <2> QED
    BY Zenon, <2>3, <2>4 DEF Plain
<1> QED
  BY Zenon, <1>2, <1>3, <1>4

\* Every step keeps the traces of the script of one request.
LEMMA TracedStep ==
  ASSUME Base, ScriptsAreTraced, [Next]_vars, NEW q \in Requests
  PROVE  /\ q \in spawned' \/ todo'[q] = <<SpawnStep>> => Plain(q, "pending")' # {}
         /\ q \in spawned' /\ answer'[q] \notin {"500", "lost"} =>
              \/ todo'[q] = <<WaitStep>>
              \/ /\ todo'[q] # <<>>
                 /\ Head(todo'[q]).op = "execution" /\ Head(todo'[q]).what \in {"success", "failure"}
                 /\ "contract" \in Ops(Tail(todo'[q]))
              \/ HasExecution(q)' /\ (Contracts(q)' # {} \/ "contract" \in Ops(todo'[q]))
         /\ todo'[q] = <<WaitStep>> => q \in spawned'
         /\ "spawn" \in Ops(todo'[q]) => q \notin spawned'
<1> DEFINE Before == /\ todo[q] # <<>>
                     /\ Head(todo[q]).op = "execution" /\ Head(todo[q]).what \in {"success", "failure"}
                     /\ "contract" \in Ops(Tail(todo[q]))
           Owes == HasExecution(q) /\ (Contracts(q) # {} \/ "contract" \in Ops(todo[q]))
<1>1. /\ Plain(q, "pending") # {} => Plain(q, "pending")' # {}
      /\ Contracts(q) # {} => Contracts(q)' # {}
      /\ HasExecution(q) => HasExecution(q)'
  BY FilesGrow, TracesStay, SMTT(30) DEF Base
<1>2. /\ q \in spawned \/ todo[q] = <<SpawnStep>> => Plain(q, "pending") # {}
      /\ q \in spawned /\ answer[q] \notin {"500", "lost"} => todo[q] = <<WaitStep>> \/ Before \/ Owes
      /\ todo[q] = <<WaitStep>> => q \in spawned
      /\ "spawn" \in Ops(todo[q]) => q \notin spawned
  BY Zenon DEF ScriptsAreTraced
<1>3. /\ Ops(<<>>) = {} /\ Ops(<<SpawnStep>>) = {"spawn"} /\ Ops(<<WaitStep>>) = {"wait"}
      /\ Ops(ExecuteLive) = {"audit", "spawn"}
  BY ScriptSteps, ExecuteLists DEF Ops
<1>4. /\ todo[q] \in Seq(Steps)
      /\ todo[q] # <<>> => answer[q] = "none"
      /\ body[q] = NoBody => q \notin spawned
      /\ "spawn" \in Ops(todo[q]) => todo[q] = ExecuteLive \/ todo[q] = <<SpawnStep>>
      /\ "wait" \in Ops(todo[q]) => todo[q] = <<WaitStep>>
  BY Zenon DEF Base, TypeOK, Untouched, Shapes
<1>5. CASE Rests(q)
  BY <1>1, <1>2, <1>5, ZenonT(40) DEF Rests
<1>6. CASE Fails(q)
  <2>1. todo'[q] = <<>> /\ answer'[q] \in {"500", "lost"} /\ (q \in spawned' <=> q \in spawned)
    BY Zenon, <1>6 DEF Fails
  <2>2. todo'[q] # <<SpawnStep>> /\ todo'[q] # <<WaitStep>> /\ "spawn" \notin Ops(todo'[q])
    BY <1>3, <2>1, SMTT(30)
  <2> QED
    BY Zenon, <1>1, <1>2, <2>1, <2>2
<1>7. CASE Arrives(q)
  <2>1. q \notin spawned'
    BY <1>4, <1>7, ZenonT(40) DEF Arrives
  <2>2. todo'[q] # <<WaitStep>> /\ todo'[q] # <<SpawnStep>>
    <3>1. CASE todo'[q] = Handler(body'[q])
      BY <1>3, <1>7, <3>1 DEF Arrives, Decided
    <3>2. CASE todo'[q] = <<>>
      BY <3>2
    <3> QED
      BY Zenon, <1>7, <3>1, <3>2 DEF Arrives, Goes
  <2> QED
    BY Zenon, <2>1, <2>2
<1>8. CASE Proceeds(q)
  <2>1. /\ todo[q] # <<>> /\ answer[q] = "none" /\ Head(todo[q]).op \notin {"spawn", "wait"}
        /\ q \in spawned' <=> q \in spawned
        /\ Ops(todo[q]) = {Head(todo[q]).op} \cup Ops(Tail(todo[q]))
    BY <1>4, <1>8, RemainingSteps, Zenon DEF Proceeds
  <2>2. \/ todo'[q] = Tail(todo[q])
        \/ todo'[q] = <<>> /\ Ops(Tail(todo[q])) = {"reply"}
    BY Zenon, <1>8 DEF Proceeds, Goes
  <2>3. Ops(todo'[q]) \subseteq Ops(Tail(todo[q]))
    BY Zenon, <1>3, <2>2
  <2>4. Head(<<SpawnStep>>).op = "spawn" /\ Head(<<WaitStep>>).op = "wait"
    <3>1. SpawnStep.op = "spawn" /\ WaitStep.op = "wait"
      BY Zenon DEF SpawnStep, WaitStep
    <3> QED
      BY Zenon, <3>1, HeadOfOne
  <2>5. todo[q] # <<SpawnStep>> /\ todo[q] # <<WaitStep>>
    BY Zenon, <2>1, <2>4
  <2>6. todo'[q] # <<WaitStep>>
    BY Zenon, <1>3, <1>4, <2>1, <2>3, <2>5
  <2>7. "spawn" \in Ops(todo'[q]) => q \notin spawned'
    BY Zenon, <1>2, <2>1, <2>3
  <2>8. ASSUME todo'[q] = <<SpawnStep>> PROVE Plain(q, "pending")' # {}
    <3>1. "spawn" \in Ops(todo[q])
      BY Zenon, <1>3, <2>1, <2>3, <2>8
    <3>2. todo[q] = ExecuteLive
      BY Zenon, <1>4, <2>5, <3>1
    <3> QED
      BY Zenon, <1>8, <3>2, LiveSteps, ProceedingLeaves
  <2>9. "contract" \in Ops(Tail(todo[q])) => todo'[q] = Tail(todo[q])
    BY <2>2, SMTT(30)
  <2>10. ASSUME q \in spawned'
         PROVE  HasExecution(q)' /\ (Contracts(q)' # {} \/ "contract" \in Ops(todo'[q]))
    <3>1. Before \/ Owes
      BY Zenon, <1>2, <2>1, <2>5, <2>10
    <3>2. CASE Before
      <4>1. HasExecution(q)'
        BY Zenon, <1>8, <3>2, ProceedingLeaves
      <4> QED
        BY Zenon, <2>9, <3>2, <4>1
    <3>3. CASE Owes
      <4>1. Head(todo[q]).op = "contract" => Contracts(q)' # {}
        BY <1>8, ProceedingLeaves, SMTT(30)
      <4> QED
        BY <1>1, <2>1, <2>9, <3>3, <4>1, Zenon
    <3> QED
      BY Zenon, <3>1, <3>2, <3>3
  <2> QED
    BY <1>1, <1>2, <2>1, <2>6, <2>7, <2>8, <2>10, Zenon
<1>9. CASE Starts(q)
  BY Zenon, <1>1, <1>2, <1>3, <1>9 DEF Starts
<1>10. CASE Resumed(q)
  <2>1. /\ q \in spawned' /\ q \in spawned /\ Resumes(todo'[q])
    BY Zenon, <1>2, <1>10 DEF Resumed
  <2>2. "spawn" \notin Ops(todo'[q]) /\ "wait" \notin Ops(todo'[q])
    BY Zenon, <2>1 DEF Resumes, Quiet
  <2> QED
    BY <1>1, <1>2, <1>3, <2>1, <2>2, Zenon DEF Resumes
<1> QED
  BY <1>5, <1>6, <1>7, <1>8, <1>9, <1>10, EachRequest, Zenon

\* Every script remediation_execute starts has its pending row in audit.jsonl, and one whose
\* request is answered normally has its execution row and a contract audit row: for all requests,
\* interleavings, failed appends, timeouts and crashes.
THEOREM ScriptsLeaveTraces == Spec => []LiveIsAccounted
<1>1. Init => ScriptsAreTraced
  <2> SUFFICES ASSUME Init PROVE ScriptsAreTraced
    BY Zenon
  <2>1. Ops(<<>>) = {} /\ <<>> # <<SpawnStep>> /\ <<>> # <<WaitStep>>
    BY DEF Ops
  <2>2. \A r \in Requests : todo[r] = <<>> /\ r \notin spawned
    BY Zenon DEF Init
  <2> QED
    BY <2>1, <2>2, Zenon DEF ScriptsAreTraced
<1>2. Base /\ ScriptsAreTraced /\ [Next]_vars => ScriptsAreTraced'
  <2> SUFFICES ASSUME Base, ScriptsAreTraced, [Next]_vars
               PROVE  ScriptsAreTraced'
    BY Zenon
  <2> QED
    BY TracedStep, Zenon DEF ScriptsAreTraced
<1>3. Base /\ ScriptsAreTraced => LiveIsAccounted
  <2> SUFFICES ASSUME Base, ScriptsAreTraced, NEW r \in spawned
               PROVE  /\ Plain(r, "pending") # {}
                      /\ answer[r] \notin {"none", "500", "lost"} =>
                           /\ Contracts(r) # {}
                           /\ \E x \in executions : x.id = r /\ x.result \in {"success", "failure"}
    BY Zenon DEF LiveIsAccounted
  <2>1. r \in Requests
    BY Zenon DEF Base, TypeOK
  <2>2. todo[r] # <<>> => answer[r] = "none"
    BY Zenon, <2>1 DEF Base, Untouched
  <2>3. Ops(<<>>) = {} /\ <<WaitStep>> # <<>>
    BY DEF Ops
  <2> QED
    BY Zenon, <2>1, <2>2, <2>3 DEF ScriptsAreTraced, HasExecution
<1> QED
  BY <1>1, <1>2, <1>3, BaseAlways, PTL DEF Spec
-----------------------------------------------------------------------------
(* Answers are audited.                                                     *)

\* An answer that tells no decision
Excused(b, what) == \/ what \in {"500", "lost", "403", "404"}
                    \/ b.route = "preview" /\ what = "400"

\* Where an audited request stands between its arrival and its answer: it has been refused or
\* has failed, its contract audit row is still to come, or it ends in an error, or the row is
\* written and is the only one, and the answer is the decision of the row.
Accounted(r) ==
  \/ body[r].route \in Unaudited
  \/ todo[r] = <<>> /\ (answer[r] = "none" \/ Excused(body[r], answer[r]))
  \/ /\ Contracts(r) = {}
     /\ "spawn" \in Ops(todo[r]) \/ "wait" \in Ops(todo[r]) \/ Promises(todo[r])
  \/ Errs(todo[r])
  \/ \E i \in DOMAIN audit : /\ Contracts(r) = {i} /\ Keeps(todo[r], audit[i].what)
                             /\ answer[r] # "none" => Stands(answer[r]) = audit[i].what

\* A request that has not arrived, or still has its script ahead, has no contract audit row.
Reckoned(r) ==
  /\ body[r] = NoBody => Contracts(r) = {}
  /\ "spawn" \in Ops(todo[r]) \/ "wait" \in Ops(todo[r]) => Contracts(r) = {}
  /\ Contracts(r) # {} \/ AuditFirst(todo[r])
  /\ body[r] # NoBody => Accounted(r)

\* A stored diagnosis has its contract audit row.
DiagnosesNameRows == \A s \in stored : s.kind = "diagnosis" => Contracts(s.id) # {}

\* The inductive invariant.
AuditPlan == (\A r \in Requests : Reckoned(r)) /\ DiagnosesNameRows

\* Contract rows stay,
LEMMA ContractsStay ==
  ASSUME TypeOK, [Next]_vars, NEW q
  PROVE  Contracts(q) \subseteq Contracts(q)'
  BY Zenon, FilesGrow DEF Grows, Contracts

\* an append of one adds just it,
LEMMA ContractAdded ==
  ASSUME TypeOK, NEW q \in Requests, AppendContract(q)
  PROVE  \E n \in DOMAIN audit' : /\ Contracts(q)' = Contracts(q) \cup {n}
                                  /\ audit'[n].what = Head(todo[q]).what
<1>1. PICK row \in AuditRows : /\ audit' = audit \o <<row>> /\ row.id = q /\ row.what = What(q)
                               /\ row.kind = "contract"
  BY AuditRow, Zenon
<1>2. /\ Len(audit) \in Nat /\ DOMAIN audit = 1..Len(audit) /\ DOMAIN audit' = 1..(Len(audit) + 1)
      /\ \A i \in DOMAIN audit : audit'[i] = audit[i]
      /\ audit'[Len(audit) + 1] = row
  BY Zenon, <1>1, RowsAppended
<1>3. \A i : i \in DOMAIN audit' <=> i \in DOMAIN audit \/ i = Len(audit) + 1
  BY <1>2
<1>4. Contracts(q)' = Contracts(q) \cup {Len(audit) + 1}
  BY Zenon, <1>1, <1>2, <1>3 DEF Contracts
<1>5. Len(audit) + 1 \in DOMAIN audit'
  BY Zenon, <1>3
<1> QED
  BY Zenon, <1>1, <1>2, <1>4, <1>5 DEF What

\* and nothing else adds one:
LEMMA ContractsKept ==
  ASSUME TypeOK, [Next]_vars, NEW q \in Requests, ~AppendContract(q)
  PROVE  Contracts(q)' = Contracts(q)
<1>1. CASE \A r \in Requests : ~AppendAudit(r) /\ ~AppendContract(r)
  BY Zenon, <1>1, AuditKept DEF Contracts
<1>2. ASSUME NEW r \in Requests, AppendAudit(r) \/ AppendContract(r)
      PROVE  Contracts(q)' = Contracts(q)
  <2>1. PICK row \in AuditRows :
          /\ audit' = audit \o <<row>> /\ row.id = r
          /\ AppendAudit(r) => row = [kind |-> "plain", id |-> r, what |-> What(r), previous |-> NoLink]
    BY <1>2, AuditRow, Zenon
  <2>2. row.kind = "plain" \/ row.id # q
    <3>1. CASE AppendAudit(r)
      BY <2>1, <3>1
    <3>2. CASE ~AppendAudit(r)
      BY Zenon, <1>2, <2>1, <3>2
    <3> QED
      BY Zenon, <3>1, <3>2
  <2>3. /\ Len(audit) \in Nat /\ DOMAIN audit = 1..Len(audit) /\ DOMAIN audit' = 1..(Len(audit) + 1)
        /\ \A i \in DOMAIN audit : audit'[i] = audit[i]
        /\ audit'[Len(audit) + 1] = row
    BY Zenon, <2>1, RowsAppended
  <2>4. \A i : i \in DOMAIN audit' <=> i \in DOMAIN audit \/ i = Len(audit) + 1
    BY <2>3
  <2> QED
    BY Zenon, <2>2, <2>3, <2>4 DEF Contracts
<1> QED
  BY Zenon, <1>1, <1>2

\* every other append is of another step.
LEMMA OnlyContractsAdd ==
  ASSUME NEW q \in Requests, Appends(q), ~AppendContract(q)
  PROVE  Head(todo[q]).op # "contract"
  BY ZenonT(40) DEF Appends, AppendFailureEvent, AppendPreview, AppendExecution, AppendStored,
               AppendIncident, AppendAudit, ReadTail, At
\* Where a list of steps leads: a list whose only step was performed leaves nothing, an answer
\* alone is given.
LEMMA GoesEnd ==
  ASSUME NEW q, NEW s \in Seq(Steps), Goes(q, s)
  PROVE  /\ Promises(s) => todo'[q] = s /\ answer'[q] = answer[q]
         /\ \A d : Keeps(s, d) /\ answer[q] = "none" =>
                     Keeps(todo'[q], d) /\ (answer'[q] # "none" => Stands(answer'[q]) = d)
         /\ Errs(s) => Errs(todo'[q]) \/ (todo'[q] = <<>> /\ answer'[q] = "500")
         /\ AuditFirst(s) => AuditFirst(todo'[q])
<1>1. CASE todo'[q] = s /\ answer'[q] = answer[q]
  <2>1. \A d : Keeps(s, d) /\ answer[q] = "none" =>
                Keeps(todo'[q], d) /\ (answer'[q] # "none" => Stands(answer'[q]) = d)
    BY Zenon, <1>1 DEF Keeps
  <2>2. Errs(s) => Errs(todo'[q])
    BY Zenon, <1>1 DEF Errs
  <2>3. AuditFirst(s) => AuditFirst(todo'[q])
    BY Zenon, <1>1 DEF AuditFirst
  <2> QED
    BY <1>1, <2>1, <2>2, <2>3, ZenonT(40)
<1>2. CASE todo'[q] = <<>> /\ Len(s) = 1 /\ answer'[q] = s[1].what
  <2>1. ~Promises(s)
    BY <1>2 DEF Promises
  <2>2. s # <<>> /\ s[Len(s)] = s[1]
    BY <1>2
  <2>3. AuditFirst(<<>>) /\ \A d : Keeps(<<>>, d)
    BY DEF AuditFirst, Keeps
  <2>4. \A d : Keeps(s, d) => Stands(answer'[q]) = d
    BY Zenon, <1>2, <2>2 DEF Keeps
  <2>5. Errs(s) => answer'[q] = "500"
    BY Zenon, <1>2, <2>2 DEF Errs
  <2> QED
    BY <1>2, <2>1, <2>3, <2>4, <2>5, Zenon
<1> QED
  BY Zenon, <1>1, <1>2 DEF Goes

\* Neither plan around a script begins with a contract row.
LEMMA ScriptHeads == Head(<<SpawnStep>>).op = "spawn" /\ Head(<<WaitStep>>).op = "wait"
<1>1. Head(<<SpawnStep>>) = SpawnStep /\ Head(<<WaitStep>>) = WaitStep
  BY HeadOfOne, Zenon
<1>2. SpawnStep.op = "spawn" /\ WaitStep.op = "wait"
  BY Zenon DEF SpawnStep, WaitStep
<1> QED
  BY <1>1, <1>2, Zenon

\* A handler that performs a step keeps its account.
LEMMA ProceedingReckons ==
  ASSUME Base, [Next]_vars, NEW q \in Requests, Reckoned(q), Appends(q)
  PROVE  Reckoned(q)'
<1> DEFINE t == Tail(todo[q])
<1>1. TypeOK /\ Proceeds(q)
  BY Zenon, AppendsProceed DEF Base
<1>2. /\ todo[q] \in Seq(Steps) /\ todo[q] # <<>> /\ Head(todo[q]).op \notin {"spawn", "wait"}
      /\ Goes(q, t) /\ body'[q] = body[q] /\ answer[q] = "none" /\ body[q] # NoBody
  BY Zenon, <1>1 DEF Base, TypeOK, Untouched, Proceeds
<1>3. t \in Seq(Steps) /\ Ops(todo[q]) = {Head(todo[q]).op} \cup Ops(t)
  BY Zenon, <1>2, RemainingSteps
<1>4. AppendContract(q) => Head(todo[q]).op = "contract"
  BY Zenon DEF AppendContract, At
<1>5. ~AppendContract(q) => Contracts(q)' = Contracts(q) /\ Head(todo[q]).op # "contract"
  BY Zenon, <1>1, ContractsKept, OnlyContractsAdd
<1>6. Contracts(q) # {} => Contracts(q)' # {}
  BY Zenon, <1>1, ContractsStay
<1>7. AppendContract(q) => Contracts(q)' # {}
  BY Zenon, <1>1, ContractAdded
<1>8. "spawn" \in Ops(todo'[q]) \/ "wait" \in Ops(todo'[q]) =>
        todo[q] = ExecuteLive /\ todo'[q] = t
  <2>1. todo'[q] = t \/ todo'[q] = <<>>
    BY Zenon, <1>2 DEF Goes
  <2>2. Ops(<<>>) = {}
    BY DEF Ops
  <2>3. "spawn" \in Ops(todo[q]) => todo[q] = ExecuteLive \/ todo[q] = <<SpawnStep>>
    BY Zenon DEF Base, Shapes
  <2>4. "wait" \in Ops(todo[q]) => todo[q] = <<WaitStep>>
    BY Zenon DEF Base, Shapes
  <2>5. Head(<<SpawnStep>>).op = "spawn" /\ Head(<<WaitStep>>).op = "wait"
    BY Zenon, ScriptHeads
  <2> HIDE DEF t
  <2> QED
    BY <1>2, <1>3, <2>1, <2>2, <2>3, <2>4, <2>5, Zenon
<1>9. Head(ExecuteLive).op # "contract" /\ "spawn" \in Ops(ExecuteLive)
  BY LiveSteps, ExecuteLists
<1>10. "spawn" \in Ops(todo'[q]) \/ "wait" \in Ops(todo'[q]) => Contracts(q)' = {}
  BY <1>4, <1>5, <1>8, <1>9, Zenon DEF Reckoned
<1>11. Contracts(q)' # {} \/ AuditFirst(todo'[q])
  <2>1. CASE Contracts(q) # {} \/ AppendContract(q)
    BY Zenon, <1>6, <1>7, <2>1
  <2>2. CASE AuditFirst(todo[q]) /\ ~AppendContract(q)
    <3>1. AuditFirst(t)
      BY Zenon, <1>2, <1>5, <2>2, AuditFirstTail
    <3> QED
      BY <1>2, <1>3, <3>1, GoesEnd, Zenon
  <2> QED
    BY Zenon, <2>1, <2>2 DEF Reckoned
<1>12. Accounted(q)'
  <2>1. CASE body[q].route \in Unaudited
    BY Zenon, <1>2, <2>1 DEF Accounted
  <2>2. CASE "spawn" \in Ops(todo[q]) \/ "wait" \in Ops(todo[q])
    <3>1. todo[q] = ExecuteLive
      <4>1. "spawn" \in Ops(todo[q]) => todo[q] = ExecuteLive \/ todo[q] = <<SpawnStep>>
        BY Zenon DEF Base, Shapes
      <4>2. "wait" \in Ops(todo[q]) => todo[q] = <<WaitStep>>
        BY Zenon DEF Base, Shapes
      <4>3. Head(<<SpawnStep>>).op = "spawn" /\ Head(<<WaitStep>>).op = "wait"
        BY Zenon, ScriptHeads
      <4> QED
        BY <1>2, <2>2, <4>1, <4>2, <4>3, Zenon
    <3>2. t = <<SpawnStep>> /\ Ops(t) = {"spawn"}
      BY Zenon, <3>1, LiveSteps, ScriptSteps
    <3>3. todo'[q] = t
      BY Zenon, <1>2, <3>2 DEF Goes
    <3>4. Contracts(q)' = {}
      BY Zenon, <1>10, <3>2, <3>3
    <3> QED
      BY <3>2, <3>3, <3>4, Zenon DEF Accounted
  <2>3. CASE Contracts(q) = {} /\ Promises(todo[q])
    <3>1. CASE AppendContract(q)
      <4>1. PICK n \in DOMAIN audit' : /\ Contracts(q)' = Contracts(q) \cup {n}
                                       /\ audit'[n].what = Head(todo[q]).what
        BY Zenon, <1>1, <3>1, ContractAdded
      <4>2. Contracts(q)' = {n}
        BY Zenon, <2>3, <4>1
      <4>3. Keeps(t, audit'[n].what)
        BY Zenon, <1>2, <1>4, <2>3, <3>1, <4>1, PromisesTail
      <4>4. Keeps(todo'[q], audit'[n].what) /\ (answer'[q] # "none" => Stands(answer'[q]) = audit'[n].what)
        BY <1>2, <1>3, <4>3, GoesEnd, Zenon
      <4> QED
        BY <4>1, <4>2, <4>4, Zenon DEF Accounted
    <3>2. CASE ~AppendContract(q)
      <4>1. Promises(t)
        BY Zenon, <1>2, <1>5, <2>3, <3>2, PromisesTail
      <4>2. todo'[q] = t /\ Contracts(q)' = {}
        BY <1>2, <1>3, <1>5, <2>3, <3>2, <4>1, GoesEnd, Zenon
      <4> QED
        BY <4>1, <4>2, Zenon DEF Accounted
    <3> QED
      BY Zenon, <3>1, <3>2
  <2>4. CASE Errs(todo[q])
    <3>1. CASE Errs(t)
      <4>1. Errs(todo'[q]) \/ (todo'[q] = <<>> /\ answer'[q] = "500")
        BY <1>2, <1>3, <3>1, GoesEnd, ZenonT(40)
      <4> QED
        BY Zenon, <4>1 DEF Accounted, Excused
    <3>2. CASE t = <<>>
      <4>1. Len(<<>>) # 1
        OBVIOUS
      <4>2. todo'[q] = <<>> /\ answer'[q] = "none"
        BY Zenon, <1>2, <3>2, <4>1 DEF Goes
      <4> QED
        BY Zenon, <4>2 DEF Accounted
    <3> QED
      BY Zenon, <1>2, <2>4, <3>1, <3>2, ErrsTail
  <2>5. ASSUME NEW i \in DOMAIN audit, Contracts(q) = {i}, Keeps(todo[q], audit[i].what)
        PROVE  Accounted(q)'
    <3>1. Head(todo[q]).op # "contract" /\ Keeps(t, audit[i].what)
      BY Zenon, <1>2, <2>5, KeepsTail
    <3>2. Contracts(q)' = {i}
      BY Zenon, <1>4, <1>5, <2>5, <3>1
    <3>3. i \in DOMAIN audit' /\ audit'[i] = audit[i]
      BY Zenon, <1>1, FilesGrow DEF Grows
    <3>4. /\ Keeps(todo'[q], audit[i].what)
          /\ answer'[q] # "none" => Stands(answer'[q]) = audit[i].what
      BY <1>2, <1>3, <3>1, GoesEnd, Zenon
    <3> QED
      BY <3>2, <3>3, <3>4, Zenon DEF Accounted
  <2>6. Accounted(q)
    BY Zenon, <1>2 DEF Reckoned
  <2> QED
    BY <1>2, <2>1, <2>2, <2>3, <2>4, <2>5, <2>6, ZenonT(40) DEF Accounted
<1> QED
  BY <1>2, <1>10, <1>11, <1>12, Zenon DEF Reckoned

\* Only AppendStored stores a diagnosis.
LEMMA StoredKept ==
  ASSUME [Next]_vars, \A r \in Requests : ~AppendStored(r)
  PROVE  stored' = stored
<1>1. CASE UNCHANGED vars
  BY Zenon, <1>1 DEF vars
<1>2. ASSUME NEW r \in Requests, NEW b \in Bodies[r], Receive(r, b)
      PROVE  stored' = stored
  BY Zenon, <1>2 DEF Receive, files
<1>3. ASSUME NEW r \in Requests, Step(r) \/ ScriptEnds(r) \/ AppendRaises(r)
      PROVE  stored' = stored
  BY <1>3, Zenon DEF Step, AppendFailureEvent, AppendPreview, AppendExecution, AppendIncident,
              AppendAudit, AppendContract, ReadTail, Spawn, ScriptTimesOut, ScriptEnds, AppendRaises, files
<1>4. CASE Crash
  BY Zenon, <1>4 DEF Crash, files
<1> QED
  BY Zenon, <1>1, <1>2, <1>3, <1>4 DEF Next

\* A step of others, an arrival, a failure, and the start and the end of a script keep it too.
LEMMA OthersReckon ==
  ASSUME Base, [Next]_vars, NEW q \in Requests, Reckoned(q), ~Appends(q)
  PROVE  Reckoned(q)'
<1>1. TypeOK /\ todo[q] \in Seq(Steps)
  BY Zenon DEF Base, TypeOK
<1>2. Contracts(q)' = Contracts(q)
  BY Zenon, <1>1, ContractsKept DEF Appends
<1>3. \A i \in DOMAIN audit : i \in DOMAIN audit' /\ audit'[i] = audit[i]
  BY Zenon, <1>1, FilesGrow DEF Grows
<1>4. Ops(<<>>) = {} /\ AuditFirst(<<>>)
  BY DEF Ops, AuditFirst
<1>5. CASE Rests(q)
  <2>1. todo'[q] = todo[q] /\ answer'[q] = answer[q] /\ body'[q] = body[q]
    BY Zenon, <1>5 DEF Rests
  <2>2. Accounted(q) => Accounted(q)'
    <3>1. ASSUME NEW i \in DOMAIN audit, Contracts(q) = {i}, Keeps(todo[q], audit[i].what),
                 answer[q] # "none" => Stands(answer[q]) = audit[i].what
          PROVE  Accounted(q)'
      BY <1>2, <1>3, <2>1, <3>1, Zenon DEF Accounted
    <3>2. CASE ~\E i \in DOMAIN audit : /\ Contracts(q) = {i} /\ Keeps(todo[q], audit[i].what)
                                        /\ answer[q] # "none" => Stands(answer[q]) = audit[i].what
      BY <1>2, <2>1, <3>2, Zenon DEF Accounted
    <3> QED
      BY Zenon, <3>1, <3>2
  <2> QED
    BY <1>2, <2>1, <2>2, Zenon DEF Reckoned
<1>6. CASE Fails(q)
  <2>1. todo'[q] = <<>> /\ answer'[q] \in {"500", "lost"} /\ body'[q] = body[q] /\ body[q] # NoBody
    BY Zenon, <1>6 DEF Fails, Base, Untouched
  <2>2. Accounted(q)'
    BY Zenon, <2>1 DEF Accounted, Excused
  <2> QED
    BY <1>2, <1>4, <2>1, <2>2, Zenon DEF Reckoned
<1>7. CASE Arrives(q)
  <2>1. PICK b \in Bodies[q] : b = body'[q]
    BY Zenon, <1>7 DEF Arrives
  <2> DEFINE h == Handler(b)
  <2>2. /\ body[q] = NoBody /\ Goes(q, h) /\ Decided(b, h) /\ Planned(b, h)
    BY <1>7, <2>1, Zenon DEF Arrives
  <2>3. h \in Seq(Steps) /\ Contracts(q)' = {} /\ b # NoBody /\ answer[q] = "none"
    BY <1>2, <2>1, <2>2, ApiAssumption, Zenon DEF Decided, Reckoned, Base, Untouched
  <2> HIDE DEF h
  <2>4. AuditFirst(todo'[q])
    BY <2>2, <2>3, GoesEnd, Zenon DEF Planned
  <2>5. Accounted(q)'
    <3>1. CASE b.route \in Unaudited
      BY ZenonT(40), <2>1, <3>1 DEF Accounted
    <3>2. ASSUME NEW what \in {"403", "404", "400"}, h = Reply(what), what = "400" => b.route = "preview"
          PROVE  Accounted(q)'
      <4>1. Len(h) = 1 /\ h[1].what = what /\ h[1].op = "reply"
        BY Zenon, <3>2 DEF Reply
      <4>2. todo'[q] = <<>> /\ answer'[q] = what
        BY Zenon, <2>2, <4>1 DEF Goes, Replies
      <4> QED
        BY Zenon, <2>1, <3>2, <4>2 DEF Accounted, Excused
    <3>3. CASE h = ExecuteLive
      <4>1. "spawn" \in Ops(h)
        BY ZenonT(40), <3>3, ExecuteLists
      <4>2. Ops(h) # {"reply"}
        BY <4>1
      <4>3. todo'[q] = h
        BY <2>2, <4>2, Zenon DEF Goes
      <4> QED
        BY <2>3, <4>1, <4>3, ZenonT(40) DEF Accounted
    <3>4. CASE Promises(h)
      <4>1. todo'[q] = h
        BY <2>2, <2>3, <3>4, GoesEnd, ZenonT(40)
      <4> QED
        BY <2>3, <3>4, <4>1, Zenon DEF Accounted
    <3>5. CASE Errs(h)
      <4>1. Errs(todo'[q]) \/ (todo'[q] = <<>> /\ answer'[q] = "500")
        BY <2>2, <2>3, <3>5, GoesEnd, Zenon
      <4> QED
        BY Zenon, <4>1 DEF Accounted, Excused
    <3> QED
      BY <2>2, <3>1, <3>2, <3>3, <3>4, <3>5, ZenonT(40) DEF Planned
  <2> QED
    BY <2>1, <2>3, <2>4, <2>5, ZenonT(40) DEF Reckoned
<1>8. CASE Starts(q)
  <2>1. /\ todo[q] = <<SpawnStep>> /\ todo'[q] = <<WaitStep>> /\ body'[q] = body[q]
        /\ body[q] # NoBody
    <3>1. <<SpawnStep>> # <<>>
      BY Zenon
    <3> QED
      BY <1>8, <3>1, Zenon DEF Starts, Base, Untouched
  <2>2. Contracts(q)' = {} /\ "wait" \in Ops(todo'[q])
    BY <1>2, <2>1, ScriptSteps, Zenon DEF Reckoned
  <2>3. AuditFirst(todo'[q])
    BY Zenon, <2>1, ScriptSteps, EarlyIsFirst DEF Early
  <2>4. Accounted(q)'
    BY <2>2, Zenon DEF Accounted
  <2> QED
    BY <2>2, <2>3, <2>4, Zenon DEF Reckoned
<1>9. CASE Resumed(q)
  <2>1. todo[q] = <<WaitStep>> /\ Resumes(todo'[q]) /\ body'[q] = body[q] /\ body[q] # NoBody
    <3>1. <<WaitStep>> # <<>>
      BY Zenon
    <3> QED
      BY <1>9, <3>1, Zenon DEF Resumed, Base, Untouched
  <2>2. Contracts(q)' = {}
    BY <1>2, <2>1, ScriptSteps, Zenon DEF Reckoned
  <2>3. AuditFirst(todo'[q]) /\ Promises(todo'[q])
    BY Zenon, <2>1 DEF Resumes
  <2>4. Accounted(q)'
    BY <2>2, <2>3, Zenon DEF Accounted
  <2> QED
    BY <2>2, <2>3, <2>4, Zenon DEF Reckoned
<1>10. CASE Proceeds(q)
  BY Zenon, <1>10 DEF Proceeds
<1> QED
  BY <1>5, <1>6, <1>7, <1>8, <1>9, <1>10, EachRequest, ZenonT(40)

\* A diagnosis is stored behind its contract audit row.
LEMMA DiagnosesStep ==
  ASSUME Base, AuditPlan, [Next]_vars, NEW s \in stored', s.kind = "diagnosis"
  PROVE  Contracts(s.id)' # {}
<1>1. TypeOK
  BY Zenon DEF Base
<1>2. CASE s \in stored
  BY Zenon, <1>1, <1>2, ContractsStay DEF AuditPlan, DiagnosesNameRows
<1>3. CASE s \notin stored
  <2>1. PICK r \in Requests : AppendStored(r)
    BY Zenon, <1>3, StoredKept
  <2>2. PICK kind \in {"lkg", "diagnosis", "snapshot", "attribution", "reasoning"} :
          /\ At(r, kind)
          /\ stored' = stored \cup {[id |-> r, kind |-> kind, endpoint |-> body[r].endpoint]}
    BY Zenon, <2>1 DEF AppendStored
  <2>3. s.id = r /\ s.kind = kind
    BY <1>3, <2>2
  <2>4. todo[r] \in Seq(Steps) /\ todo[r] # <<>> /\ Head(todo[r]).op = "diagnosis"
    BY Zenon, <1>1, <2>2, <2>3 DEF At, TypeOK
  <2>5. ~AuditFirst(todo[r])
    BY Zenon, <2>4, AuditFirstTail
  <2>6. Contracts(r) # {}
    BY Zenon, <2>5 DEF AuditPlan, Reckoned
  <2>7. Contracts(r)' # {}
    BY Zenon, <1>1, <2>6, ContractsStay
  <2>8. Contracts(s.id)' = Contracts(r)'
    BY Zenon, <2>3 DEF Contracts
  <2> QED
    BY Zenon, <2>7, <2>8
<1> QED
  BY Zenon, <1>2, <1>3

\* A decision the API tells is on record: whatever the requests, their interleaving, the appends
\* that raise and the crashes of the server, an answer of an audited route other than a refusal
\* or an error has exactly one contract audit row, with that very decision, and a stored
\* diagnosis has its row.
THEOREM AnswersAreAudited == Spec => []DecisionIsAudited
<1>1. Init => AuditPlan
  <2> SUFFICES ASSUME Init PROVE AuditPlan
    BY Zenon
  <2>1. Ops(<<>>) = {} /\ AuditFirst(<<>>)
    BY DEF Ops, AuditFirst
  <2>2. stored = {} /\ \A r \in Requests : todo[r] = <<>> /\ body[r] = NoBody
    BY Zenon DEF Init
  <2>3. \A r \in Requests : Contracts(r) = {}
    <3>1. DOMAIN audit = {}
      BY DEF Init
    <3> QED
      BY Zenon, <3>1 DEF Contracts
  <2> QED
    BY <2>1, <2>2, <2>3, Zenon DEF AuditPlan, Reckoned, DiagnosesNameRows
<1>2. Base /\ AuditPlan /\ [Next]_vars => AuditPlan'
  <2> SUFFICES ASSUME Base, AuditPlan, [Next]_vars
               PROVE  AuditPlan'
    BY Zenon
  <2>1. ASSUME NEW q \in Requests
        PROVE  Reckoned(q)'
    BY ProceedingReckons, OthersReckon, Zenon DEF AuditPlan
  <2> QED
    BY <2>1, DiagnosesStep, Zenon DEF AuditPlan, DiagnosesNameRows
<1>3. Base /\ AuditPlan => DecisionIsAudited
  <2> SUFFICES ASSUME Base, AuditPlan PROVE DecisionIsAudited
    BY Zenon
  <2>1. ASSUME NEW r \in Requests, body[r] # NoBody,
               body[r].route \notin {"ingest", "snapshot", "attribution", "incident"},
               answer[r] \notin {"none", "500", "lost", "403", "404"},
               ~(body[r].route = "preview" /\ answer[r] = "400")
        PROVE  \E i \in DOMAIN audit : Contracts(r) = {i} /\ audit[i].what = Told(r)
    <3>1. todo[r] = <<>>
      BY Zenon, <2>1 DEF Base, Untouched
    <3>2. Ops(todo[r]) = {} /\ ~Promises(todo[r]) /\ ~Errs(todo[r])
      BY <3>1 DEF Ops, Promises, Errs
    <3>3. Accounted(r) /\ body[r].route \notin Unaudited /\ ~Excused(body[r], answer[r])
      BY <2>1, Zenon DEF AuditPlan, Reckoned, Unaudited, Excused
    <3>4. PICK i \in DOMAIN audit : Contracts(r) = {i} /\ Stands(answer[r]) = audit[i].what
      BY <2>1, <3>2, <3>3, Zenon DEF Accounted
    <3> QED
      BY Zenon, <3>4 DEF Told, Stands
  <2> QED
    BY <2>1, Zenon DEF DecisionIsAudited, AuditPlan, DiagnosesNameRows
<1> QED
  BY <1>1, <1>2, <1>3, BaseAlways, PTL DEF Spec
=============================================================================
