---------------------------- MODULE DriftGuardian ----------------------------
(***************************************************************************)
(* The dead-proxy tools of src/proxy_drift on one registry: the guardian    *)
(* that checks again and again (guardian.py), ensure-proxy-health, which    *)
(* runs once through auto_fix.py and ensure_health.py, and the operator's   *)
(* proxy-fix.  The first two look at the registry value by value, probe the *)
(* listener and the proxy path, and then may call apply_proxy_fix, which    *)
(* reads again and runs its commands one by one.  Other programs write the  *)
(* registry and start and stop listeners at any moment.                     *)
(***************************************************************************)
EXTENDS Integers, Sequences, FiniteSets

CONSTANTS Options,      \* the command lines, one for each tool
          Machines,     \* machines to start from: registry, listener, path
          MaxWrites,    \* bound on changes by other programs
          MaxFailures   \* bound on failed queries and failed commands

VARIABLES reg,        \* HKCU Internet Settings: ProxyEnable, ProxyServer, AutoConfigURL
          manual,     \* the manual-proxy bit of the Connections blob
          listening,  \* something listens on the localhost port
          works,      \* and the proxy path through it works
          opt,        \* the command lines
          stage,      \* what each tool is looking for
          step,       \* where it is in looking and fixing
          seen,       \* what it has seen
          outcome,    \* what ensure-proxy-health reports
          writes, failures,
          disturbed   \* the world changed, or a query or a command of the tool
                      \* failed, since the tool began to look (history)

machineVars == <<reg, manual, listening, works>>
toolVars == <<stage, step, seen, outcome>>
bounds == <<writes, failures>>
vars == <<machineVars, opt, toolVars, bounds, disturbed>>

-----------------------------------------------------------------------------
None == "none"
Values == [enable : {None, "0", "1"}, server : {None, "corp", "local"},
           pac : {None, "pac"}]

Tools == {"guardian", "ensure", "fix"}
CommandLine == [run : BOOLEAN, dry : BOOLEAN, once : BOOLEAN, confirm : BOOLEAN,
                clearBroken : BOOLEAN, confirmBroken : BOOLEAN, hold : BOOLEAN,
                prefer : BOOLEAN, clearPac : BOOLEAN,
                phrase : {"", "DISABLE_WININET_PROXY", "CLEAR_PAC_TOO"}]

ASSUME DriftAssumption ==
    /\ Options \subseteq [Tools -> CommandLine]
    /\ Machines \subseteq [reg : Values, manual : BOOLEAN, listening : BOOLEAN,
                           works : BOOLEAN]
    /\ {MaxWrites, MaxFailures} \subseteq Nat

\* The phrases run_auto_fix_proxy and run_ensure_proxy_health fill in by themselves.
ASSUME EnsureAssumption ==
    \A o \in Options : o["ensure"].run /\ ~ o["ensure"].dry =>
       /\ o["ensure"].confirm
       /\ o["ensure"].phrase = "DISABLE_WININET_PROXY" /\ ~ o["ensure"].clearPac

\* A tool that has seen nothing yet.
Blank == [enable |-> None, server |-> None, pac |-> None, listen |-> FALSE,
          path |-> "unknown"]

\* Mutant of NextStage: the last look is left out.
NextStage_NoFinal == [guardian |-> "fallback", fallback |-> "prefer", prefer |-> "again",
                      again |-> "done", final |-> "done", fix |-> "done"]

\* run_dead_proxy_guardian_loop checks for ever.  run_ensure_proxy_health calls
\* run_auto_fix_proxy (guardian, fallback, prefer), looks for a localhost proxy once
\* more (again) and reports (final).
NextStage == [guardian |-> "fallback", fallback |-> "prefer", prefer |-> "again",
              again |-> "final", final |-> "done", fix |-> "done"]

LookSteps == {"enable", "server", "pac", "listen", "path"}
FixSteps == {"fixread", "disable", "delete", "blob"}
Following == [enable |-> "server", server |-> "pac", pac |-> "listen", listen |-> "path",
          path |-> "judge", disable |-> "delete", delete |-> "blob"]

Init == /\ \E m \in Machines : /\ reg = m.reg /\ manual = m.manual
                               /\ listening = m.listening /\ works = m.works
        /\ opt \in Options
        /\ stage = [t \in Tools |-> IF ~ opt[t].run THEN "done"
                                   ELSE IF t = "fix" THEN "fix" ELSE "guardian"]
        /\ step = [t \in Tools |-> IF ~ opt[t].run THEN "done"
                                  ELSE IF t = "fix" THEN "fixread" ELSE "enable"]
        /\ seen = [t \in Tools |-> Blank]
        /\ outcome = "none"
        /\ writes = 0 /\ failures = 0
        /\ disturbed = [t \in Tools |-> FALSE]

-----------------------------------------------------------------------------
\* Another program writes a value or the blob, or a listener starts, stops or
\* breaks.
OthersAct == /\ writes < MaxWrites
             /\ \/ /\ \E v \in Values :
                         /\ Cardinality({f \in DOMAIN v : v[f] # reg[f]}) = 1
                         /\ reg' = v
                   /\ UNCHANGED <<manual, listening, works>>
                \/ manual' = ~ manual /\ UNCHANGED <<reg, listening, works>>
                \/ listening' = ~ listening /\ UNCHANGED <<reg, manual, works>>
                \/ works' = ~ works /\ UNCHANGED <<reg, manual, listening>>
             /\ writes' = writes + 1
             /\ disturbed' = [t \in Tools |-> TRUE]
             /\ UNCHANGED <<opt, toolVars, failures>>

Goto(t, s) == step' = [step EXCEPT ![t] = s]
Note(t, f, v) == seen' = [seen EXCEPT ![t][f] = v]
Fails(t) == /\ failures < MaxFailures
            /\ failures' = failures + 1
            /\ disturbed' = [disturbed EXCEPT ![t] = TRUE]

\* One reg query of read_proxy_registry; one that fails reads as None.
ReadValue(t) == /\ step[t] \in {"enable", "server", "pac"}
                /\ \/ Note(t, step[t], reg[step[t]]) /\ UNCHANGED <<failures, disturbed>>
                   \/ Note(t, step[t], None) /\ Fails(t)
                /\ Goto(t, Following[step[t]])
                /\ UNCHANGED <<machineVars, opt, stage, outcome, writes>>

\* _port_listening, when the server names a localhost port.
ProbeListener(t) == /\ step[t] = "listen"
                    /\ Note(t, "listen", seen[t].server = "local" /\ listening)
                    /\ Goto(t, Following["listen"])
                    /\ UNCHANGED <<machineVars, opt, stage, outcome, bounds, disturbed>>

enabled(t) == seen[t].enable = "1"
localhost(t) == seen[t].server = "local"

\* The guardian's check probes the path only for --clear-broken and an enabled
\* proxy; read_proxy_drift_status whenever there is a listener.
Probes(t) == seen[t].listen /\ (stage[t] = "guardian" => opt[t].clearBroken /\ enabled(t))

\* assess_localhost_proxy_path: proxied and direct HTTPS, or no probe available.
ProbePath(t) ==
    /\ step[t] = "path"
    /\ \E p \in IF ~ Probes(t) THEN {"unknown"}
                ELSE IF listening /\ works THEN {"ok", "unknown"}
                ELSE {"only direct", "neither", "unknown"} : Note(t, "path", p)
    /\ Goto(t, Following["path"])
    /\ UNCHANGED <<machineVars, opt, stage, outcome, bounds, disturbed>>

-----------------------------------------------------------------------------
\* Mutant of dead: the listener is taken the wrong way round.
dead_Inverted(t) == enabled(t) /\ localhost(t) /\ seen[t].listen

\* run_dead_proxy_guardian_once: dead before hold-direct before broken, each with
\* its phrase.
dead(t) == enabled(t) /\ localhost(t) /\ ~ seen[t].listen
hold_hit(t) == opt[t].hold /\ enabled(t) /\ localhost(t) /\ ~ dead(t)
broken(t) == /\ opt[t].clearBroken /\ enabled(t) /\ localhost(t) /\ seen[t].listen
             /\ seen[t].path \in {"only direct", "neither"}
\* Mutant of guardian_clears: a listener that answers is not looked at.
guardian_clears_AnyLocalhost(t) ==
    ~ opt[t].dry /\ enabled(t) /\ localhost(t) /\ opt[t].confirm

\* Mutant of guardian_clears: a dead proxy needs the other phrase too.
guardian_clears_BothPhrases(t) ==
    /\ ~ opt[t].dry
    /\ dead(t) \/ hold_hit(t) \/ broken(t)
    /\ opt[t].confirm /\ opt[t].confirmBroken

guardian_clears(t) == /\ ~ opt[t].dry
                      /\ \/ dead(t) /\ opt[t].confirm
                         \/ (hold_hit(t) \/ broken(t)) /\ opt[t].confirmBroken

\* classify_proxy_drift, the two labels auto_fix.py acts on.
is_dead_localhost_proxy(t) == seen[t].pac = None /\ dead(t)
is_broken_localhost_proxy(t) == /\ seen[t].pac = None /\ enabled(t) /\ localhost(t)
                                /\ seen[t].listen /\ seen[t].path = "only direct"

\* _prefer_direct_clear and the same decision in run_ensure_proxy_health.
should_prefer_clear(t) == /\ enabled(t) /\ localhost(t)
                          /\ opt[t].prefer \/ is_broken_localhost_proxy(t)
prefer_clears(t) == should_prefer_clear(t) /\ ~ opt[t].dry /\ opt[t].confirmBroken

Clears(t) == \/ stage[t] = "guardian" /\ guardian_clears(t)
             \/ stage[t] = "fallback" /\ is_dead_localhost_proxy(t) /\ ~ opt[t].dry
             \/ stage[t] \in {"prefer", "again"} /\ prefer_clears(t)

\* The outcome of run_ensure_proxy_health from its last look, and from whether the
\* second prefer-direct step was blocked.
Verdict(t) ==
    IF is_dead_localhost_proxy(t) THEN (IF opt[t].dry THEN "would_remediate" ELSE "still_dead")
    ELSE IF outcome = "blocked" /\ (is_broken_localhost_proxy(t) \/ opt[t].prefer)
         THEN "needs_prefer_direct_confirm"
    ELSE IF is_broken_localhost_proxy(t)
         THEN (IF opt[t].dry THEN "would_remediate" ELSE "localhost_proxy_broken")
    ELSE IF enabled(t) /\ localhost(t) THEN "localhost_proxy_active"
    ELSE "healthy"

\* Nothing to clear, a preview, or a phrase that is missing.
LeaveAlone(t) ==
    /\ step[t] = "judge"
    /\ ~ Clears(t)
    /\ outcome' = IF stage[t] = "final" THEN Verdict(t)
                  ELSE IF stage[t] = "again" /\ should_prefer_clear(t) /\ ~ opt[t].dry
                       THEN "blocked" ELSE outcome
    /\ Goto(t, "report")
    /\ seen' = [seen EXCEPT ![t] = Blank]
    /\ UNCHANGED <<machineVars, opt, stage, bounds, disturbed>>

\* apply_proxy_fix is called.
CallFix(t) == /\ step[t] = "judge"
              /\ Clears(t)
              /\ Goto(t, "fixread")
              /\ seen' = [seen EXCEPT ![t] = [Blank EXCEPT !.server = seen[t].server]]
              /\ UNCHANGED <<machineVars, opt, stage, outcome, bounds, disturbed>>

\* What apply_proxy_fix asks for.  It passes the phrase on to
\* validate_action_confirmation, which knows one phrase for disable_wininet_proxy;
\* with clear_pac no phrase satisfies both, and no command for AutoConfigURL is
\* ever run.
required_confirm(t) == IF opt[t].clearPac THEN "CLEAR_PAC_TOO" ELSE "DISABLE_WININET_PROXY"
validate_action_confirmation(t) == opt[t].phrase = "DISABLE_WININET_PROXY"
fix_allowed(t) == /\ ~ opt[t].dry
                  /\ opt[t].phrase = required_confirm(t)
                  /\ validate_action_confirmation(t)

\* apply_proxy_fix reads the registry again and builds its mutations from that, or
\* refuses.
FixReads(t) == /\ step[t] = "fixread"
               /\ \/ Note(t, "server", reg.server) /\ UNCHANGED <<failures, disturbed>>
                  \/ Note(t, "server", None) /\ Fails(t)
               /\ Goto(t, IF fix_allowed(t) THEN "disable" ELSE "report")
               /\ UNCHANGED <<machineVars, opt, stage, outcome, writes>>

\* One command of apply_mutations: it works, or it fails or times out with or
\* without having done its work; the next one is run in any case.
Runs(t, f, v) == /\ \/ reg' = [reg EXCEPT ![f] = v] /\ UNCHANGED <<failures, disturbed>>
                    \/ reg' \in {reg, [reg EXCEPT ![f] = v]} /\ Fails(t)
                 /\ Goto(t, Following[step[t]])
                 /\ UNCHANGED <<manual, listening, works, opt, stage, seen, outcome, writes>>

SetEnable(t) == step[t] = "disable" /\ Runs(t, "enable", "0")

\* ProxyServer is deleted only if it was a localhost one.
DeleteServer(t) == /\ step[t] = "delete"
                   /\ IF localhost(t) THEN Runs(t, "server", None)
                      ELSE /\ Goto(t, Following["delete"])
                           /\ UNCHANGED <<machineVars, opt, stage, seen, outcome, bounds,
                                          disturbed>>

\* Mutant of ClearBlob: the Connections blob is left as it is.
ClearBlob_Skipped(t) == /\ step[t] = "blob"
                        /\ Goto(t, "report")
                        /\ UNCHANGED <<machineVars, opt, stage, seen, outcome, bounds, disturbed>>

\* clear_wininet_connection_proxy_blob, whose errors are only reported.
ClearBlob(t) == /\ step[t] = "blob"
                /\ \/ manual' = FALSE /\ UNCHANGED <<failures, disturbed>>
                   \/ Fails(t) /\ UNCHANGED manual
                /\ Goto(t, "report")
                /\ UNCHANGED <<reg, listening, works, opt, stage, seen, outcome, writes>>

\* The tool reports and goes on to what it looks for next, or is done.
Report(t) ==
    LET next == IF t = "guardian" THEN (IF opt[t].once THEN "done" ELSE "guardian")
                ELSE NextStage[stage[t]]
    IN  /\ step[t] = "report"
        /\ stage' = [stage EXCEPT ![t] = next]
        /\ Goto(t, IF next = "done" THEN "done" ELSE "enable")
        /\ seen' = [seen EXCEPT ![t] = Blank]
        /\ disturbed' = IF next = "done" THEN disturbed
                        ELSE [disturbed EXCEPT ![t] = FALSE]
        /\ UNCHANGED <<machineVars, opt, outcome, bounds>>

\* _audit writes the row of a guardian check, and an error of the log file is not
\* caught: the tool dies.
ReportRaises(t) == /\ step[t] = "report"
                   /\ stage[t] = "guardian"
                   /\ Fails(t)
                   /\ Goto(t, "crashed")
                   /\ UNCHANGED <<machineVars, opt, stage, seen, outcome, writes>>

ToolStep(t) == \/ ReadValue(t) \/ ProbeListener(t) \/ ProbePath(t) \/ LeaveAlone(t)
               \/ CallFix(t) \/ FixReads(t) \/ SetEnable(t) \/ DeleteServer(t) \/ ClearBlob(t)
               \/ Report(t) \/ ReportRaises(t)

Next == OthersAct \/ \E t \in Tools : ToolStep(t)

Spec == Init /\ [][Next]_vars

\* Each tool runs as long as its process does.
FairSpec == Spec /\ \A t \in Tools : WF_vars(ToolStep(t))
-----------------------------------------------------------------------------
\* Every variable keeps its type.
TypeOK == /\ reg \in Values
          /\ {manual, listening, works} \subseteq BOOLEAN
          /\ opt \in Options
          /\ stage \in [Tools -> {"guardian", "fallback", "prefer", "again", "final",
                              "fix", "done"}]
          /\ step \in [Tools -> LookSteps \cup {"judge"} \cup FixSteps
                                \cup {"report", "crashed", "done"}]
          /\ seen \in [Tools -> [enable : {None, "0", "1"}, server : {None, "corp", "local"},
                                 pac : {None, "pac"}, listen : BOOLEAN,
                                 path : {"ok", "only direct", "neither", "unknown"}]]
          /\ outcome \in {"none", "blocked", "would_remediate", "still_dead",
                          "needs_prefer_direct_confirm", "localhost_proxy_broken",
                          "localhost_proxy_active", "healthy"}
          /\ writes \in 0 .. MaxWrites
          /\ failures \in 0 .. MaxFailures
          /\ disturbed \in [Tools -> BOOLEAN]
          /\ opt["ensure"].run /\ step["ensure"] = "done" => outcome \notin {"none", "blocked"}

\* The localhost proxy is enabled and nobody serves it.
DeadProxy == reg.enable = "1" /\ reg.server = "local" /\ ~ listening

\* The tool was told, with its phrase, to prefer direct access to a healthy proxy,
\* or to clear one whose path fails.
ToldToClear(t) == /\ opt[t].confirmBroken
                  /\ \/ opt[t].hold \/ opt[t].prefer
                     \/ ~ works /\ (t = "guardian" => opt[t].clearBroken)

(***************************************************************************)
(* The tools clear dead localhost proxies, "not corporate proxies" and not  *)
(* healthy tunnels "unless prefer_direct".  For a tool whose world held     *)
(* still since it began to look: a corporate proxy is disabled only by the  *)
(* operator's proxy-fix, and nobody deletes its server; guardian and ensure *)
(* change the registry only where nobody serves the localhost proxy or they *)
(* were told to clear it.  Another tool may be at work on the same values.  *)
(***************************************************************************)
ClearsOnlyDead ==
    [][\A t \in Tools :
         (step[t] \in FixSteps /\ step'[t] # step[t] /\ reg' # reg /\ ~ disturbed'[t])
           => /\ ~ opt[t].dry
              /\ reg.server = "corp" => t = "fix" /\ reg'.server = "corp"
              /\ t # "fix" => ~ listening \/ ToldToClear(t)]_vars

(***************************************************************************)
(* When apply_proxy_fix has run in a world that held still, no client finds *)
(* a localhost proxy any more: not in ProxyEnable, not in ProxyServer and   *)
(* not in the Connections blob.                                             *)
(***************************************************************************)
FixIsComplete ==
    [][\A t \in Tools : (step[t] = "blob" /\ step'[t] # "blob" /\ ~ disturbed'[t])
          => reg.enable = "0" /\ reg.server # "local" /\ ~ manual']_vars

(***************************************************************************)
(* A live ensure-proxy-health that nothing hindered leaves no dead proxy    *)
(* behind, whatever the guardian does at the same time, and says healthy    *)
(* only if no localhost proxy is enabled.                                   *)
(***************************************************************************)
EnsureIsHonest ==
    (opt["ensure"].run /\ step["ensure"] = "done" /\ writes = 0 /\ failures = 0) =>
         /\ ~ opt["ensure"].dry => ~ DeadProxy
         /\ outcome = "healthy" => ~ (reg.enable = "1" /\ reg.server = "local")

\* Once other programs hold still, a dead proxy does not stay: a live guardian with
\* its phrase clears it, unless the guardian died.
DeadProxyIsCleared == <>[](step["guardian"] \in {"crashed", "done"} \/ ~ DeadProxy)
==============================================================================
