----------------------------- MODULE ProxyGuard -----------------------------
(***************************************************************************)
(* The Proxy Guard control loop, run_proxy_guard_guard_loop of              *)
(* src/proxy_guard/guard.py, against a registry that other programs write   *)
(* at any moment.  The loop polls the HKCU Internet Settings value by value,*)
(* judges a difference from the previous poll, and may restore the values   *)
(* of the previous poll, one reg.exe command at a time, under the rate      *)
(* limits of RollbackLimiter.                                               *)
(***************************************************************************)
EXTENDS RollbackLimiter

CONSTANTS Configs,           \* service configurations to start from
          Values,            \* what each registry value may be, None included
          Registries,        \* registries to start from
          KnownGood,         \* the snapshot named with --known-good
          MaxAttempts,       \* probe.max_attempts
          MaxWrites,         \* bound on writes by other programs
          MaxProbeFailures,  \* bound on failed reg queries
          MaxCmdFailures     \* bound on failed restore commands

VARIABLES reg,       \* the registry values
          cfg,       \* the service configuration
          pc,        \* where the loop is
          k,         \* number of values read, or of commands run
          attempt,   \* probe attempt
          snap,      \* values read so far
          prior,     \* the snapshot of the previous poll
          target,    \* what a rollback restores
          cmdsOk,    \* every restore command so far returned 0
          lkg,       \* reports/proxy_guard_lkg.json
          last,      \* rollback outcome of the last judged change
          events,    \* registry_change_events
          writes, probeFailures, cmdFailures,
          wrote,     \* the guard has changed the registry (history)
          disturbed  \* another write or a failed query since the last rollback
                     \* was granted (history)

loopVars == <<cfg, pc, k, attempt, snap, prior, lkg, last, events>>
restoreVars == <<target, cmdsOk>>
historyVars == <<wrote, disturbed>>
bounds == <<writes, probeFailures, cmdFailures>>
vars == <<reg, loopVars, restoreVars, historyVars, bounds, limiterVars>>

-----------------------------------------------------------------------------
\* A value that is not there and a query that fails both read as None.
None == "none"
Fields == {"enable", "server", "pac", "detect", "override"}
Snapshots == {s \in [Fields -> UNION {Values[f] : f \in Fields}] :
                 \A f \in Fields : s[f] \in Values[f]}
Unread == [f \in Fields |-> None]
NoSnapshot == [f \in Fields |-> "no snapshot"]

ASSUME GuardAssumption ==
    /\ \A f \in Fields : None \in Values[f]
    /\ Registries \subseteq Snapshots
    /\ KnownGood \in Snapshots
    /\ NoSnapshot \notin Snapshots
    /\ MaxAttempts \in Nat \ {0}
    /\ {MaxWrites, MaxProbeFailures, MaxCmdFailures} \subseteq Nat

\* The order of the queries in read_proxy_registry and of the commands in
\* build_wininet_restore_argv_list, which has none for AutoDetect.
ReadOrder == <<"enable", "server", "pac", "detect", "override">>
RestoreOrder == <<"server", "pac", "override", "enable">>

\* The gates computed at the top of run_proxy_guard_guard_loop.
effective_rollback == cfg.auto \/ cfg.cli
confirm_required == cfg.cli /\ ~ cfg.auto
\* Mutant of live_rollback_gate: the phrase is not looked at.
live_rollback_gate_NoPhrase == effective_rollback /\ ~ cfg.dry

live_rollback_gate == /\ effective_rollback
                      /\ ~ cfg.dry
                      /\ confirm_required => cfg.phrase

-----------------------------------------------------------------------------
\* What the probes around a change may report.
Contexts == [mode : {"verified", "heuristic", "unknown"},
             process : {"trusted path", "allowlisted name", "stranger", "nobody"},
             listen : {"yes", "no", "unknown"},
             proxied : {"yes", "no", "unknown"},
             bypass : {"yes", "no"}]

\* classify_composite_state
classify_composite_state(s, ctx) ==
    IF s.pac # None THEN "ENTERPRISE_PAC"
    ELSE IF s.enable # "1" THEN (IF s.server = None THEN "DIRECT" ELSE "LATENT_MISCONFIG")
    ELSE IF s.server # "local" THEN "DIRECT"
    ELSE IF \/ ctx.proxied = "no" /\ ctx.bypass = "yes"
            \/ ctx.listen = "no"
         THEN "LOOPBACK_BROKEN"
    ELSE IF \/ ctx.proxied = "yes"
            \/ ctx.listen = "yes" /\ ctx.proxied = "unknown"
         THEN "LOOPBACK_OPERATIONAL"
    ELSE "LOOPBACK_BROKEN"

\* ProxyGuardPolicy.evaluate on the rows of attribution_to_owner_rows.
PolicyAllows(ctx) == \/ ctx.process = "allowlisted name"
                     \/ ctx.process = "nobody" /\ cfg.allowEmpty

\* evaluate_proxy_transition, its early returns in order.
evaluate_proxy_transition(before, after, ctx) ==
    LET path == classify_composite_state(after, ctx)
        local == after.server = "local"
    IN  IF before = after THEN "observe"
        ELSE IF before.enable = "1" /\ after.enable # "1" THEN "allowed"
        ELSE IF before.pac # after.pac /\ after.pac \notin {None, "approved"} THEN "blocked"
        ELSE IF ctx.mode = "verified" /\ ctx.process = "trusted path" THEN "allowed"
        ELSE IF local /\ path = "LOOPBACK_BROKEN" THEN "blocked"
        ELSE IF local /\ path = "LOOPBACK_OPERATIONAL" THEN "allowed"
        ELSE IF local /\ (\/ ctx.listen = "yes"
                          \/ ctx.process = "trusted path"
                          \/ ctx.mode = "verified"
                          \/ PolicyAllows(ctx)) THEN "allowed"
        ELSE IF local /\ ctx.listen = "no" THEN "blocked"
        ELSE IF PolicyAllows(ctx) THEN "allowed"
        ELSE IF cfg.observeOnly /\ (ctx.mode = "unknown" \/ ctx.process = "nobody")
             THEN "observe"
        ELSE "blocked"

Decisions(before, after) ==
    {evaluate_proxy_transition(before, after, ctx) : ctx \in Contexts}

-----------------------------------------------------------------------------
Init == /\ reg \in Registries
        /\ cfg \in Configs
        /\ pc = "read"
        /\ k = 0
        /\ attempt = 1
        /\ snap = Unread
        /\ prior = NoSnapshot
        /\ target = NoSnapshot
        /\ cmdsOk = TRUE
        /\ lkg = NoSnapshot
        /\ last = "none"
        /\ events = 0
        /\ writes = 0 /\ probeFailures = 0 /\ cmdFailures = 0
        /\ wrote = FALSE /\ disturbed = FALSE
        /\ LimiterInit

\* Another program sets or deletes one value.
OtherWrites == /\ writes < MaxWrites
               /\ \E f \in Fields : \E v \in Values[f] \ {reg[f]} :
                     reg' = [reg EXCEPT ![f] = v]
               /\ writes' = writes + 1
               /\ disturbed' = TRUE
               /\ UNCHANGED <<loopVars, restoreVars, wrote, probeFailures, cmdFailures,
                              limiterVars>>

TimePasses == /\ Tick
              /\ UNCHANGED <<reg, loopVars, restoreVars, historyVars, bounds>>

Probing == pc \in {"read", "reread"}
ReadAs(v) == /\ Probing
             /\ k < Len(ReadOrder)
             /\ snap' = [snap EXCEPT ![ReadOrder[k + 1]] = v]
             /\ k' = k + 1
             /\ UNCHANGED <<reg, cfg, pc, attempt, prior, lkg, last, events, restoreVars,
                            wrote, writes, cmdFailures, limiterVars>>

\* One reg query of read_proxy_registry, for the poll or after a rollback.
ReadValue == /\ k < Len(ReadOrder)
             /\ ReadAs(reg[ReadOrder[k + 1]])
             /\ UNCHANGED <<disturbed, probeFailures>>

\* The query fails or times out.
ReadFails == /\ probeFailures < MaxProbeFailures
             /\ probeFailures' = probeFailures + 1
             /\ disturbed' = TRUE
             /\ ReadAs(None)

\* Mutant of ProbeRetry: the attempts are not counted.
ProbeRetry_Forever == /\ Probing
                      /\ k = Len(ReadOrder)
                      /\ snap = Unread
                      /\ attempt < MaxAttempts
                      /\ k' = 0
                      /\ UNCHANGED <<reg, cfg, pc, attempt, snap, prior, lkg, last, events,
                                     restoreVars, historyVars, bounds, limiterVars>>

\* read_proxy_registry_with_retries: nothing at all was readable, try again.
ProbeRetry == /\ Probing
              /\ k = Len(ReadOrder)
              /\ snap = Unread
              /\ attempt < MaxAttempts
              /\ attempt' = attempt + 1
              /\ k' = 0
              /\ UNCHANGED <<reg, cfg, pc, snap, prior, lkg, last, events, restoreVars,
                             historyVars, bounds, limiterVars>>

ProbeDone == /\ k = Len(ReadOrder)
             /\ snap # Unread \/ attempt = MaxAttempts

StartProbe == k' = 0 /\ attempt' = 1 /\ snap' = Unread

\* The end of an iteration: sleep and poll again, or return.
Polled == /\ pc' = IF cfg.once THEN "stopped" ELSE "read"
          /\ StartProbe
          /\ UNCHANGED events

\* The same after a change was handled, which counts as an event.
Handled == /\ events' = events + 1
           /\ pc' = IF cfg.once \/ (cfg.exitAfter # 0 /\ events' >= cfg.exitAfter)
                    THEN "stopped" ELSE "read"
           /\ StartProbe

\* The first poll is the baseline; --trust-current stores it.
Baseline == /\ pc = "read" /\ ProbeDone
            /\ prior = NoSnapshot
            /\ prior' = snap
            /\ lkg' = IF cfg.trust THEN snap ELSE lkg
            /\ Polled
            /\ UNCHANGED <<reg, cfg, last, restoreVars, historyVars, bounds, limiterVars>>

\* The views are equal.
NoChange == /\ pc = "read" /\ ProbeDone
            /\ prior = snap
            /\ Polled
            /\ UNCHANGED <<reg, cfg, prior, lkg, last, restoreVars, historyVars, bounds,
                           limiterVars>>

Changed == /\ pc = "read" /\ ProbeDone
           /\ prior \notin {NoSnapshot, snap}

\* A change that is not blocked, or that no flag asks to roll back, becomes the
\* new baseline.
Adopt == /\ Changed
         /\ \E d \in Decisions(prior, snap) :
               /\ d # "blocked" \/ ~ effective_rollback
               /\ last' = IF d = "blocked" THEN "rollback_preview" ELSE "rollback_skipped"
         /\ prior' = snap
         /\ Handled
         /\ UNCHANGED <<reg, cfg, lkg, restoreVars, historyVars, bounds, limiterVars>>

Blocked == /\ Changed
           /\ "blocked" \in Decisions(prior, snap)
           /\ effective_rollback

\* A blocked change the limiter does not let be rolled back: it becomes the new
\* baseline too.
Suppress == /\ Blocked
            /\ RefuseCooldown \/ RefuseWindow
            /\ last' = "rollback_skipped"
            /\ prior' = snap
            /\ Handled
            /\ UNCHANGED <<reg, cfg, lkg, restoreVars, historyVars, bounds>>

\* Mutant of StartRollback: evaluate is not asked.
StartRollback_Unlimited ==
    /\ Blocked
    /\ granted' = TRUE
    /\ target' = IF cfg.known THEN KnownGood ELSE prior
    /\ cmdsOk' = TRUE
    /\ pc' = "restore"
    /\ StartProbe
    /\ disturbed' = FALSE
    /\ UNCHANGED <<reg, cfg, prior, lkg, last, events, wrote, bounds, now, at, kept,
                   cooldownUntil>>

\* A blocked change the limiter lets be rolled back, live or as a preview.
StartRollback ==
    /\ Blocked
    /\ Grant
    /\ target' = IF cfg.known THEN KnownGood ELSE prior
    /\ cmdsOk' = TRUE
    /\ pc' = "restore"
    /\ StartProbe
    /\ disturbed' = FALSE
    /\ UNCHANGED <<reg, cfg, prior, lkg, last, events, wrote, bounds>>

\* execute_lkg_snapshot_rollback refuses when git/npm restoration was asked for.
Skipped == cfg.gitNpm /\ ~ cfg.known
RunsCommands == live_rollback_gate /\ ~ Skipped

\* The next reg.exe command.  A None in the target is a delete; ProxyEnable has
\* no delete, and then there is no command.
Command == RestoreOrder[k + 1]
NoCommand == Command = "enable" /\ target[Command] = None
Restored == IF NoCommand THEN reg ELSE [reg EXCEPT ![Command] = target[Command]]

\* apply_reg_argv_sequences runs every command, whatever the one before returned.
RunCommand == /\ pc = "restore" /\ RunsCommands
              /\ k < Len(RestoreOrder)
              /\ k' = k + 1
              /\ wrote' = (wrote \/ reg' # reg)
              /\ UNCHANGED <<cfg, pc, attempt, snap, prior, lkg, last, events, target,
                             disturbed, writes, probeFailures, limiterVars>>

\* reg.exe does its work; a delete of a value that is not there returns non-zero.
RestoreValue == /\ k < Len(RestoreOrder)
                /\ reg' = Restored
                /\ cmdsOk' = (cmdsOk /\ (\/ NoCommand
                                         \/ target[Command] # None
                                         \/ reg[Command] # None))
                /\ RunCommand
                /\ UNCHANGED cmdFailures

\* Mutant of RestoreFails: the failure of a command is not reported.
RestoreFails_Ignored == /\ k < Len(RestoreOrder)
                        /\ ~ NoCommand
                        /\ cmdFailures < MaxCmdFailures
                        /\ cmdFailures' = cmdFailures + 1
                        /\ reg' \in {reg, Restored}
                        /\ UNCHANGED cmdsOk
                        /\ RunCommand

\* It fails, or times out with or without having done its work.
RestoreFails == /\ k < Len(RestoreOrder)
                /\ ~ NoCommand
                /\ cmdFailures < MaxCmdFailures
                /\ cmdFailures' = cmdFailures + 1
                /\ reg' \in {reg, Restored}
                /\ cmdsOk' = FALSE
                /\ RunCommand

\* The netsh, git, npm and environment commands, then record_rollback.
FinishRestore ==
    /\ pc = "restore" /\ RunsCommands
    /\ k = Len(RestoreOrder)
    /\ \/ UNCHANGED <<cmdsOk, cmdFailures>>
       \/ /\ cmdFailures < MaxCmdFailures
          /\ cmdFailures' = cmdFailures + 1
          /\ cmdsOk' = FALSE
    /\ Record
    /\ pc' = "reread"
    /\ StartProbe
    /\ UNCHANGED <<reg, cfg, prior, lkg, last, events, target, historyVars, writes,
                   probeFailures>>

\* Mutant of PreviewRestore: a rollback that was not run stays granted.
PreviewRestore_StaysGranted ==
    /\ pc = "restore" /\ ~ RunsCommands
    /\ pc' = "reread"
    /\ StartProbe
    /\ UNCHANGED <<reg, cfg, prior, lkg, last, events, restoreVars, historyVars, bounds,
                   limiterVars>>

\* A preview or a refused restore runs no command and is not recorded.
PreviewRestore ==
    /\ pc = "restore" /\ ~ RunsCommands
    /\ Forgo
    /\ pc' = "reread"
    /\ StartProbe
    /\ UNCHANGED <<reg, cfg, prior, lkg, last, events, restoreVars, historyVars, bounds>>

\* verify_hkcu_core_matches_prior, which does not look at ProxyOverride.
Matches(s, t) == \A f \in Fields \ {"override"} : s[f] = t[f]

\* Mutant of Conclude: the target is taken for the new baseline without looking.
Conclude_TrustsTarget ==
    /\ pc = "reread" /\ ProbeDone
    /\ prior' = target
    /\ last' = IF Skipped THEN "rollback_skipped"
               ELSE IF ~ live_rollback_gate THEN "rollback_preview"
               ELSE IF cmdsOk /\ Matches(snap, target) THEN "rollback_applied"
               ELSE "rollback_failed"
    /\ Handled
    /\ UNCHANGED <<reg, cfg, lkg, restoreVars, historyVars, bounds, limiterVars>>

\* The registry has been read again: it is the new baseline whatever it holds,
\* and the outcome is reported.
Conclude ==
    /\ pc = "reread" /\ ProbeDone
    /\ prior' = snap
    /\ last' = IF Skipped THEN "rollback_skipped"
               ELSE IF ~ live_rollback_gate THEN "rollback_preview"
               ELSE IF cmdsOk /\ Matches(snap, target) THEN "rollback_applied"
               ELSE "rollback_failed"
    /\ Handled
    /\ UNCHANGED <<reg, cfg, lkg, restoreVars, historyVars, bounds, limiterVars>>

GuardStep == \/ ReadValue \/ ReadFails \/ ProbeRetry \/ Baseline \/ NoChange
             \/ Adopt \/ Suppress \/ StartRollback \/ RestoreValue \/ RestoreFails
             \/ FinishRestore \/ PreviewRestore \/ Conclude

Next == GuardStep \/ OtherWrites \/ TimePasses

Spec == Init /\ [][Next]_vars

\* The loop runs as long as its process does; other programs and the clock owe
\* nothing.
FairSpec == Spec /\ WF_vars(GuardStep)

-----------------------------------------------------------------------------
\* Every variable keeps its type, a partial snapshot included.
TypeOK == /\ reg \in Snapshots
          /\ cfg \in Configs
          /\ pc \in {"read", "restore", "reread", "stopped"}
          /\ k \in 0 .. Len(ReadOrder)
          /\ attempt \in 1 .. MaxAttempts
          /\ snap \in Snapshots
          /\ {prior, target, lkg} \subseteq Snapshots \cup {NoSnapshot}
          /\ {cmdsOk, wrote, disturbed} \subseteq BOOLEAN
          /\ last \in {"none", "rollback_skipped", "rollback_preview",
                       "rollback_applied", "rollback_failed"}
          /\ events \in Nat
          /\ writes \in 0 .. MaxWrites
          /\ probeFailures \in 0 .. MaxProbeFailures
          /\ cmdFailures \in 0 .. MaxCmdFailures
          /\ pc = "restore" => target # NoSnapshot
          /\ granted <=> pc = "restore"

(***************************************************************************)
(* The guard changes the registry only with --auto-rollback, or with        *)
(* --rollback and the typed phrase, and never in a dry run.                 *)
(***************************************************************************)
ConsentedWrites == wrote => /\ cfg.auto \/ (cfg.cli /\ cfg.phrase)
                            /\ ~ cfg.dry

(***************************************************************************)
(* The loop never takes its own rollback for a new change: every handled    *)
(* change is due to a write by another program, or to a failed query, which *)
(* makes a value vanish once and come back once.                            *)
(***************************************************************************)
ReactsOnlyToOthers == events <= writes + 2 * probeFailures

(***************************************************************************)
(* When rollback_applied is reported and nobody interfered since the        *)
(* rollback was decided, all five values are those of the target, although  *)
(* AutoDetect is not written and ProxyOverride is not verified.             *)
(***************************************************************************)
AppliedIsRestored == last = "rollback_applied" /\ ~ disturbed /\ pc = "read"
                        => reg = target

(***************************************************************************)
(* The loop uses the limiter the way RollbackLimiter specifies, so that its *)
(* bounds on the rate of rollbacks hold of the loop.                        *)
(***************************************************************************)
UsesLimiter == LimiterSpec

\* Every probe is concluded, also when no value is readable, and every conclusion
\* leads to the next probe, unless the loop was told to return.
KeepsPolling == /\ []<>(pc = "stopped" \/ (Probing /\ ProbeDone))
                /\ []<>(pc = "stopped" \/ ~ (Probing /\ ProbeDone))

(***************************************************************************)
(* docs/proxy_guard.md: "only the exact prior values are replayed when      *)
(* known".  When no other program ever wrote, replaying prior values        *)
(* changes nothing.                                                         *)
(***************************************************************************)
ReplaysOnlyPriorValues == writes = 0 /\ ~ cfg.known => ~ wrote

\* docs/proxy_guard.md names AutoDetect among the values a rollback restores:
\* after one whose commands all succeeded undisturbed, it is that of the target.
RestoresAutoDetect == (last \in {"rollback_applied", "rollback_failed"} /\ pc = "read"
                         /\ cmdsOk /\ ~ disturbed)
                        => reg["detect"] = target["detect"]
=============================================================================
