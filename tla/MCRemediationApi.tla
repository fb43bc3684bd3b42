-------------------------- MODULE MCRemediationApi --------------------------
(***************************************************************************)
(* A small instance of the platform API: a request that stores the failure  *)
(* event, one that previews an action for it, and two that execute the      *)
(* preview; or requests that write other audited rows meanwhile.            *)
(***************************************************************************)
EXTENDS RemediationApi, TLC

MCIngest == {[route |-> "ingest", role |-> role, event |-> "ev"] : role \in {"operator", "viewer"}}
            \cup {[route |-> "lkg", role |-> "operator", endpoint |-> "h"],
                  [route |-> "diagnosis", endpoint |-> "h", policy |-> "preview_only"],
                  [route |-> "reasoning", role |-> "operator", endpoint |-> "h"],
                  [route |-> "snapshot", role |-> "operator", endpoint |-> "h"]}

MCPreview ==
  {[route |-> "preview", role |-> "operator", event |-> "ev", action |-> a, surface |-> "api"] :
     a \in {"reset_dns", "reset_winsock", "process_kill", "no_such_action", "a;b"}}
  \cup {[route |-> "rollback", role |-> "operator", endpoint |-> "h", fields |-> {"ProxyServer"}],
        [route |-> "attribution", role |-> "security_auditor", event |-> "ev", endpoint |-> "h"],
        [route |-> "next_step"]}

MCExecute ==
  {[route |-> "execute", role |-> "operator", preview |-> "r2", phrase |-> "RUN_DNS_RESET",
    dry_run |-> FALSE]}
  \cup {[route |-> "execute", role |-> "admin", preview |-> "r2", phrase |-> phrase, dry_run |-> FALSE] :
          phrase \in {"RUN_DNS_RESET", "RUN_PROXY_RESET", "RUN_WINSOCK_RESET"}}

MCMeanwhile ==
  {[route |-> "execute", role |-> "operator", preview |-> "r2", phrase |-> "RUN_DNS_RESET",
    dry_run |-> TRUE],
   [route |-> "correlation", role |-> "viewer", policy |-> "PREVIEW"],
   [route |-> "correlation", role |-> "operator", policy |-> "BLOCK"],
   [route |-> "incident", role |-> "operator", state |-> "ACKNOWLEDGED"]}

MCBodies == ("r1" :> MCIngest) @@ ("r2" :> MCPreview) @@ ("r3" :> MCExecute) @@ ("r4" :> MCMeanwhile)

\* An operator acknowledges the incident while another resolves it.
MCTransitions == [r \in Requests |-> {[route |-> "incident", role |-> "operator",
                    state |-> IF r = "r1" THEN "ACKNOWLEDGED" ELSE "RESOLVED"]}]
=============================================================================
