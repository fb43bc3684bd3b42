--------------------------- MODULE MCDriftGuardian ---------------------------
(***************************************************************************)
(* The dead-proxy tools side by side, two at a time.                        *)
(***************************************************************************)
EXTENDS DriftGuardian

Absent == [run |-> FALSE, dry |-> FALSE, once |-> FALSE, confirm |-> FALSE,
           clearBroken |-> FALSE, confirmBroken |-> FALSE, hold |-> FALSE,
           prefer |-> FALSE, clearPac |-> FALSE, phrase |-> ""]

\* The guardian, and the phrases ensure-proxy-health fills in by itself.
Live == [Absent EXCEPT !.run = TRUE, !.confirm = TRUE, !.phrase = "DISABLE_WININET_PROXY"]
Preview == [Live EXCEPT !.dry = TRUE, !.confirm = FALSE]
Broken == [Live EXCEPT !.clearBroken = TRUE, !.confirmBroken = TRUE]
Prefer == [Live EXCEPT !.prefer = TRUE]

Together(g, e, f) == [t \in Tools |-> CASE t = "guardian" -> g
                                        [] t = "ensure" -> e
                                        [] OTHER -> f]
MCOptions == {Together(Live, Prefer, Absent),
              Together([Broken EXCEPT !.hold = TRUE], Preview, Absent),
              Together([Broken EXCEPT !.once = TRUE],
                       [Prefer EXCEPT !.confirmBroken = TRUE], Absent),
              Together(Live, Absent, Live),
              Together(Absent, Absent, [Live EXCEPT !.phrase = ""]),
              Together(Absent, Absent,
                       [Live EXCEPT !.clearPac = TRUE, !.phrase = "CLEAR_PAC_TOO"])}

Machine(e, s, p, l, w) == [reg |-> [enable |-> e, server |-> s, pac |-> p],
                           manual |-> TRUE, listening |-> l, works |-> w]

\* A dead proxy and a healthy tunnel; other programs make the rest of them.
MCMachines == {Machine("1", "local", None, FALSE, TRUE),
               Machine("1", "local", None, TRUE, TRUE)}
==============================================================================
