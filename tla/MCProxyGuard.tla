---------------------------- MODULE MCProxyGuard ----------------------------
(***************************************************************************)
(* Small instances of the Proxy Guard loop.                                 *)
(***************************************************************************)
EXTENDS ProxyGuard, TLC

MCValues == [f \in Fields |->
    CASE f = "enable"   -> {None, "0", "1"}
      [] f = "server"   -> {None, "corp", "local"}
      [] f = "pac"      -> {None, "pac"}
      [] f = "detect"   -> {None, "1"}
      [] f = "override" -> {None, "bypass"}]

Registry(e, s, p, d, o) ==
    ("enable" :> e) @@ ("server" :> s) @@ ("pac" :> p) @@ ("detect" :> d)
       @@ ("override" :> o)

\* A corporate proxy, and no proxy value at all.
Corporate == Registry("1", "corp", None, "1", "bypass")
CorporateOnly == {Corporate}
CorporateOrEmpty == {Corporate, Unread}
MCKnownGood == Corporate

Plain == [auto |-> FALSE, cli |-> FALSE, phrase |-> FALSE, dry |-> FALSE,
          known |-> FALSE, gitNpm |-> FALSE, trust |-> FALSE, once |-> FALSE,
          exitAfter |-> 0, allowEmpty |-> FALSE, observeOnly |-> FALSE]
Auto == [Plain EXCEPT !.auto = TRUE]
AutoOnly == {Auto}
RollbackConfigs == {Auto, [Auto EXCEPT !.known = TRUE]}

\* The ways to start the service that the loop tells apart.
AllConfigs == {Auto,
               [Plain EXCEPT !.once = TRUE],
               [Plain EXCEPT !.observeOnly = TRUE],
               [Plain EXCEPT !.cli = TRUE],
               [Plain EXCEPT !.cli = TRUE, !.phrase = TRUE, !.exitAfter = 2],
               [Auto EXCEPT !.dry = TRUE, !.allowEmpty = TRUE],
               [Auto EXCEPT !.known = TRUE],
               [Auto EXCEPT !.gitNpm = TRUE, !.trust = TRUE]}
=============================================================================
