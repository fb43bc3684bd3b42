------------------------ MODULE DriftGuardianProofs ------------------------
(***************************************************************************)
(* Proofs about the dead-proxy tools, for every combination of command      *)
(* lines, every machine to start from and every number of writes by other   *)
(* programs, of failed queries and of failed commands.                      *)
(***************************************************************************)
EXTENDS DriftGuardian, TLAPS

\* What a tool may have seen of the machine.
Sights == [enable : {None, "0", "1"}, server : {None, "corp", "local"},
           pac : {None, "pac"}, listen : BOOLEAN,
           path : {"ok", "only direct", "neither", "unknown"}]

\* The bounds are naturals.
LEMMA BoundsAreNat == MaxWrites \in Nat /\ MaxFailures \in Nat
  BY DriftAssumption

\* What a tool knows before its first read.
LEMMA BlankType == Blank \in Sights /\ Blank.server = None /\ Blank.listen = FALSE
                   /\ Blank.enable = None /\ Blank.path = "unknown"
  BY DEF Blank, Sights, None

\* The order of a look and of a fix, spelled out for the provers.
LEMMA FollowingIs ==
  /\ Following["enable"] = "server" /\ Following["server"] = "pac" /\ Following["pac"] = "listen"
  /\ Following["listen"] = "path" /\ Following["path"] = "judge"
  /\ Following["disable"] = "delete" /\ Following["delete"] = "blob"
  BY DEF Following

\* What a query may note: a value of the registry, or None.
LEMMA NoteType ==
  ASSUME NEW s \in Sights, NEW f \in {"enable", "server", "pac"}, NEW r \in Values,
         NEW v, v = r[f] \/ v = None
  PROVE  /\ [s EXCEPT ![f] = v] \in Sights
         /\ [s EXCEPT ![f] = v][f] = v
         /\ \A g \in {"enable", "server", "pac", "listen", "path"} :
               g # f => [s EXCEPT ![f] = v][g] = s[g]
  BY DEF Sights, Values, None
\* All of TypeOK but its last conjunct, which takes the course of the tools.
Types == /\ reg \in Values
         /\ {manual, listening, works} \subseteq BOOLEAN
         /\ opt \in Options
         /\ stage \in [Tools -> {"guardian", "fallback", "prefer", "again", "final",
                                 "fix", "done"}]
         /\ step \in [Tools -> LookSteps \cup {"judge"} \cup FixSteps
                               \cup {"report", "crashed", "done"}]
         /\ seen \in [Tools -> Sights]
         /\ outcome \in {"none", "blocked", "would_remediate", "still_dead",
                         "needs_prefer_direct_confirm", "localhost_proxy_broken",
                         "localhost_proxy_active", "healthy"}
         /\ writes \in 0 .. MaxWrites
         /\ failures \in 0 .. MaxFailures
         /\ disturbed \in [Tools -> BOOLEAN]

\* The order in which each tool goes through its stages and steps.
StagesOf == [guardian |-> {"guardian", "done"},
             ensure |-> {"guardian", "fallback", "prefer", "again", "final", "done"},
             fix |-> {"fix", "done"}]

Course == \A t \in Tools :
             /\ stage[t] \in StagesOf[t]
             /\ stage[t] = "done" <=> step[t] = "done"
             /\ step[t] \in LookSteps \cup {"judge"} => stage[t] # "fix"
             /\ step[t] \in FixSteps => stage[t] # "final"

\* The report of ensure-proxy-health, once its last look is judged, is a verdict.
Concluded == opt["ensure"].run /\ (\/ step["ensure"] = "done"
                                   \/ stage["ensure"] = "final" /\ step["ensure"] = "report")
                => outcome \notin {"none", "blocked"}

\* A failed query or command counts, and disturbs the tool it belongs to.
LEMMA FailsType ==
  ASSUME Types, NEW t \in Tools, Fails(t)
  PROVE  /\ failures' \in 0 .. MaxFailures /\ failures' # 0
         /\ disturbed' \in [Tools -> BOOLEAN] /\ disturbed'[t]
         /\ \A u \in Tools \ {t} : disturbed'[u] = disturbed[u]
  BY BoundsAreNat DEF Fails, Types

\* A tool moves to one step, and the others stay where they are.
LEMMA GotoType ==
  ASSUME Types, NEW t \in Tools, NEW s, Goto(t, s)
  PROVE  /\ step'[t] = s
         /\ \A u \in Tools \ {t} : step'[u] = step[u]
         /\ s \in LookSteps \cup {"judge"} \cup FixSteps \cup {"report", "crashed", "done"}
              => step' \in [Tools -> LookSteps \cup {"judge"} \cup FixSteps
                                     \cup {"report", "crashed", "done"}]
  BY DEF Goto, Types

\* What a query does.
LEMMA ReadEffect ==
  ASSUME Types, NEW t \in Tools, ReadValue(t)
  PROVE  /\ seen' \in [Tools -> Sights]
         /\ \A u \in Tools \ {t} : seen'[u] = seen[u]
         /\ \/ /\ UNCHANGED <<failures, disturbed>>
               /\ seen'[t] = [seen[t] EXCEPT ![step[t]] = reg[step[t]]]
            \/ /\ Fails(t)
               /\ seen'[t] = [seen[t] EXCEPT ![step[t]] = None]
<1>1. PICK v : /\ Note(t, step[t], v)
               /\ \/ UNCHANGED <<failures, disturbed>> /\ v = reg[step[t]]
                  \/ Fails(t) /\ v = None
  BY DEF ReadValue
<1>2. seen' = [seen EXCEPT ![t] = [seen[t] EXCEPT ![step[t]] = v]]
  BY <1>1 DEF Note
<1>3. seen[t] \in Sights /\ step[t] \in {"enable", "server", "pac"} /\ reg \in Values
      /\ seen \in [Tools -> Sights]
  BY DEF ReadValue, Types
<1>4. v = reg[step[t]] \/ v = None
  BY <1>1
<1>5. [seen[t] EXCEPT ![step[t]] = v] \in Sights
  BY <1>3, <1>4, NoteType
<1>6. seen'[t] = [seen[t] EXCEPT ![step[t]] = v]
  BY <1>2, <1>3
<1> QED
  BY Zenon, <1>1, <1>2, <1>3, <1>5, <1>6

\* What the re-reading of apply_proxy_fix does.
LEMMA FixReadsEffect ==
  ASSUME Types, NEW t \in Tools, FixReads(t)
  PROVE  /\ seen' \in [Tools -> Sights]
         /\ \A u \in Tools \ {t} : seen'[u] = seen[u]
         /\ \/ /\ UNCHANGED <<failures, disturbed>>
               /\ seen'[t] = [seen[t] EXCEPT !.server = reg.server]
            \/ /\ Fails(t)
               /\ seen'[t] = [seen[t] EXCEPT !.server = None]
<1>1. PICK v : /\ Note(t, "server", v)
               /\ \/ UNCHANGED <<failures, disturbed>> /\ v = reg.server
                  \/ Fails(t) /\ v = None
  BY DEF FixReads
<1>2. seen' = [seen EXCEPT ![t] = [seen[t] EXCEPT !.server = v]]
  BY Zenon, <1>1 DEF Note
<1>3. seen[t] \in Sights /\ reg \in Values /\ seen \in [Tools -> Sights]
  BY DEF Types
<1>4. v = reg["server"] \/ v = None
  BY <1>1
<1>5. [seen[t] EXCEPT !.server = v] \in Sights
  BY <1>3, <1>4, NoteType
<1> QED
  BY <1>1, <1>2, <1>3, <1>5

\* What a command does.
LEMMA RunsEffect ==
  ASSUME Types, NEW t \in Tools,
         SetEnable(t) \/ DeleteServer(t)
  PROVE  /\ reg' \in Values
         /\ reg' = reg \/ reg' = [reg EXCEPT !.enable = "0"] \/ reg' = [reg EXCEPT !.server = None]
         /\ UNCHANGED <<failures, disturbed>> \/ Fails(t)
         /\ UNCHANGED <<manual, listening, works, opt, stage, seen, outcome, writes>>
         /\ Goto(t, Following[step[t]])
<1>1. reg \in Values
  BY DEF Types
<1>2. [reg EXCEPT !.enable = "0"] \in Values /\ [reg EXCEPT !.server = None] \in Values
  BY <1>1 DEF Values
<1>3. CASE SetEnable(t)
  BY <1>1, <1>2, <1>3 DEF SetEnable, Runs
<1>4. CASE DeleteServer(t)
  BY <1>1, <1>2, <1>4 DEF DeleteServer, Runs, machineVars, bounds
<1> QED
  BY <1>3, <1>4
\* The probes note what they find, and a judged look is forgotten.
LEMMA ProbeEffect ==
  ASSUME Types, NEW t \in Tools, ProbeListener(t) \/ ProbePath(t)
  PROVE  /\ seen' \in [Tools -> Sights]
         /\ \A u \in Tools \ {t} : seen'[u] = seen[u]
         /\ ProbeListener(t) =>
              seen'[t] = [seen[t] EXCEPT !.listen = (seen[t].server = "local" /\ listening)]
         /\ ProbePath(t) =>
              \E p \in {"ok", "only direct", "neither", "unknown"} :
                 /\ seen'[t] = [seen[t] EXCEPT !.path = p]
                 /\ p \in {"only direct", "neither"} => ~ (listening /\ works)
<1>1. seen \in [Tools -> Sights] /\ seen[t] \in Sights
  BY DEF Types
<1>2. CASE ProbeListener(t)
  <2>1. PICK b \in BOOLEAN : b = (seen[t].server = "local" /\ listening)
    BY Zenon
  <2>2. seen' = [seen EXCEPT ![t] = [seen[t] EXCEPT !.listen = b]]
    BY Zenon, <1>2, <2>1 DEF ProbeListener, Note
  <2>3. [seen[t] EXCEPT !.listen = b] \in Sights
    BY <1>1 DEF Sights
  <2>4. ~ ProbePath(t)
    BY <1>2 DEF ProbeListener, ProbePath
  <2> QED
    BY <1>1, <2>1, <2>2, <2>3, <2>4
<1>3. CASE ProbePath(t)
  <2>1. PICK p \in {"ok", "only direct", "neither", "unknown"} :
          Note(t, "path", p) /\ (p \in {"only direct", "neither"} => ~ (listening /\ works))
    BY <1>3 DEF ProbePath
  <2>2. seen' = [seen EXCEPT ![t] = [seen[t] EXCEPT !.path = p]]
    BY <2>1 DEF Note
  <2>3. [seen[t] EXCEPT !.path = p] \in Sights
    BY <1>1 DEF Sights
  <2>4. ~ ProbeListener(t)
    BY <1>3 DEF ProbeListener, ProbePath
  <2>5. seen'[t] = [seen[t] EXCEPT !.path = p]
    BY <1>1, <2>2
  <2> QED
    BY <1>1, <2>1, <2>2, <2>3, <2>4, <2>5
<1> QED
  BY <1>2, <1>3

\* Ending a look forgets what was seen, except the server a fix acts on.
LEMMA JudgeEffect ==
  ASSUME Types, NEW t \in Tools, LeaveAlone(t) \/ CallFix(t) \/ Report(t)
  PROVE  /\ seen' \in [Tools -> Sights]
         /\ \A u \in Tools \ {t} : seen'[u] = seen[u]
         /\ LeaveAlone(t) \/ Report(t) => seen'[t] = Blank
         /\ CallFix(t) => seen'[t] = [Blank EXCEPT !.server = seen[t].server]
<1>1. seen \in [Tools -> Sights] /\ seen[t] \in Sights
  BY DEF Types
<1>2. [Blank EXCEPT !.server = seen[t].server] \in Sights
  BY <1>1, BlankType DEF Sights
<1>3. LeaveAlone(t) \/ Report(t) => seen' = [seen EXCEPT ![t] = Blank]
  BY DEF LeaveAlone, Report
<1>4. CallFix(t) => seen' = [seen EXCEPT ![t] = [Blank EXCEPT !.server = seen[t].server]]
  BY DEF CallFix
<1> QED
  BY <1>1, <1>2, <1>3, <1>4, BlankType

\* The next stage, and what it means for the next step.
AfterReport(t) == IF t = "guardian" THEN (IF opt[t].once THEN "done" ELSE "guardian")
                  ELSE NextStage[stage[t]]

\* Where a tool that reports goes next: a later stage, or its end.
LEMMA ReportEffect ==
  ASSUME Types, Course, NEW t \in Tools, Report(t)
  PROVE  /\ AfterReport(t) \in StagesOf[t] \ {"fix"}
         /\ t = "ensure" /\ AfterReport(t) = "done" => stage[t] = "final"
         /\ stage' = [stage EXCEPT ![t] = AfterReport(t)]
         /\ Goto(t, IF AfterReport(t) = "done" THEN "done" ELSE "enable")
         /\ disturbed' \in [Tools -> BOOLEAN]
         /\ \A u \in Tools \ {t} : disturbed'[u] = disturbed[u]
         /\ UNCHANGED <<machineVars, opt, outcome, bounds>>
<1>1. stage[t] \in StagesOf[t] /\ stage[t] # "done" /\ t \in {"guardian", "ensure", "fix"}
  BY DEF Course, Report, Tools
<1>2. /\ AfterReport(t) \in StagesOf[t] \ {"fix"}
      /\ t = "ensure" /\ AfterReport(t) = "done" => stage[t] = "final"
  BY <1>1 DEF AfterReport, StagesOf, NextStage
<1> QED
  BY <1>2 DEF Report, AfterReport, Types

\* The outcomes of ensure-proxy-health: only its last two looks set one.
LEMMA OutcomeType ==
  ASSUME Types, NEW t \in Tools, LeaveAlone(t)
  PROVE  /\ outcome' \in {"none", "blocked", "would_remediate", "still_dead",
                          "needs_prefer_direct_confirm", "localhost_proxy_broken",
                          "localhost_proxy_active", "healthy"}
         /\ stage[t] = "final" => outcome' \notin {"none", "blocked"}
         /\ stage[t] \notin {"final", "again"} => outcome' = outcome
<1>1. Verdict(t) \in {"would_remediate", "still_dead", "needs_prefer_direct_confirm",
                      "localhost_proxy_broken", "localhost_proxy_active", "healthy"}
  BY DEF Verdict
<1>2. outcome' \in {Verdict(t), "blocked", outcome}
  BY DEF LeaveAlone
<1>3. stage[t] = "final" => outcome' = Verdict(t)
  BY DEF LeaveAlone
<1>4. stage[t] \notin {"final", "again"} => outcome' = outcome
  BY DEF LeaveAlone
<1> QED
  BY <1>1, <1>2, <1>3, <1>4 DEF Types

\* Another program changes the machine and disturbs every tool.
LEMMA OthersEffect ==
  ASSUME Types, OthersAct
  PROVE  /\ Types' /\ writes' # 0
         /\ \A t \in Tools : disturbed'[t]
         /\ UNCHANGED <<opt, toolVars>>
<1>1. reg' \in Values
  BY Zenon DEF OthersAct, Types
<1>2. writes' \in 0 .. MaxWrites /\ writes' # 0
  BY BoundsAreNat DEF OthersAct, Types
<1>3. manual' \in BOOLEAN /\ listening' \in BOOLEAN /\ works' \in BOOLEAN
  BY Zenon DEF OthersAct, Types
<1>4. UNCHANGED <<opt, toolVars, failures>> /\ disturbed' = [t \in Tools |-> TRUE]
  BY DEF OthersAct
<1> QED
  BY <1>1, <1>2, <1>3, <1>4 DEF Types, toolVars
\* The commands go one way: a proxy is disabled or a server deleted, never set.
Falls == /\ reg'.enable = reg.enable \/ reg'.enable = "0"
         /\ reg'.server = reg.server \/ reg'.server = None

\* A step of one tool: types, and what it leaves alone.
LEMMA ToolEffect ==
  ASSUME Types, Course, NEW t \in Tools, ToolStep(t)
  PROVE  /\ Types'
         /\ UNCHANGED <<opt, listening, works, writes>> /\ Falls
         /\ \A u \in Tools \ {t} : /\ step'[u] = step[u] /\ stage'[u] = stage[u]
                                   /\ seen'[u] = seen[u] /\ disturbed'[u] = disturbed[u]
<1>1. CASE ReadValue(t)
  <2>1. step[t] \in {"enable", "server", "pac"} /\ Goto(t, Following[step[t]])
        /\ UNCHANGED <<machineVars, opt, stage, outcome, writes>>
    BY <1>1 DEF ReadValue
  <2>2. Following[step[t]] \in {"server", "pac", "listen"}
    BY <2>1, FollowingIs
  <2>3. Following[step[t]] \in LookSteps
    BY <2>2 DEF LookSteps
  <2>4. failures' \in 0 .. MaxFailures /\ disturbed' \in [Tools -> BOOLEAN]
        /\ \A u \in Tools \ {t} : disturbed'[u] = disturbed[u]
    BY Zenon, <1>1, ReadEffect, FailsType DEF Types
  <2> QED
    BY Zenon, <1>1, <2>1, <2>3, <2>4, ReadEffect, GotoType DEF Types, machineVars, Falls
<1>2. CASE ProbeListener(t) \/ ProbePath(t)
  <2>1. \E s \in {"path", "judge"} : Goto(t, s)
    BY <1>2, FollowingIs DEF ProbeListener, ProbePath
  <2>2. UNCHANGED <<machineVars, opt, stage, outcome, bounds, disturbed>>
    BY <1>2 DEF ProbeListener, ProbePath
  <2> QED
    BY <1>2, <2>1, <2>2, ProbeEffect, GotoType DEF Types, machineVars, bounds, Falls, LookSteps
<1>3. CASE LeaveAlone(t)
  <2>1. Goto(t, "report") /\ UNCHANGED <<machineVars, opt, stage, bounds, disturbed>>
    BY <1>3 DEF LeaveAlone
  <2> QED
    BY Zenon, <1>3, <2>1, JudgeEffect, OutcomeType, GotoType DEF Types, machineVars, bounds, Falls
<1>4. CASE CallFix(t)
  <2>1. Goto(t, "fixread") /\ UNCHANGED <<machineVars, opt, stage, outcome, bounds, disturbed>>
    BY <1>4 DEF CallFix
  <2> QED
    BY Zenon, <1>4, <2>1, JudgeEffect, GotoType DEF Types, machineVars, bounds, Falls, FixSteps
<1>5. CASE FixReads(t)
  <2>1. \E s \in {"disable", "report"} : Goto(t, s)
    BY <1>5 DEF FixReads
  <2>2. UNCHANGED <<machineVars, opt, stage, outcome, writes>>
    BY <1>5 DEF FixReads
  <2>3. failures' \in 0 .. MaxFailures /\ disturbed' \in [Tools -> BOOLEAN]
        /\ \A u \in Tools \ {t} : disturbed'[u] = disturbed[u]
    BY Zenon, <1>5, FixReadsEffect, FailsType DEF Types
  <2> QED
    BY Zenon, <1>5, <2>1, <2>2, <2>3, FixReadsEffect, GotoType DEF Types, machineVars, Falls, FixSteps
<1>6. CASE SetEnable(t) \/ DeleteServer(t)
  <2>1. step[t] \in {"disable", "delete"} /\ Goto(t, Following[step[t]])
    BY <1>6, RunsEffect DEF SetEnable, DeleteServer
  <2>2. Following[step[t]] \in FixSteps
    BY <2>1, FollowingIs DEF FixSteps
  <2>3. failures' \in 0 .. MaxFailures /\ disturbed' \in [Tools -> BOOLEAN]
        /\ \A u \in Tools \ {t} : disturbed'[u] = disturbed[u]
    BY <1>6, RunsEffect, FailsType DEF Types
  <2>4. Falls
    BY <1>6, RunsEffect DEF Falls, Types, Values
  <2>5. reg' \in Values /\ UNCHANGED <<manual, listening, works, opt, stage, seen, outcome, writes>>
    BY <1>6, RunsEffect
  <2> QED
    BY <2>1, <2>2, <2>3, <2>4, <2>5, GotoType DEF Types
<1>7. CASE ClearBlob(t)
  <2>1. Goto(t, "report") /\ UNCHANGED <<reg, listening, works, opt, stage, seen, outcome, writes>>
    BY <1>7 DEF ClearBlob
  <2>2. (UNCHANGED <<failures, disturbed>> \/ Fails(t)) /\ (manual' = FALSE \/ manual' = manual)
    BY <1>7 DEF ClearBlob
  <2>3. failures' \in 0 .. MaxFailures /\ disturbed' \in [Tools -> BOOLEAN]
        /\ \A u \in Tools \ {t} : disturbed'[u] = disturbed[u]
    BY <2>2, FailsType DEF Types
  <2> QED
    BY Zenon, <2>1, <2>2, <2>3, GotoType DEF Types, Falls
<1>8. CASE Report(t)
  <2>1. \E s \in {"done", "enable"} : Goto(t, s)
    BY <1>8, ReportEffect
  <2>2. AfterReport(t) \in {"guardian", "fallback", "prefer", "again", "final", "fix", "done"}
    BY <1>8, ReportEffect DEF StagesOf, Tools
  <2>3. stage' \in [Tools -> {"guardian", "fallback", "prefer", "again", "final", "fix", "done"}]
        /\ \A u \in Tools \ {t} : stage'[u] = stage[u]
    BY <1>8, <2>2, ReportEffect DEF Types
  <2>4. UNCHANGED <<machineVars, opt, outcome, bounds>> /\ disturbed' \in [Tools -> BOOLEAN]
        /\ \A u \in Tools \ {t} : disturbed'[u] = disturbed[u]
    BY <1>8, ReportEffect
  <2> QED
    BY Zenon, <1>8, <2>1, <2>3, <2>4, JudgeEffect, GotoType DEF Types, machineVars, bounds, Falls, LookSteps
<1>9. CASE ReportRaises(t)
  <2>1. Goto(t, "crashed") /\ Fails(t)
        /\ UNCHANGED <<machineVars, opt, stage, seen, outcome, writes>>
    BY <1>9 DEF ReportRaises
  <2> QED
    BY <2>1, FailsType, GotoType DEF Types, machineVars, Falls
<1> QED
  BY <1>1, <1>2, <1>3, <1>4, <1>5, <1>6, <1>7, <1>8, <1>9 DEF ToolStep

\* Every tool keeps to its course.
LEMMA CourseStep ==
  ASSUME Types, Course, NEW t \in Tools, ToolStep(t)
  PROVE  Course'
<1>1. CASE Report(t)
  <2>1. stage'[t] = AfterReport(t) /\ AfterReport(t) \in StagesOf[t] \ {"fix"}
        /\ step'[t] = (IF AfterReport(t) = "done" THEN "done" ELSE "enable")
    BY <1>1, ReportEffect, GotoType DEF Types
  <2> QED
    BY <2>1, ToolEffect DEF Course, LookSteps, FixSteps
<1>2. CASE ~ Report(t)
  <2>1. stage' = stage
    BY <1>2 DEF ToolStep, ReadValue, ProbeListener, ProbePath, LeaveAlone, CallFix, FixReads,
       SetEnable, DeleteServer, Runs, ClearBlob, ReportRaises
  <2>2. step[t] # "done" /\ stage[t] # "done"
    BY <1>2 DEF ToolStep, ReadValue, ProbeListener, ProbePath, LeaveAlone, CallFix, FixReads,
       SetEnable, DeleteServer, ClearBlob, ReportRaises, Course
  <2>3. \/ step'[t] \in {"report", "crashed"}
        \/ step[t] \in LookSteps /\ step'[t] \in LookSteps \cup {"judge"}
        \/ step[t] = "judge" /\ step'[t] = "fixread" /\ stage[t] # "final"
        \/ step[t] \in FixSteps /\ step'[t] \in FixSteps
    <3>1. CASE ReadValue(t) \/ ProbeListener(t) \/ ProbePath(t)
      <4>1. step[t] \in LookSteps /\ Goto(t, Following[step[t]])
        BY <3>1 DEF ReadValue, ProbeListener, ProbePath, LookSteps
      <4>2. Following[step[t]] \in LookSteps \cup {"judge"}
        BY <4>1, FollowingIs DEF LookSteps
      <4> QED
        BY <4>1, <4>2, GotoType
    <3>2. CASE LeaveAlone(t) \/ ClearBlob(t) \/ ReportRaises(t)
      <4>1. \E s \in {"report", "crashed"} : Goto(t, s)
        BY <3>2 DEF LeaveAlone, ClearBlob, ReportRaises
      <4> QED
        BY <4>1, GotoType
    <3>3. CASE CallFix(t)
      <4>1. step[t] = "judge" /\ Goto(t, "fixread") /\ stage[t] # "final"
        BY <3>3 DEF CallFix, Clears
      <4> QED
        BY <4>1, GotoType
    <3>4. CASE FixReads(t)
      <4>1. step[t] = "fixread" /\ \E s \in {"disable", "report"} : Goto(t, s)
        BY <3>4 DEF FixReads
      <4> QED
        BY <4>1, GotoType DEF FixSteps
    <3>5. CASE SetEnable(t) \/ DeleteServer(t)
      <4>1. step[t] \in {"disable", "delete"} /\ Goto(t, Following[step[t]])
        BY <3>5, RunsEffect DEF SetEnable, DeleteServer
      <4> QED
        BY <4>1, FollowingIs, GotoType DEF FixSteps
    <3> QED
      BY <1>2, <3>1, <3>2, <3>3, <3>4, <3>5 DEF ToolStep
  <2>4. stage[t] \in StagesOf[t] /\ (step[t] \in LookSteps \cup {"judge"} => stage[t] # "fix")
        /\ (step[t] \in FixSteps => stage[t] # "final")
    BY DEF Course
  <2>5. /\ stage'[t] \in StagesOf[t]
        /\ stage'[t] = "done" <=> step'[t] = "done"
        /\ step'[t] \in LookSteps \cup {"judge"} => stage'[t] # "fix"
        /\ step'[t] \in FixSteps => stage'[t] # "final"
    BY <2>1, <2>2, <2>3, <2>4 DEF LookSteps, FixSteps
  <2> QED
    BY <2>5, ToolEffect DEF Course
<1> QED
  BY <1>1, <1>2

\* A step of a tool keeps Concluded.
LEMMA ConcludedStep ==
  ASSUME Types, Course, Concluded, NEW t \in Tools, ToolStep(t)
  PROVE  Concluded'
<1>1. opt' = opt /\ "ensure" \in Tools
  BY ToolEffect DEF Tools
<1>2. CASE t # "ensure"
  <2>1. step'["ensure"] = step["ensure"] /\ stage'["ensure"] = stage["ensure"]
    BY <1>1, <1>2, ToolEffect
  <2>2. outcome' = outcome
    <3>1. stage[t] \notin {"final", "again"}
      BY <1>2 DEF Course, StagesOf, Tools
    <3> QED
      BY <3>1, OutcomeType, RunsEffect, ReportEffect DEF ToolStep, ReadValue, ProbeListener,
         ProbePath, CallFix, FixReads, ClearBlob, ReportRaises
  <2> QED
    BY <1>1, <2>1, <2>2 DEF Concluded
<1>3. CASE t = "ensure"
  <2>1. CASE LeaveAlone(t)
    <3>1. stage' = stage /\ step'[t] = "report"
      BY <2>1, GotoType DEF LeaveAlone
    <3> QED
      BY <1>3, <2>1, <3>1, OutcomeType DEF Concluded
  <2>2. CASE Report(t)
    <3>1. step[t] = "report" /\ outcome' = outcome
      BY <2>2 DEF Report
    <3>2. step'[t] \in {"done", "enable"} /\ (step'[t] = "done" => stage[t] = "final")
      BY <1>3, <2>2, ReportEffect, GotoType
    <3> QED
      BY <1>1, <1>3, <3>1, <3>2 DEF Concluded
  <2>3. CASE ~ LeaveAlone(t) /\ ~ Report(t)
    <3>1. stage' = stage /\ step'[t] # "done"
      BY <2>3, CourseStep DEF ToolStep, ReadValue, ProbeListener, ProbePath, CallFix, FixReads,
         SetEnable, DeleteServer, Runs, ClearBlob, ReportRaises, Course
    <3>2. step'[t] = "report" => stage[t] # "final"
      <4>1. ReadValue(t) \/ ProbeListener(t) \/ ProbePath(t) => step'[t] # "report"
        <5>1. ReadValue(t) \/ ProbeListener(t) \/ ProbePath(t)
                => step[t] \in LookSteps /\ Goto(t, Following[step[t]])
          BY DEF ReadValue, ProbeListener, ProbePath, LookSteps
        <5> QED
          BY <5>1, FollowingIs, GotoType DEF LookSteps
      <4>2. CallFix(t) => step'[t] # "report"
        BY GotoType DEF CallFix
      <4>3. ReportRaises(t) => step'[t] # "report"
        BY GotoType DEF ReportRaises
      <4>4. FixReads(t) \/ SetEnable(t) \/ DeleteServer(t) \/ ClearBlob(t) => stage[t] # "final"
        BY DEF FixReads, SetEnable, DeleteServer, ClearBlob, Course, FixSteps
      <4> QED
        BY <2>3, <4>1, <4>2, <4>3, <4>4 DEF ToolStep
    <3> QED
      BY <1>3, <3>1, <3>2 DEF Concluded
  <2> QED
    BY <2>1, <2>2, <2>3
<1> QED
  BY <1>2, <1>3
Base == Types /\ Course /\ Concluded

\* The base invariant holds initially,
LEMMA BaseInit == Init => Base
<1> SUFFICES ASSUME Init
             PROVE  Base
  OBVIOUS
<1>1. PICK m \in Machines : reg = m.reg /\ manual = m.manual /\ listening = m.listening /\ works = m.works
  BY DEF Init
<1>2. reg \in Values /\ manual \in BOOLEAN /\ listening \in BOOLEAN /\ works \in BOOLEAN
  BY <1>1, DriftAssumption
<1>3. Types
  BY <1>2, BlankType, BoundsAreNat DEF Init, Types, LookSteps, FixSteps
<1>4. Course
  BY DEF Init, Course, StagesOf, Tools, LookSteps, FixSteps
<1>5. Concluded
  BY DEF Init, Concluded, Tools
<1> QED
  BY <1>3, <1>4, <1>5 DEF Base

\* every step keeps it,
LEMMA BaseStep ==
  ASSUME Base, [Next]_vars
  PROVE  Base'
<1>1. CASE OthersAct
  BY <1>1, OthersEffect DEF Base, Course, Concluded, toolVars
<1>2. ASSUME NEW t \in Tools, ToolStep(t) PROVE Base'
  BY <1>2, ToolEffect, CourseStep, ConcludedStep DEF Base
<1>3. CASE UNCHANGED vars
  BY <1>3 DEF vars, machineVars, toolVars, bounds, Base, Types, Course, Concluded
<1> QED
  BY <1>1, <1>2, <1>3 DEF Next

\* and so it always holds.
LEMMA BaseAlways == Spec => []Base
  BY BaseInit, BaseStep, PTL DEF Spec

\* The variables keep their types, and ensure-proxy-health never returns without a
\* verdict.
THEOREM DriftTypes == Spec => []TypeOK
<1>1. Base => TypeOK
  BY DEF Base, Types, Concluded, TypeOK, Sights
<1> QED
  BY <1>1, BaseAlways, PTL
-----------------------------------------------------------------------------
(* What a tool does to a world that held still since it began to look.       *)

\* apply_proxy_fix is run live only, and never on a corporate server by the tools that
\* look first; what it has found and done so far is still so.
Held(t) ==
    /\ step[t] \in FixSteps \ {"fixread"} => ~ opt[t].dry
    /\ ~ disturbed[t] =>
         /\ seen[t].server = "local" => reg.server # "corp"
         /\ step[t] \in FixSteps /\ t # "fix" => reg.server # "corp"
         /\ step[t] \in {"disable", "delete"} /\ reg.server = "local" => seen[t].server = "local"
         /\ step[t] \in {"delete", "blob"} => reg.enable = "0"
         /\ step[t] = "blob" => reg.server # "local"

\* Guardian and ensure have a reason to clear, from the look to the last command.
Justified(t) ==
    ~ disturbed[t] =>
      /\ step[t] \in {"path", "judge"} /\ seen[t].server = "local" /\ ~ seen[t].listen
           => ~ listening
      /\ step[t] = "judge" /\ seen[t].path \in {"only direct", "neither"}
           => ~ (listening /\ works)
      /\ step[t] \in FixSteps /\ t # "fix" => ~ listening \/ ToldToClear(t)

\* A step of another tool takes none of this away.
LEMMA HeldByOthers ==
  ASSUME Types, Course, NEW t \in Tools, NEW u \in Tools, t # u, ToolStep(u), Held(t), Justified(t)
  PROVE  Held(t)' /\ Justified(t)'
<1>1. step'[t] = step[t] /\ stage'[t] = stage[t] /\ seen'[t] = seen[t] /\ disturbed'[t] = disturbed[t]
      /\ UNCHANGED <<opt, listening, works>> /\ Falls
  BY ToolEffect
<1>2. Held(t)'
  BY <1>1 DEF Held, Falls, None
<1>3. Justified(t)'
  BY <1>1 DEF Justified, ToldToClear
<1> QED
  BY <1>2, <1>3

\* A read takes the value as it is: what was held before it is still held.
LEMMA HeldOnLook ==
  ASSUME Types, NEW t \in Tools, ReadValue(t) \/ ProbeListener(t) \/ ProbePath(t),
         Held(t), Justified(t)
  PROVE  Held(t)' /\ Justified(t)'
<1>1. step[t] \in LookSteps /\ Goto(t, Following[step[t]]) /\ UNCHANGED <<machineVars, opt>>
  BY DEF ReadValue, ProbeListener, ProbePath, LookSteps
<1>2. step'[t] = Following[step[t]]
  BY <1>1, GotoType
<1>3. step'[t] \notin FixSteps /\ reg' = reg /\ listening' = listening /\ works' = works
  BY SMTT(40), <1>1, <1>2, FollowingIs DEF LookSteps, FixSteps, machineVars
<1>4. CASE ReadValue(t)
  <2>1. step'[t] \notin {"path", "judge"} /\ step[t] \in {"enable", "server", "pac"}
    BY <1>2, <1>4, FollowingIs DEF ReadValue
  <2>2. ~ disturbed'[t] => ~ disturbed[t] /\ seen'[t] = [seen[t] EXCEPT ![step[t]] = reg[step[t]]]
    BY Zenon, <1>4, ReadEffect, FailsType
  <2>3. ~ disturbed'[t] => seen'[t].server \in {seen[t].server, reg.server}
    <3>1. seen[t] \in Sights
      BY DEF Types
    <3> QED
      BY ZenonT(40), <2>1, <2>2, <3>1 DEF Sights
  <2>4. ~ disturbed'[t] => (seen'[t].server = "local" => reg'.server # "corp")
    BY <1>3, <2>2, <2>3 DEF Held
  <2> QED
    BY <1>3, <2>1, <2>4 DEF Held, Justified, FixSteps
<1>5. CASE ProbeListener(t)
  <2>1. step[t] = "listen" /\ step'[t] = "path" /\ disturbed' = disturbed
    BY <1>2, <1>5, FollowingIs DEF ProbeListener
  <2>2. seen'[t] = [seen[t] EXCEPT !.listen = (seen[t].server = "local" /\ listening)]
    BY <1>5, ProbeEffect
  <2>3. seen'[t].server = seen[t].server
        /\ seen'[t].listen = (seen[t].server = "local" /\ listening)
    <3>1. seen[t] \in Sights
      BY DEF Types
    <3>2. DOMAIN seen[t] = {"enable", "server", "pac", "listen", "path"}
      BY <3>1 DEF Sights
    <3> QED
      BY <2>2, <3>2, Zenon
  <2> QED
    BY Zenon, <1>3, <2>1, <2>3 DEF Held, Justified, FixSteps
<1>6. CASE ProbePath(t)
  <2>1. step[t] = "path" /\ step'[t] = "judge" /\ disturbed' = disturbed
    BY <1>2, <1>6, FollowingIs DEF ProbePath
  <2>2. PICK p \in {"ok", "only direct", "neither", "unknown"} :
                 /\ seen'[t] = [seen[t] EXCEPT !.path = p]
                 /\ p \in {"only direct", "neither"} => ~ (listening /\ works)
    BY <1>6, ProbeEffect
  <2> seen[t] \in Sights
    BY DEF Types
  <2>3. seen'[t].server = seen[t].server /\ seen'[t].path = p
    BY <2>2 DEF Sights
  <2>4. seen'[t].listen <=> seen[t].listen
    BY <2>2 DEF Sights
  <2> QED
    BY <1>3, <2>1, <2>2, <2>3, <2>4 DEF Held, Justified, FixSteps
<1> QED
  BY <1>4, <1>5, <1>6

\* The judgement: apply_proxy_fix is called with a reason only.
LEMMA HeldOnCall ==
  ASSUME Types, Course, NEW t \in Tools, CallFix(t), Held(t), Justified(t)
  PROVE  Held(t)' /\ Justified(t)'
<1>1. step[t] = "judge" /\ step'[t] = "fixread" /\ Clears(t)
      /\ UNCHANGED <<machineVars, opt, disturbed>>
  BY GotoType DEF CallFix
<1>2. localhost(t)
  BY <1>1 DEF Clears, guardian_clears, dead, hold_hit, broken, is_dead_localhost_proxy,
     prefer_clears, should_prefer_clear
<1>3. seen'[t].server = "local"
  BY <1>2, JudgeEffect, BlankType DEF localhost, Sights
<1>4. ASSUME ~ disturbed[t], t # "fix" PROVE ~ listening \/ ToldToClear(t)
  <2>1. CASE dead(t)
    BY <1>1, <1>4, <2>1 DEF Justified, dead, localhost
  <2>2. CASE stage[t] = "guardian" /\ ~ dead(t)
    BY <1>1, <1>4, <2>2 DEF Clears, guardian_clears, hold_hit, broken, Justified, ToldToClear
  <2>3. CASE stage[t] = "fallback"
    BY <1>1, <2>1, <2>3 DEF Clears, is_dead_localhost_proxy
  <2>4. CASE stage[t] \in {"prefer", "again"}
    <3>1. t = "ensure"
      BY <1>4, <2>4 DEF Course, StagesOf, Tools
    <3> QED
      BY <1>1, <1>4, <2>4, <3>1 DEF Clears, prefer_clears, should_prefer_clear,
         is_broken_localhost_proxy, Justified, ToldToClear
  <2> QED
    BY <1>1, <2>1, <2>2, <2>3, <2>4 DEF Clears
<1>5. Held(t)'
  BY <1>1, <1>2, <1>3 DEF Held, machineVars, localhost, FixSteps
<1>6. Justified(t)'
  BY <1>1, <1>4 DEF Justified, ToldToClear, machineVars, FixSteps
<1> QED
  BY <1>5, <1>6
\* apply_proxy_fix, command by command.
LEMMA HeldOnFix ==
  ASSUME Types, NEW t \in Tools,
         FixReads(t) \/ SetEnable(t) \/ DeleteServer(t) \/ ClearBlob(t),
         Held(t), Justified(t)
  PROVE  Held(t)' /\ Justified(t)'
<1>1. step[t] \in FixSteps /\ UNCHANGED <<opt, listening, works>>
  BY RunsEffect DEF FixReads, SetEnable, DeleteServer, ClearBlob, FixSteps, machineVars
<1>2. ~ disturbed'[t] => ~ disturbed[t]
  BY Zenon, FixReadsEffect, RunsEffect, FailsType DEF ClearBlob
<1>3. step'[t] \notin {"path", "judge"}
  <2>1. \E s \in {"disable", "delete", "blob", "report"} : Goto(t, s)
    BY FollowingIs, RunsEffect DEF FixReads, SetEnable, DeleteServer, ClearBlob
  <2> QED
    BY <2>1, GotoType
<1>4. Justified(t)'
  BY <1>1, <1>2, <1>3 DEF Justified, ToldToClear
<1>5. CASE FixReads(t)
  <2>1. step[t] = "fixread" /\ reg' = reg /\ step'[t] = (IF fix_allowed(t) THEN "disable" ELSE "report")
    BY <1>5, GotoType DEF FixReads, machineVars
  <2>2. ~ disturbed'[t] => seen'[t].server = reg.server
    <3>1. ~ disturbed'[t] => seen'[t] = [seen[t] EXCEPT !.server = reg.server]
      BY Zenon, <1>5, FixReadsEffect, FailsType
    <3>2. seen[t] \in Sights
      BY DEF Types
    <3> QED
      BY <3>1, <3>2 DEF Sights
  <2>3. step'[t] = "disable" => ~ opt'[t].dry
    BY <1>1, <2>1 DEF fix_allowed
  <2> QED
    BY <1>1, <1>2, <1>4, <2>1, <2>2, <2>3 DEF Held, FixSteps
<1>6. CASE SetEnable(t)
  <2>1. step[t] = "disable" /\ step'[t] = "delete" /\ seen' = seen
    BY <1>6, RunsEffect, FollowingIs, GotoType DEF SetEnable
  <2>2. ~ disturbed'[t] => reg' = [reg EXCEPT !.enable = "0"]
    BY <1>6, FailsType DEF SetEnable, Runs
  <2>3. ~ disturbed'[t] => reg'.enable = "0" /\ reg'.server = reg.server
    BY <2>2 DEF Types, Values
  <2> QED
    BY <1>1, <1>2, <1>4, <2>1, <2>3 DEF Held, FixSteps
<1>7. CASE DeleteServer(t)
  <2>1. step[t] = "delete" /\ step'[t] = "blob" /\ seen' = seen
    BY <1>7, RunsEffect, FollowingIs, GotoType DEF DeleteServer
  <2>2. ~ disturbed'[t] => reg' = IF localhost(t) THEN [reg EXCEPT !.server = None] ELSE reg
    BY <1>7, FailsType DEF DeleteServer, Runs, machineVars
  <2>3. ~ disturbed'[t] => /\ reg'.enable = reg.enable
                           /\ reg'.server = IF localhost(t) THEN None ELSE reg.server
    BY <2>2 DEF Types, Values
  <2> QED
    BY <1>1, <1>2, <1>4, <2>1, <2>3 DEF Held, FixSteps, localhost, None
<1>8. CASE ClearBlob(t)
  <2>1. step'[t] = "report" /\ reg' = reg /\ seen' = seen
    BY SMTT(40), <1>8, GotoType DEF ClearBlob
  <2> QED
    BY <1>1, <1>2, <1>4, <2>1 DEF Held, FixSteps
<1> QED
  BY <1>5, <1>6, <1>7, <1>8

\* What is left: nothing to clear, the report, and the death of the guardian.
LEMMA HeldOnReport ==
  ASSUME Types, Course, NEW t \in Tools, LeaveAlone(t) \/ Report(t) \/ ReportRaises(t)
  PROVE  Held(t)' /\ Justified(t)'
<1>1. step'[t] \in {"report", "crashed", "done", "enable"}
  <2>1. \E s \in {"report", "crashed", "done", "enable"} : Goto(t, s)
    BY ReportEffect DEF LeaveAlone, ReportRaises
  <2> QED
    BY <2>1, GotoType
<1>2. ~ disturbed'[t] => seen'[t].server = None
  BY Zenon, JudgeEffect, BlankType, FailsType DEF ReportRaises
<1> QED
  BY <1>1, <1>2 DEF Held, Justified, FixSteps, None

AllHeld == \A t \in Tools : Held(t) /\ Justified(t)

\* Every step keeps what the tools hold true,
LEMMA HeldStep ==
  ASSUME Base, AllHeld, [Next]_vars
  PROVE  AllHeld'
<1> USE DEF Base
<1>1. CASE OthersAct
  <2>1. \A t \in Tools : disturbed'[t]
    BY <1>1, OthersEffect
  <2>2. opt' = opt /\ step' = step
    BY <1>1 DEF OthersAct, toolVars
  <2> QED
    BY <2>1, <2>2 DEF AllHeld, Held, Justified
<1>2. ASSUME NEW u \in Tools, ToolStep(u) PROVE AllHeld'
  <2> SUFFICES ASSUME NEW t \in Tools
               PROVE  Held(t)' /\ Justified(t)'
    BY DEF AllHeld
  <2>1. Held(t) /\ Justified(t)
    BY DEF AllHeld
  <2>2. CASE t # u
    BY <1>2, <2>1, <2>2, HeldByOthers
  <2>3. CASE t = u
    BY <1>2, <2>1, <2>3, HeldOnLook, HeldOnCall, HeldOnFix, HeldOnReport DEF ToolStep
  <2> QED
    BY <2>2, <2>3
<1>3. CASE UNCHANGED vars
  BY <1>3 DEF vars, machineVars, toolVars, AllHeld, Held, Justified, ToldToClear
<1> QED
  BY <1>1, <1>2, <1>3 DEF Next

\* and so they always hold it.
LEMMA HeldAlways == Spec => []AllHeld
<1>1. Init => AllHeld
  <2> SUFFICES ASSUME Init, NEW t \in Tools
               PROVE  Held(t) /\ Justified(t)
    BY DEF AllHeld
  <2>1. step[t] \in {"done", "fixread", "enable"} /\ seen[t] = Blank
        /\ (step[t] = "fixread" => t = "fix")
    BY DEF Init
  <2> QED
    BY <2>1, BlankType DEF Held, Justified, FixSteps, None
<1>2. Base /\ AllHeld /\ [Next]_vars => AllHeld'
  BY HeldStep
<1> QED
  BY <1>1, <1>2, BaseAlways, PTL DEF Spec

\* Only the tool itself leaves a step, and a step it leaves undisturbed succeeded.
LEMMA WhoseStep ==
  ASSUME Base, [Next]_vars, NEW t \in Tools, step'[t] # step[t]
  PROVE  ToolStep(t)
<1>1. ~ OthersAct /\ ~ UNCHANGED vars
  BY DEF OthersAct, vars, toolVars
<1> QED
  BY <1>1, ToolEffect DEF Next, Base

\* A tool whose world held still since it began to look never touches a corporate
\* proxy, unless it is the operator's proxy-fix, and guardian and ensure clear a
\* localhost proxy only if nobody serves it or they were told to.
THEOREM OnlyDeadIsCleared == Spec => ClearsOnlyDead
<1> DEFINE Cleared(t) ==
      (step[t] \in FixSteps /\ step'[t] # step[t] /\ reg' # reg /\ ~ disturbed'[t])
           => /\ ~ opt[t].dry
              /\ reg.server = "corp" => t = "fix" /\ reg'.server = "corp"
              /\ t # "fix" => ~ listening \/ ToldToClear(t)
<1>1. ASSUME Base, AllHeld, [Next]_vars, NEW t \in Tools
      PROVE  Cleared(t)
  <2> SUFFICES ASSUME step[t] \in FixSteps, step'[t] # step[t], reg' # reg, ~ disturbed'[t]
               PROVE  /\ ~ opt[t].dry
                      /\ reg.server = "corp" => t = "fix" /\ reg'.server = "corp"
                      /\ t # "fix" => ~ listening \/ ToldToClear(t)
    OBVIOUS
  <2>1. ToolStep(t)
    BY <1>1, WhoseStep
  <2>2. SetEnable(t) \/ DeleteServer(t)
    BY <2>1 DEF ToolStep, ReadValue, ProbeListener, ProbePath, LeaveAlone, CallFix, FixReads,
       ClearBlob, Report, ReportRaises, machineVars
  <2>3. ~ disturbed[t]
    BY <1>1, <2>2, RunsEffect, FailsType DEF Base
  <2>4. Held(t) /\ Justified(t)
    BY <1>1 DEF AllHeld
  <2>5. ~ opt[t].dry
    BY <2>2, <2>4 DEF Held, SetEnable, DeleteServer, FixSteps
  <2>6. t # "fix" => (~ listening \/ ToldToClear(t)) /\ reg.server # "corp"
    BY <2>3, <2>4 DEF Held, Justified
  <2>7. ASSUME reg.server = "corp" PROVE reg'.server = "corp"
    <3>1. ~ localhost(t)
      BY <2>3, <2>4, <2>7 DEF Held, localhost
    <3>2. reg' = reg \/ reg' = [reg EXCEPT !.enable = "0"]
      BY <2>2, <3>1 DEF SetEnable, DeleteServer, Runs, machineVars
    <3> QED
      BY <1>1, <2>7, <3>2 DEF Base, Types, Values
  <2> QED
    BY <2>5, <2>6, <2>7
<1>2. Base /\ AllHeld /\ [Next]_vars => [\A t \in Tools : Cleared(t)]_vars
  BY <1>1
<1> QED
  BY <1>2, BaseAlways, HeldAlways, PTL DEF Spec, ClearsOnlyDead

\* When apply_proxy_fix has run in a world that held still, no localhost proxy is left
\* in ProxyEnable, in ProxyServer or in the Connections blob.
THEOREM FixLeavesNothing == Spec => FixIsComplete
<1> DEFINE Complete(t) == (step[t] = "blob" /\ step'[t] # "blob" /\ ~ disturbed'[t])
                            => reg.enable = "0" /\ reg.server # "local" /\ ~ manual'
<1>1. ASSUME Base, AllHeld, [Next]_vars, NEW t \in Tools
      PROVE  Complete(t)
  <2> SUFFICES ASSUME step[t] = "blob", step'[t] # "blob", ~ disturbed'[t]
               PROVE  reg.enable = "0" /\ reg.server # "local" /\ ~ manual'
    OBVIOUS
  <2>1. ToolStep(t)
    BY <1>1, WhoseStep
  <2>2. ClearBlob(t)
    BY <2>1 DEF ToolStep, ReadValue, ProbeListener, ProbePath, LeaveAlone, CallFix, FixReads,
       SetEnable, DeleteServer, Report, ReportRaises
  <2>3. manual' = FALSE /\ disturbed' = disturbed
    BY <1>1, <2>2, FailsType DEF ClearBlob, Base
  <2>4. Held(t)
    BY <1>1 DEF AllHeld
  <2> QED
    BY <2>3, <2>4 DEF Held
<1>2. Base /\ AllHeld /\ [Next]_vars => [\A t \in Tools : Complete(t)]_vars
  BY <1>1
<1> QED
  BY <1>2, BaseAlways, HeldAlways, PTL DEF Spec, FixIsComplete

-----------------------------------------------------------------------------
(* What ensure-proxy-health may be believed.                                 *)

\* When nothing hindered it: what is enabled now was seen enabled, a proxy reported
\* healthy is not a localhost one, and a dead proxy is still to be cleared.
EnsureSees ==
    writes = 0 /\ failures = 0 =>
      /\ step["ensure"] \in {"server", "pac", "listen", "path", "judge"} /\ reg.enable = "1"
           => seen["ensure"].enable = "1"
      /\ step["ensure"] \in {"pac", "listen", "path", "judge"} /\ reg.server = "local"
           => seen["ensure"].server = "local"
      /\ seen["ensure"].listen => listening
      /\ outcome = "healthy" => ~ (reg.enable = "1" /\ reg.server = "local")
      /\ opt["ensure"].run /\ ~ opt["ensure"].dry /\ DeadProxy =>
           /\ stage["ensure"] = "guardian"
           /\ step["ensure"] \in LookSteps \cup {"judge", "fixread", "disable"}

\* A step without a failure had none before it either.
LEMMA FailureStays ==
  ASSUME Types, NEW t \in Tools, ToolStep(t), failures' = 0
  PROVE  failures = 0 /\ ~ Fails(t)
<1>1. failures' = failures \/ Fails(t)
  BY ReadEffect, FixReadsEffect, RunsEffect DEF ToolStep, ProbeListener, ProbePath, LeaveAlone,
     CallFix, ClearBlob, Report, ReportRaises, bounds
<1> QED
  BY <1>1, FailsType

\* Only the last two looks of ensure-proxy-health set the outcome.
LEMMA OutcomeKept ==
  ASSUME Types, Course, NEW t \in Tools, ToolStep(t), outcome' # outcome
  PROVE  LeaveAlone(t) /\ t = "ensure"
<1>1. LeaveAlone(t) /\ stage[t] \in {"final", "again"}
  BY OutcomeType, RunsEffect, ReportEffect DEF ToolStep, ReadValue, ProbeListener,
     ProbePath, CallFix, FixReads, ClearBlob, ReportRaises
<1> QED
  BY <1>1 DEF Course, StagesOf, Tools

\* While values are only removed, a proxy that is dead was dead before.
LEMMA DeadStays ==
  ASSUME Falls, listening' = listening, DeadProxy'
  PROVE  DeadProxy
  BY DEF Falls, DeadProxy, None

\* The looks of ensure-proxy-health.
LEMMA EnsureLooks ==
  ASSUME Types, Course, EnsureSees, writes' = writes, failures' = 0,
         ReadValue("ensure") \/ ProbeListener("ensure") \/ ProbePath("ensure")
  PROVE  EnsureSees'
<1> DEFINE e == "ensure"
<1>1. e \in Tools /\ seen[e] \in Sights /\ ToolStep(e)
  BY DEF Tools, Types, ToolStep
<1>2. failures = 0 /\ ~ Fails(e)
  BY <1>1, FailureStays
<1>3. step[e] \in LookSteps /\ Goto(e, Following[step[e]]) /\ UNCHANGED <<machineVars, opt, stage, outcome>>
  BY DEF ReadValue, ProbeListener, ProbePath, LookSteps
<1>4. step'[e] = Following[step[e]]
  BY <1>1, <1>3, GotoType
<1>5. reg' = reg /\ listening' = listening /\ (DeadProxy' <=> DeadProxy)
  BY <1>3 DEF machineVars, DeadProxy
<1>6. step'[e] \in LookSteps \cup {"judge"}
  BY SMTT(40), <1>3, <1>4, FollowingIs DEF LookSteps
<1>7. CASE ReadValue(e)
  <2>1. seen'[e] = [seen[e] EXCEPT ![step[e]] = reg[step[e]]] /\ step[e] \in {"enable", "server", "pac"}
    BY Zenon, <1>1, <1>2, <1>7, ReadEffect DEF ReadValue
  <2>2. /\ step[e] = "enable" => seen'[e].enable = reg.enable
        /\ step[e] # "enable" => seen'[e].enable = seen[e].enable
        /\ step[e] = "server" => seen'[e].server = reg.server
        /\ step[e] # "server" => seen'[e].server = seen[e].server
    BY <1>1, <2>1 DEF Sights
  <2>3. seen'[e].listen <=> seen[e].listen
    BY <1>1, <2>1 DEF Sights
  <2>4. /\ step[e] = "enable" => step'[e] = "server"
        /\ step[e] = "server" => step'[e] = "pac"
        /\ step[e] = "pac" => step'[e] = "listen"
    BY <1>4, FollowingIs
  <2> QED
    BY <1>2, <1>3, <1>5, <1>6, <2>1, <2>2, <2>3, <2>4 DEF EnsureSees
<1>8. CASE ProbeListener(e) \/ ProbePath(e)
  <2>1. step[e] \in {"listen", "path"} /\ step'[e] \in {"path", "judge"}
    BY <1>4, <1>8, FollowingIs DEF ProbeListener, ProbePath
  <2>2. /\ seen'[e].enable = seen[e].enable /\ seen'[e].server = seen[e].server
        /\ seen'[e].listen => seen[e].listen \/ listening
    <3>1. CASE ProbeListener(e)
      <4>1. seen'[e] = [seen[e] EXCEPT !.listen = (seen[e].server = "local" /\ listening)]
        BY <1>1, <3>1, ProbeEffect
      <4> QED
        BY <1>1, <4>1 DEF Sights
    <3>2. CASE ProbePath(e)
      <4>1. PICK p \in {"ok", "only direct", "neither", "unknown"} :
              seen'[e] = [seen[e] EXCEPT !.path = p]
        BY <1>1, <3>2, ProbeEffect
      <4> QED
        BY <1>1, <4>1 DEF Sights
    <3> QED
      BY <1>8, <3>1, <3>2
  <2> QED
    BY <1>2, <1>3, <1>5, <1>6, <2>1, <2>2 DEF EnsureSees
<1> QED
  BY <1>7, <1>8

\* The judgement of a look.
LEMMA EnsureJudges ==
  ASSUME Types, Course, EnsureSees, writes' = writes, failures' = 0,
         LeaveAlone("ensure") \/ CallFix("ensure")
  PROVE  EnsureSees'
<1> DEFINE e == "ensure"
<1>1. e \in Tools /\ opt \in Options
  BY DEF Tools, Types
<1>2. step[e] = "judge" /\ UNCHANGED <<machineVars, opt, stage, failures>>
  BY DEF LeaveAlone, CallFix, bounds
<1>3. reg' = reg /\ listening' = listening /\ (DeadProxy' <=> DeadProxy)
  BY <1>2 DEF machineVars, DeadProxy
<1>4. seen'[e].listen = FALSE
  <2>1. seen'[e] = Blank \/ seen'[e] = [Blank EXCEPT !.server = seen[e].server]
    BY <1>1, JudgeEffect
  <2> QED
    BY <2>1 DEF Blank
<1>5. CASE LeaveAlone(e)
  <2>1. step'[e] = "report" /\ ~ Clears(e)
    BY <1>1, <1>5, GotoType DEF LeaveAlone
  <2>2. ASSUME writes = 0, outcome' = "healthy"
        PROVE  ~ (reg.enable = "1" /\ reg.server = "local")
    <3>1. CASE outcome = "healthy"
      BY <1>2, <2>2, <3>1 DEF EnsureSees
    <3>2. CASE outcome # "healthy"
      <4>1. Verdict(e) = "healthy"
        BY <1>5, <2>2, <3>2 DEF LeaveAlone
      <4>2. ~ (enabled(e) /\ localhost(e))
        BY <4>1 DEF Verdict
      <4> QED
        BY <1>2, <2>2, <4>2 DEF EnsureSees, enabled, localhost
    <3> QED
      BY <3>1, <3>2
  <2>3. ASSUME writes = 0, opt[e].run, ~ opt[e].dry, DeadProxy
        PROVE  FALSE
    <3>1. stage[e] = "guardian" /\ enabled(e) /\ localhost(e) /\ ~ seen[e].listen
      BY <1>2, <2>3 DEF EnsureSees, DeadProxy, enabled, localhost
    <3>2. opt[e].confirm
      BY <1>1, <2>3, EnsureAssumption
    <3> QED
      BY <2>1, <2>3, <3>1, <3>2 DEF Clears, guardian_clears, dead
  <2> QED
    BY <1>2, <1>3, <1>4, <2>1, <2>2, <2>3 DEF EnsureSees
<1>6. CASE CallFix(e)
  <2>1. step'[e] = "fixread" /\ outcome' = outcome
    BY <1>1, <1>6, GotoType DEF CallFix
  <2> QED
    BY <1>2, <1>3, <1>4, <2>1 DEF EnsureSees
<1> QED
  BY <1>5, <1>6

\* The fix and the report of ensure-proxy-health.
LEMMA EnsureFixes ==
  ASSUME Types, Course, EnsureSees, writes' = writes, failures' = 0, ToolStep("ensure"),
         \/ FixReads("ensure") \/ SetEnable("ensure") \/ DeleteServer("ensure")
         \/ ClearBlob("ensure") \/ Report("ensure") \/ ReportRaises("ensure")
  PROVE  EnsureSees'
<1> DEFINE e == "ensure"
<1>1. e \in Tools /\ opt \in Options
  BY DEF Tools, Types
<1>2. failures = 0 /\ ~ Fails(e)
  BY <1>1, FailureStays
<1>3. opt' = opt /\ listening' = listening /\ Falls
  BY <1>1, ToolEffect
<1>4. outcome' = outcome
  BY <1>1, RunsEffect DEF FixReads, ClearBlob, Report, ReportRaises
<1>5. step'[e] \notin {"server", "pac", "listen", "path", "judge"}
  <2>1. \E s \in {"disable", "delete", "blob", "report", "done", "enable", "crashed"} : Goto(e, s)
    BY <1>1, FollowingIs, RunsEffect, ReportEffect
       DEF FixReads, SetEnable, DeleteServer, ClearBlob, ReportRaises
  <2> QED
    BY <1>1, <2>1, GotoType
<1>6. seen'[e].listen => seen[e].listen
  <2>1. CASE FixReads(e)
    <3>1. seen'[e] = [seen[e] EXCEPT !.server = reg.server] /\ seen[e] \in Sights
      BY Zenon, <1>1, <1>2, <2>1, FixReadsEffect DEF Types
    <3> QED
      BY <3>1 DEF Sights
  <2>2. CASE Report(e)
    BY Zenon, <1>1, <2>2, JudgeEffect, BlankType
  <2>3. CASE SetEnable(e) \/ DeleteServer(e) \/ ClearBlob(e) \/ ReportRaises(e)
    BY <1>1, <2>3, RunsEffect DEF ClearBlob, ReportRaises
  <2> QED
    BY <2>1, <2>2, <2>3
<1>7. ASSUME writes = 0, opt[e].run, ~ opt[e].dry, DeadProxy'
      PROVE  stage'[e] = "guardian" /\ step'[e] = "disable"
  <2>1. stage[e] = "guardian" /\ step[e] \in LookSteps \cup {"judge", "fixread", "disable"}
    BY <1>2, <1>3, <1>7, DeadStays DEF EnsureSees
  <2>2. FixReads(e) \/ SetEnable(e)
    BY <2>1 DEF FixReads, SetEnable, DeleteServer, ClearBlob, Report, ReportRaises, LookSteps
  <2>3. ~ SetEnable(e)
    <3>1. SetEnable(e) => reg' = [reg EXCEPT !.enable = "0"]
      BY <1>2 DEF SetEnable, Runs
    <3>2. SetEnable(e) => reg'.enable = "0"
      BY <3>1 DEF Types, Values
    <3> QED
      BY <1>7, <3>2 DEF DeadProxy
  <2>4. fix_allowed(e)
    BY <1>1, <1>7, EnsureAssumption DEF fix_allowed, required_confirm, validate_action_confirmation
  <2> QED
    BY <1>1, <2>1, <2>2, <2>3, <2>4, GotoType DEF FixReads
<1>8. ASSUME writes = 0, outcome = "healthy" PROVE ~ (reg'.enable = "1" /\ reg'.server = "local")
  BY <1>2, <1>3, <1>8 DEF EnsureSees, Falls, None
<1> QED
  BY <1>2, <1>3, <1>4, <1>5, <1>6, <1>7, <1>8 DEF EnsureSees

\* Every step keeps what ensure-proxy-health has seen true.
LEMMA EnsureStep ==
  ASSUME Base, EnsureSees, [Next]_vars
  PROVE  EnsureSees'
<1> USE DEF Base
<1>1. CASE OthersAct
  BY <1>1, OthersEffect DEF EnsureSees
<1>2. ASSUME NEW t \in Tools, ToolStep(t) PROVE EnsureSees'
  <2> SUFFICES ASSUME failures' = 0
               PROVE  EnsureSees'
    BY DEF EnsureSees
  <2>1. CASE t = "ensure"
    <3>1. writes' = writes
      BY <1>2, ToolEffect
    <3> QED
      BY <1>2, <2>1, <3>1, EnsureLooks, EnsureJudges, EnsureFixes DEF ToolStep
  <2>2. CASE t # "ensure"
    <3>1. step'["ensure"] = step["ensure"] /\ stage'["ensure"] = stage["ensure"]
          /\ seen'["ensure"] = seen["ensure"] /\ UNCHANGED <<opt, listening, writes>> /\ Falls
      BY <1>2, <2>2, ToolEffect DEF Tools
    <3>2. failures = 0 /\ outcome' = outcome
      BY <1>2, <2>2, FailureStays, OutcomeKept
    <3> QED
      BY <3>1, <3>2, DeadStays DEF EnsureSees, Falls, None
  <2> QED
    BY <2>1, <2>2
<1>3. CASE UNCHANGED vars
  BY <1>3 DEF vars, machineVars, toolVars, bounds, EnsureSees, DeadProxy
<1> QED
  BY <1>1, <1>2, <1>3 DEF Next

\* An ensure-proxy-health that nothing hindered tells the truth, whatever the guardian
\* and the operator's proxy-fix do at the same time.
THEOREM EnsureTellsTruth == Spec => []EnsureIsHonest
<1>1. Init => EnsureSees
  <2> SUFFICES ASSUME Init
               PROVE  EnsureSees
    OBVIOUS
  <2>1. "ensure" \in Tools /\ seen["ensure"] = Blank /\ outcome = "none"
    BY DEF Init, Tools
  <2>2. step["ensure"] \in {"done", "enable"}
        /\ (opt["ensure"].run => stage["ensure"] = "guardian" /\ step["ensure"] = "enable")
    BY <2>1 DEF Init
  <2> QED
    BY <2>1, <2>2, BlankType DEF EnsureSees, LookSteps
<1>2. Base /\ EnsureSees /\ [Next]_vars => EnsureSees'
  BY EnsureStep
<1>3. EnsureSees => EnsureIsHonest
  BY DEF EnsureSees, EnsureIsHonest, LookSteps
<1> QED
  BY <1>1, <1>2, <1>3, BaseAlways, PTL DEF Spec
=============================================================================
