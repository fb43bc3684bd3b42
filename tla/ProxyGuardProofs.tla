-------------------------- MODULE ProxyGuardProofs --------------------------
(***************************************************************************)
(* Proofs about the Proxy Guard loop, for every set of registry values, of  *)
(* configurations and of limits.                                            *)
(***************************************************************************)
EXTENDS ProxyGuard, RollbackLimiterProofs

\* The loop takes the limiter's steps and no others: evaluate before a rollback,
\* record_rollback or nothing after it.
THEOREM LoopUsesLimiter == Spec => UsesLimiter
<1>1. Init => LimiterInit
  BY DEF Init
<1>2. [Next]_vars => [LimiterNext]_(limiterVars)
  <2> SUFFICES ASSUME [Next]_vars
               PROVE  LimiterNext \/ UNCHANGED limiterVars
    OBVIOUS
  <2>1. CASE Suppress
    BY <2>1 DEF Suppress, LimiterNext
  <2>2. CASE StartRollback
    BY <2>2 DEF StartRollback, LimiterNext
  <2>3. CASE FinishRestore
    BY <2>3 DEF FinishRestore, LimiterNext
  <2>4. CASE PreviewRestore
    BY <2>4 DEF PreviewRestore, LimiterNext
  <2>5. CASE TimePasses
    BY <2>5 DEF TimePasses, LimiterNext
  <2>6. CASE UNCHANGED limiterVars
    BY <2>6
  <2>7. ReadValue \/ ReadFails \/ ProbeRetry \/ Baseline \/ NoChange \/ Adopt
          \/ RestoreValue \/ RestoreFails \/ Conclude \/ OtherWrites
          \/ UNCHANGED vars => UNCHANGED limiterVars
    BY DEF ReadValue, ReadFails, ReadAs, ProbeRetry, Baseline, NoChange, Adopt,
           RestoreValue, RestoreFails, RunCommand, Conclude, OtherWrites, vars
  <2> QED
    BY <2>1, <2>2, <2>3, <2>4, <2>5, <2>6, <2>7 DEF Next, GuardStep
<1> QED
  BY <1>1, <1>2, PTL DEF Spec, UsesLimiter, LimiterSpec

\* In the loop too, rollbacks keep the cooldown and never exceed the window's
\* maximum.
THEOREM RollbackRate == Spec => [](WindowBound /\ CooldownSpacing)
  BY LoopUsesLimiter, WindowIsBounded, CooldownIsKept, PTL DEF UsesLimiter

\* Only a command of a live rollback changes the registry, and its gate has
\* looked at the flags and the phrase; the configuration never changes.
THEOREM WritesAreConsented == Spec => []ConsentedWrites
<1>1. Init => ConsentedWrites
  BY DEF Init, ConsentedWrites
<1>2. ConsentedWrites /\ [Next]_vars => ConsentedWrites'
  <2> SUFFICES ASSUME ConsentedWrites, [Next]_vars
               PROVE  ConsentedWrites'
    OBVIOUS
  <2>1. CASE RestoreValue \/ RestoreFails
    BY Zenon, <2>1 DEF RestoreValue, RestoreFails, RunCommand, RunsCommands,
               live_rollback_gate, effective_rollback, confirm_required,
               ConsentedWrites
  <2>2. CASE UNCHANGED <<cfg, wrote>>
    BY <2>2 DEF ConsentedWrites
  <2>3. ReadValue \/ ReadFails \/ ProbeRetry \/ Baseline \/ NoChange \/ Adopt
          \/ Suppress \/ StartRollback \/ FinishRestore \/ PreviewRestore
          \/ Conclude \/ OtherWrites \/ TimePasses \/ UNCHANGED vars
        => UNCHANGED <<cfg, wrote>>
    BY DEF ReadValue, ReadFails, ReadAs, ProbeRetry, Baseline, NoChange, Adopt,
           Suppress, StartRollback, FinishRestore, PreviewRestore, Conclude,
           OtherWrites, TimePasses, vars, loopVars, historyVars
  <2> QED
    BY <2>1, <2>2, <2>3 DEF Next, GuardStep
<1> QED
  BY <1>1, <1>2, PTL DEF Spec
-----------------------------------------------------------------------------
(* Types.                                                                    *)

\* The steps of the loop and of the world, as one disjunction.
LEMMA StepCases ==
  ASSUME [Next]_vars
  PROVE  \/ ReadValue \/ ReadFails \/ ProbeRetry \/ Baseline \/ NoChange \/ Adopt \/ Suppress
         \/ StartRollback \/ RestoreValue \/ RestoreFails \/ FinishRestore \/ PreviewRestore
         \/ Conclude \/ OtherWrites \/ TimePasses \/ UNCHANGED vars
  BY DEF Next, GuardStep

\* The order of the queries and of the commands, item by item.
LEMMA Orders ==
  /\ Len(ReadOrder) = 5 /\ Len(RestoreOrder) = 4
  /\ ReadOrder[1] = "enable" /\ ReadOrder[2] = "server" /\ ReadOrder[3] = "pac"
  /\ ReadOrder[4] = "detect" /\ ReadOrder[5] = "override"
  /\ RestoreOrder[1] = "server" /\ RestoreOrder[2] = "pac" /\ RestoreOrder[3] = "override"
  /\ RestoreOrder[4] = "enable"
  BY DEF ReadOrder, RestoreOrder

\* The orders of reading and of restoring name registry values.
LEMMA OrdersAreFields ==
  /\ \A i \in 1 .. 5 : ReadOrder[i] \in Fields
  /\ \A i \in 1 .. 4 : RestoreOrder[i] \in Fields
  BY Orders DEF Fields

\* The bounds are naturals, and a window admits at least one attempt.
LEMMA BoundsAreNat ==
  MaxWrites \in Nat /\ MaxProbeFailures \in Nat /\ MaxCmdFailures \in Nat
    /\ MaxAttempts \in Nat \ {0}
  BY GuardAssumption

\* Snapshots are functions on the fields, and stay so when one value is set.
LEMMA SnapshotType ==
  /\ Unread \in Snapshots /\ KnownGood \in Snapshots /\ NoSnapshot \notin Snapshots
  /\ \A s \in Snapshots : /\ DOMAIN s = Fields /\ s = [f \in Fields |-> s[f]]
                          /\ \A f \in Fields : s[f] \in Values[f]
  /\ \A s \in Snapshots, f \in Fields : \A v \in Values[f] : [s EXCEPT ![f] = v] \in Snapshots
<1>1. \A f \in Fields : None \in Values[f]
  BY GuardAssumption
<1>2. Unread \in Snapshots
  BY <1>1 DEF Unread, Snapshots
<1>3. ASSUME NEW s \in Snapshots
      PROVE  /\ DOMAIN s = Fields /\ s = [f \in Fields |-> s[f]]
             /\ \A f \in Fields : s[f] \in Values[f]
  BY DEF Snapshots
<1>4. ASSUME NEW s \in Snapshots, NEW f \in Fields, NEW v \in Values[f]
      PROVE  [s EXCEPT ![f] = v] \in Snapshots
  <2>1. [s EXCEPT ![f] = v] = [g \in Fields |-> IF g = f THEN v ELSE s[g]]
    BY <1>3
  <2>2. \A g \in Fields : (IF g = f THEN v ELSE s[g]) \in Values[g]
    BY <1>3
  <2> QED
    BY <2>1, <2>2 DEF Snapshots
<1> QED
  BY <1>2, <1>3, <1>4, GuardAssumption

\* A query reads a value or None, and the snapshot stays a snapshot.
LEMMA ReadType ==
  ASSUME TypeOK, NEW v, ReadAs(v), v = None \/ v = reg[ReadOrder[k + 1]]
  PROVE  snap' \in Snapshots /\ k' \in 0 .. 5
<1>1. k \in 0 .. 4 /\ k' = k + 1 /\ snap' = [snap EXCEPT ![ReadOrder[k + 1]] = v]
  BY Orders DEF ReadAs, TypeOK
<1>2. ReadOrder[k + 1] \in Fields
  BY <1>1, OrdersAreFields
<1>3. v \in Values[ReadOrder[k + 1]]
  <2>1. None \in Values[ReadOrder[k + 1]]
    BY <1>2, GuardAssumption
  <2>2. reg \in Snapshots
    BY DEF TypeOK
  <2> QED
    BY <1>2, <2>1, <2>2, SnapshotType
<1>4. snap \in Snapshots
  BY DEF TypeOK
<1>5. [snap EXCEPT ![ReadOrder[k + 1]] = v] \in Snapshots
  BY <1>2, <1>3, <1>4, SnapshotType, Zenon
<1> QED
  BY <1>1, <1>5

\* A restore command sets one value of the registry to that of the target.
LEMMA CommandType ==
  ASSUME TypeOK, RunCommand
  PROVE  /\ k \in 0 .. 3 /\ Command \in Fields
         /\ target \in Snapshots
         /\ Restored \in Snapshots
<1>1. k \in 0 .. 3 /\ pc = "restore"
  BY Orders DEF RunCommand, TypeOK
<1>2. Command \in Fields
  BY <1>1, OrdersAreFields DEF Command
<1>3. target \in Snapshots
  BY <1>1 DEF TypeOK
<1>4. target[Command] \in Values[Command]
  BY <1>2, <1>3, SnapshotType
<1>5. Restored \in Snapshots
  BY Zenon, <1>2, <1>4, SnapshotType DEF Restored, TypeOK
<1> QED
  BY <1>1, <1>2, <1>3, <1>5

\* Every step of the guard keeps the types.
LEMMA TypeStep ==
  ASSUME TypeOK, LimiterTypeOK, [Next]_vars
  PROVE  TypeOK'
<1> USE SnapshotType
<1>1. Probing => pc \in {"read", "reread"}
  BY DEF Probing
<1>2. ASSUME ReadValue \/ ReadFails PROVE TypeOK'
  <2>1. PICK v : ReadAs(v) /\ (v = None \/ v = reg[ReadOrder[k + 1]])
    BY <1>2 DEF ReadValue, ReadFails
  <2>2. snap' \in Snapshots /\ k' \in 0 .. 5
    BY <2>1, ReadType
  <2>3. probeFailures' \in 0 .. MaxProbeFailures
    BY <1>2, BoundsAreNat DEF ReadValue, ReadFails, TypeOK
  <2>4. disturbed' \in BOOLEAN
    BY <1>2, Zenon DEF ReadValue, ReadFails, TypeOK
  <2> QED
    BY <2>1, <2>2, <2>3, <2>4, Orders DEF ReadAs, TypeOK, restoreVars, limiterVars
<1>3. ASSUME ProbeRetry PROVE TypeOK'
  BY <1>3, Orders, BoundsAreNat
     DEF ProbeRetry, TypeOK, restoreVars, historyVars, bounds, limiterVars
<1>4. ASSUME StartProbe PROVE k' \in 0 .. 5 /\ attempt' \in 1 .. MaxAttempts /\ snap' \in Snapshots
  BY <1>4, BoundsAreNat DEF StartProbe
<1>5. ASSUME pc = "read", Polled \/ Handled, reg' = reg, cfg' = cfg, granted' = granted,
             prior' \in Snapshots \cup {NoSnapshot}, target' = target,
             lkg' \in Snapshots \cup {NoSnapshot},
             last' \in {"none", "rollback_skipped", "rollback_preview", "rollback_applied",
                        "rollback_failed"},
             UNCHANGED <<cmdsOk, historyVars, bounds>>
      PROVE  TypeOK'
  <2>1. StartProbe /\ pc' \in {"read", "stopped"} /\ events' \in Nat
    BY <1>5 DEF Polled, Handled, TypeOK
  <2> QED
    BY <1>4, <1>5, <2>1, Orders DEF TypeOK, historyVars, bounds
<1>6. ASSUME Baseline \/ NoChange \/ Adopt \/ Suppress PROVE TypeOK'
  <2>1. pc = "read" /\ snap \in Snapshots /\ prior \in Snapshots \cup {NoSnapshot}
    BY <1>6 DEF Baseline, NoChange, Adopt, Suppress, Blocked, Changed, TypeOK
  <2>2. (Polled \/ Handled) /\ reg' = reg /\ cfg' = cfg /\ target' = target
        /\ UNCHANGED <<cmdsOk, historyVars, bounds>>
    BY <1>6 DEF Baseline, NoChange, Adopt, Suppress, restoreVars
  <2>3. granted' = granted
    BY <1>6 DEF Baseline, NoChange, Adopt, Suppress, RefuseCooldown, RefuseWindow, limiterVars
  <2>4. prior' \in {prior, snap} /\ lkg' \in {lkg, snap}
    BY <1>6 DEF Baseline, NoChange, Adopt, Suppress
  <2>5. last' \in {last, "rollback_skipped", "rollback_preview"}
    BY <1>6 DEF Baseline, NoChange, Adopt, Suppress
  <2> QED
    BY <1>5, <2>1, <2>2, <2>3, <2>4, <2>5 DEF TypeOK
<1>7. ASSUME StartRollback PROVE TypeOK'
  <2>1. target' \in Snapshots
    BY <1>7 DEF StartRollback, Blocked, Changed, TypeOK
  <2>2. StartProbe /\ pc' = "restore" /\ granted' = TRUE /\ cmdsOk' = TRUE /\ disturbed' = FALSE
    BY <1>7 DEF StartRollback, Grant
  <2>3. UNCHANGED <<reg, cfg, prior, lkg, last, events, wrote, bounds>>
    BY <1>7 DEF StartRollback
  <2> QED
    BY Zenon, <1>4, <2>1, <2>2, <2>3, Orders DEF TypeOK, bounds
<1>8. ASSUME RestoreValue \/ RestoreFails PROVE TypeOK'
  <2>1. RunCommand
    BY <1>8 DEF RestoreValue, RestoreFails
  <2>2. reg' \in Snapshots
    BY <1>8, <2>1, CommandType DEF RestoreValue, RestoreFails, TypeOK
  <2>3. cmdsOk' \in BOOLEAN /\ wrote' \in BOOLEAN
    BY Zenon, <1>8, <2>1 DEF RestoreValue, RestoreFails, RunCommand, TypeOK
  <2>4. cmdFailures' \in 0 .. MaxCmdFailures
    BY <1>8, BoundsAreNat DEF RestoreValue, RestoreFails, TypeOK
  <2>5. k' \in 0 .. 5
    BY <2>1, CommandType DEF RunCommand
  <2> QED
    BY <2>1, <2>2, <2>3, <2>4, <2>5, Orders DEF RunCommand, TypeOK, limiterVars
<1>9. ASSUME FinishRestore \/ PreviewRestore PROVE TypeOK'
  <2>1. StartProbe /\ pc' = "reread" /\ granted' = FALSE
    BY <1>9 DEF FinishRestore, PreviewRestore, Record, Forgo
  <2>2. UNCHANGED <<reg, cfg, prior, lkg, last, events, target, historyVars, writes, probeFailures>>
    BY <1>9 DEF FinishRestore, PreviewRestore, restoreVars, bounds
  <2>3. cmdFailures' \in 0 .. MaxCmdFailures
    BY <1>9, BoundsAreNat DEF FinishRestore, PreviewRestore, bounds, TypeOK
  <2>4. cmdsOk' \in BOOLEAN
    BY <1>9, Zenon DEF FinishRestore, PreviewRestore, restoreVars, TypeOK
  <2> QED
    BY <1>4, <2>1, <2>2, <2>3, <2>4, Orders DEF TypeOK, historyVars
<1>10. ASSUME Conclude PROVE TypeOK'
  <2>1. Handled /\ StartProbe /\ pc' \in {"read", "stopped"} /\ events' \in Nat /\ pc = "reread"
    BY <1>10 DEF Conclude, Handled, TypeOK
  <2>2. UNCHANGED <<reg, cfg, lkg, target, cmdsOk, wrote, disturbed, bounds, granted>>
        /\ prior' = snap
    BY <1>10 DEF Conclude, restoreVars, historyVars, limiterVars
  <2>3. last' \in {"rollback_skipped", "rollback_preview", "rollback_applied", "rollback_failed"}
    BY <1>10 DEF Conclude
  <2> QED
    BY <1>4, <2>1, <2>2, <2>3, Orders DEF TypeOK, bounds
<1>11. ASSUME OtherWrites PROVE TypeOK'
  <2>1. reg' \in Snapshots
    <3>1. PICK f \in Fields : \E v \in Values[f] : reg' = [reg EXCEPT ![f] = v]
      BY Zenon, <1>11 DEF OtherWrites
    <3>2. PICK v \in Values[f] : reg' = [reg EXCEPT ![f] = v]
      BY Zenon, <3>1
    <3>3. reg \in Snapshots
      BY DEF TypeOK
    <3> QED
      BY <3>2, <3>3, SnapshotType, Zenon
  <2> QED
    BY <1>11, <2>1, BoundsAreNat DEF OtherWrites, TypeOK, loopVars, restoreVars, limiterVars
<1>12. ASSUME TimePasses PROVE TypeOK'
  BY <1>12 DEF TimePasses, Tick, TypeOK, loopVars, restoreVars, historyVars, bounds
<1>13. ASSUME UNCHANGED vars PROVE TypeOK'
  BY <1>13 DEF vars, TypeOK, loopVars, restoreVars, historyVars, bounds, limiterVars
<1> QED
  BY <1>2, <1>3, <1>6, <1>7, <1>8, <1>9, <1>10, <1>11, <1>12, <1>13, StepCases

\* The variables of the loop keep their types, a rollback under way has a target, and the
\* limiter has granted exactly the rollback that is under way.
THEOREM GuardTypes == Spec => []TypeOK
<1>1. ASSUME Init PROVE TypeOK
  <2>1. reg \in Snapshots
    BY <1>1, GuardAssumption, Zenon DEF Init
  <2>2. k \in 0 .. Len(ReadOrder) /\ attempt \in 1 .. MaxAttempts /\ snap \in Snapshots
    BY <1>1, SnapshotType, Orders, BoundsAreNat DEF Init
  <2>3. writes \in 0 .. MaxWrites /\ probeFailures \in 0 .. MaxProbeFailures
        /\ cmdFailures \in 0 .. MaxCmdFailures /\ events \in Nat
    BY <1>1, BoundsAreNat DEF Init
  <2>4. ~ granted /\ pc = "read"
    BY <1>1 DEF Init, LimiterInit
  <2> QED
    BY Zenon, <1>1, <2>1, <2>2, <2>3, <2>4 DEF Init, TypeOK
<1>2. TypeOK /\ LimiterTypeOK /\ [Next]_vars => TypeOK'
  BY TypeStep
<1>3. LInv => LimiterTypeOK
  BY DEF LInv
<1> QED
  BY <1>1, <1>2, <1>3, LoopUsesLimiter, LAlways, PTL DEF Spec, UsesLimiter

-----------------------------------------------------------------------------
(* Every handled change has a cause outside the loop.                        *)

\* What a probe under way would see if nothing changed any more: the values read so
\* far, and the registry's for the rest.
Position == [enable |-> 1, server |-> 2, pac |-> 3, detect |-> 4, override |-> 5]
ViewOf(n, s, r) == [f \in Fields |-> IF Position[f] <= n THEN s[f] ELSE r[f]]
View == ViewOf(k, snap, reg)

\* The number of values in which two snapshots differ.
Unlike(a, b, f) == IF a[f] = b[f] THEN 0 ELSE 1
Distance(a, b) == Unlike(a, b, "enable") + Unlike(a, b, "server") + Unlike(a, b, "pac")
                    + Unlike(a, b, "detect") + Unlike(a, b, "override")

(***************************************************************************)
(* A write by another program moves the registry by one value, a failed     *)
(* query moves a snapshot away by one and back by one.  What was handled,   *)
(* with what the loop has still to notice, stays within these causes.       *)
(***************************************************************************)
Causes == writes + 2 * probeFailures

\* What the next comparison will report.
ToNotice == IF prior = NoSnapshot THEN 0 ELSE Distance(prior, View)

\* The inductive invariant, at each point of the loop.
EveryChangeHasCause ==
    /\ pc = "read" => events + ToNotice + Distance(View, reg) <= Causes
    /\ pc = "restore" => events + 1 <= Causes
    /\ pc = "reread" => events + 1 + Distance(View, reg) <= Causes
    /\ pc = "stopped" => events <= Causes

\* Position is the inverse of the order in which a snapshot is read.
LEMMA PositionOf ==
  /\ \A i \in 1 .. 5 : Position[ReadOrder[i]] = i
  /\ \A f \in Fields : Position[f] \in 1 .. 5 /\ ReadOrder[Position[f]] = f
  BY Orders DEF Position, Fields

\* Distance is a metric on snapshots.
LEMMA DistanceRange == ASSUME NEW a, NEW b PROVE Distance(a, b) \in 0 .. 5
  BY DEF Distance, Unlike

\* Distance, the number of values two snapshots differ in, is a metric: zero from a to a,
LEMMA DistanceSelf == ASSUME NEW a PROVE Distance(a, a) = 0
  BY DEF Distance, Unlike

\* no longer by way of a third,
LEMMA Triangle ==
  ASSUME NEW a, NEW b, NEW c
  PROVE  Distance(a, c) <= Distance(a, b) + Distance(b, c)
<1>1. \A f : Unlike(a, b, f) \in {0, 1} /\ Unlike(b, c, f) \in {0, 1} /\ Unlike(a, c, f) \in {0, 1}
             /\ Unlike(a, c, f) <= Unlike(a, b, f) + Unlike(b, c, f)
  BY DEF Unlike
<1> QED
  BY <1>1 DEF Distance

\* and at least one between distinct snapshots.
LEMMA DistanceOfDistinct ==
  ASSUME NEW a \in Snapshots, NEW b \in Snapshots, a # b
  PROVE  Distance(a, b) >= 1
<1>1. PICK f \in Fields : a[f] # b[f]
  BY SnapshotType
<1>2. \A g : Unlike(a, b, g) \in {0, 1}
  BY DEF Unlike
<1>3. Unlike(a, b, f) = 1
  BY <1>1 DEF Unlike
<1> QED
  BY <1>2, <1>3 DEF Distance, Fields

\* Setting one value moves a snapshot by at most one.
LEMMA DistanceOfUpdate ==
  ASSUME NEW a, DOMAIN a = Fields, NEW f \in Fields, NEW v
  PROVE  /\ Distance(a, [a EXCEPT ![f] = v]) <= 1
         /\ Distance([a EXCEPT ![f] = v], a) <= 1
<1> DEFINE b == [a EXCEPT ![f] = v]
<1>1. \A g \in Fields : g # f => Unlike(a, b, g) = 0 /\ Unlike(b, a, g) = 0
  BY DEF Unlike
<1>2. Unlike(a, b, f) \in {0, 1} /\ Unlike(b, a, f) \in {0, 1}
  BY DEF Unlike
<1> HIDE DEF b
<1>3. Distance(a, b) <= 1 /\ Distance(b, a) <= 1
  BY <1>1, <1>2 DEF Distance, Fields
<1> QED
  BY <1>3 DEF b

\* A probe that has not begun will see the registry, one that is done its snapshot.
LEMMA ViewAtEnds ==
  ASSUME NEW s \in Snapshots, NEW r \in Snapshots
  PROVE  ViewOf(0, s, r) = r /\ ViewOf(5, s, r) = s
<1>1. \A f \in Fields : Position[f] \in 1 .. 5
  BY PositionOf
<1> QED
  BY <1>1, SnapshotType DEF ViewOf

\* One query sets one value of the view.
LEMMA ViewAfterQuery ==
  ASSUME TypeOK, NEW v, ReadAs(v)
  PROVE  /\ View' = [View EXCEPT ![ReadOrder[k + 1]] = v]
         /\ View[ReadOrder[k + 1]] = reg[ReadOrder[k + 1]]
         /\ ReadOrder[k + 1] \in Fields
<1>1. k \in 0 .. 4 /\ k' = k + 1 /\ snap' = [snap EXCEPT ![ReadOrder[k + 1]] = v] /\ reg' = reg
  BY Orders DEF ReadAs, TypeOK
<1>2. ReadOrder[k + 1] \in Fields /\ Position[ReadOrder[k + 1]] = k + 1
  BY <1>1, OrdersAreFields, PositionOf
<1>3. DOMAIN snap = Fields
  BY SnapshotType DEF TypeOK
<1>4. \A f \in Fields : f # ReadOrder[k + 1] => (Position[f] <= k' <=> Position[f] <= k)
  BY <1>1, PositionOf
<1>5. View' = [f \in Fields |-> IF Position[f] <= k' THEN snap'[f] ELSE reg[f]]
  BY <1>1 DEF View, ViewOf
<1>6. View = [f \in Fields |-> IF Position[f] <= k THEN snap[f] ELSE reg[f]]
  BY DEF View, ViewOf
<1>7. View[ReadOrder[k + 1]] = reg[ReadOrder[k + 1]]
  BY <1>1, <1>2, <1>6
<1>8. \A f \in Fields : View'[f] = IF f = ReadOrder[k + 1] THEN v ELSE View[f]
  BY <1>1, <1>2, <1>3, <1>4, <1>5, <1>6
<1>9. View' = [View EXCEPT ![ReadOrder[k + 1]] = v]
  BY <1>5, <1>6, <1>8
<1> QED
  BY <1>2, <1>7, <1>9
\* The causes never go away, and the guard's own steps add none but by a failed query.
LEMMA CountsType ==
  ASSUME TypeOK
  PROVE  writes \in Nat /\ probeFailures \in Nat /\ events \in Nat /\ Causes \in Nat
  BY BoundsAreNat DEF TypeOK, Causes

\* Both distances are at most the number of values.
LEMMA DistancesType ==
  ToNotice \in 0 .. 5 /\ Distance(View, reg) \in 0 .. 5
  BY DistanceRange DEF ToNotice

\* At the end of a probe the view is the snapshot; when one begins it is the registry.
LEMMA ViewWhenDone ==
  ASSUME TypeOK, k = Len(ReadOrder)
  PROVE  View = snap
  BY Orders, ViewAtEnds DEF View, TypeOK

\* A poll that has read nothing yet sees the registry as it is.
LEMMA ViewWhenStarting ==
  ASSUME TypeOK, snap' \in Snapshots, k' = 0, reg' = reg
  PROVE  View' = reg
<1>1. reg \in Snapshots
  BY DEF TypeOK
<1>2. View' = ViewOf(0, snap', reg)
  BY DEF View
<1> QED
  BY <1>1, <1>2, ViewAtEnds

\* A write by another program.
LEMMA CauseOfWrite ==
  ASSUME TypeOK, EveryChangeHasCause, OtherWrites
  PROVE  EveryChangeHasCause'
<1>0. PICK f \in Fields : \E v \in Values[f] : reg' = [reg EXCEPT ![f] = v]
  BY Zenon DEF OtherWrites
<1>1. PICK v \in Values[f] : reg' = [reg EXCEPT ![f] = v]
  BY Zenon, <1>0
<1>2. UNCHANGED <<pc, k, snap, prior, events, probeFailures>> /\ writes' = writes + 1
  BY DEF OtherWrites, loopVars
<1>3. Causes' = Causes + 1
  BY <1>2, CountsType DEF Causes
<1>4. DOMAIN reg = Fields /\ k \in 0 .. 5
  BY SnapshotType, Orders DEF TypeOK
<1>5. View' = ViewOf(k, snap, reg')
  BY <1>2 DEF View
<1>6. CASE Position[f] <= k
  <2>1. View' = View
    BY <1>1, <1>4, <1>5, <1>6 DEF View, ViewOf
  <2>2. ToNotice' = ToNotice
    BY <1>2, <2>1 DEF ToNotice
  <2>3. Distance(View', reg') <= Distance(View, reg) + 1
    <3>1. Distance(reg, reg') <= 1
      BY Zenon, <1>1, <1>4, DistanceOfUpdate
    <3>2. Distance(View, reg') <= Distance(View, reg) + Distance(reg, reg')
      BY Triangle
    <3> QED
      BY <2>1, <3>1, <3>2, DistanceRange
  <2>4. Distance(View', reg') \in 0 .. 5
    BY DistanceRange
  <2> QED
    BY <1>2, <1>3, <2>2, <2>3, <2>4, CountsType, DistancesType DEF EveryChangeHasCause
<1>7. CASE ~ (Position[f] <= k)
  <2>1. View' = [View EXCEPT ![f] = v]
    BY Zenon, <1>1, <1>4, <1>5, <1>7 DEF View, ViewOf
  <2>2. DOMAIN View = Fields /\ View[f] = reg[f]
    BY <1>7 DEF View, ViewOf
  <2>3. ToNotice' <= ToNotice + 1 /\ ToNotice' \in 0 .. 5
    <3>1. Distance(View, View') <= 1
      BY Zenon, <2>1, <2>2, DistanceOfUpdate
    <3>2. Distance(prior, View') <= Distance(prior, View) + Distance(View, View')
      BY Triangle
    <3> QED
      BY <1>2, <3>1, <3>2, DistanceRange DEF ToNotice
  <2>4. Distance(View', reg') = Distance(View, reg)
    <3>1. \A g \in Fields : View'[g] = reg'[g] <=> View[g] = reg[g]
      BY <1>1, <1>4, <2>1, <2>2
    <3> QED
      BY <3>1 DEF Distance, Unlike, Fields
  <2> QED
    BY <1>2, <1>3, <2>3, <2>4, CountsType, DistancesType DEF EveryChangeHasCause
<1> QED
  BY <1>6, <1>7

\* A query, answered or failed.
LEMMA CauseOfQuery ==
  ASSUME TypeOK, EveryChangeHasCause, ReadValue \/ ReadFails
  PROVE  EveryChangeHasCause'
<1>1. PICK v : ReadAs(v) /\ (ReadValue => v = reg[ReadOrder[k + 1]])
  BY DEF ReadValue, ReadFails
<1>2. UNCHANGED <<pc, reg, prior, events, writes>>
  BY <1>1 DEF ReadAs
<1>3. /\ View' = [View EXCEPT ![ReadOrder[k + 1]] = v]
      /\ View[ReadOrder[k + 1]] = reg[ReadOrder[k + 1]] /\ ReadOrder[k + 1] \in Fields
  BY <1>1, ViewAfterQuery
<1>4. DOMAIN View = Fields /\ View = [f \in Fields |-> View[f]]
  BY DEF View, ViewOf
<1>5. CASE ReadValue
  <2>1. View' = View
    BY <1>1, <1>3, <1>4, <1>5
  <2>2. probeFailures' = probeFailures
    BY <1>5 DEF ReadValue
  <2> QED
    BY <1>2, <2>1, <2>2 DEF EveryChangeHasCause, ToNotice, Causes
<1>6. CASE ReadFails
  <2>1. Distance(View, View') <= 1 /\ Distance(View', View) <= 1
    BY <1>3, <1>4, DistanceOfUpdate
  <2>2. ToNotice' <= ToNotice + 1 /\ ToNotice' \in 0 .. 5
    <3>1. Distance(prior, View') <= Distance(prior, View) + Distance(View, View')
      BY Triangle
    <3> QED
      BY <1>2, <2>1, <3>1, DistanceRange DEF ToNotice
  <2>3. Distance(View', reg') <= Distance(View, reg) + 1 /\ Distance(View', reg') \in 0 .. 5
    <3>1. Distance(View', reg) <= Distance(View', View) + Distance(View, reg)
      BY Triangle
    <3> QED
      BY <1>2, <2>1, <3>1, DistanceRange
  <2>4. Causes' = Causes + 2
    BY <1>2, <1>6, CountsType DEF Causes, ReadFails
  <2> QED
    BY <1>2, <2>2, <2>3, <2>4, CountsType, DistancesType DEF EveryChangeHasCause
<1> QED
  BY <1>5, <1>6
\* The end of a poll, handled or not: the snapshot becomes the baseline of the next.
LEMMA CauseOfPoll ==
  ASSUME TypeOK, EveryChangeHasCause,
         Baseline \/ NoChange \/ Adopt \/ Suppress \/ Conclude
  PROVE  EveryChangeHasCause'
<1>1. k = Len(ReadOrder) /\ StartProbe /\ pc \in {"read", "reread"} /\ pc' \in {"read", "stopped"}
  BY DEF Baseline, NoChange, Adopt, Suppress, Conclude, Blocked, Changed, ProbeDone, Polled,
         Handled
<1>2. reg' = reg /\ prior' = snap /\ UNCHANGED <<writes, probeFailures>>
  BY DEF Baseline, NoChange, Adopt, Suppress, Conclude, bounds
<1>3. View = snap
  BY <1>1, ViewWhenDone
<1>4. View' = reg
  <2>1. snap' \in Snapshots /\ k' = 0
    BY <1>1, SnapshotType DEF StartProbe
  <2> QED
    BY <1>2, <2>1, ViewWhenStarting
<1>5. Causes' = Causes
  BY <1>2 DEF Causes
<1>6. ToNotice' = Distance(snap, reg) /\ Distance(View', reg') = 0
  <2>1. snap # NoSnapshot
    BY SnapshotType DEF TypeOK
  <2> QED
    BY <1>2, <1>4, <2>1, DistanceSelf DEF ToNotice
<1>7. events' + Distance(snap, reg) <= Causes
  <2>1. CASE Baseline \/ NoChange
    <3>1. events' = events /\ pc = "read"
      BY <2>1 DEF Baseline, NoChange, Polled
    <3> QED
      BY <1>3, <3>1, CountsType, DistancesType DEF EveryChangeHasCause
  <2>2. CASE Adopt \/ Suppress
    <3>1. events' = events + 1 /\ pc = "read" /\ prior \notin {NoSnapshot, snap}
      BY <2>2 DEF Adopt, Suppress, Blocked, Changed, Handled
    <3>2. prior \in Snapshots /\ snap \in Snapshots
      BY <3>1 DEF TypeOK
    <3>3. ToNotice >= 1
      BY <1>3, <3>1, <3>2, DistanceOfDistinct DEF ToNotice
    <3> QED
      BY <1>3, <3>1, <3>3, CountsType, DistancesType DEF EveryChangeHasCause
  <2>3. CASE Conclude
    <3>1. events' = events + 1 /\ pc = "reread"
      BY <2>3 DEF Conclude, Handled
    <3> QED
      BY <1>3, <3>1, CountsType, DistancesType DEF EveryChangeHasCause
  <2> QED
    BY <2>1, <2>2, <2>3
<1>8. events' \in Nat
  BY CountsType DEF Baseline, NoChange, Adopt, Suppress, Conclude, Polled, Handled
<1> QED
  BY <1>1, <1>5, <1>6, <1>7, <1>8, CountsType, DistanceRange DEF EveryChangeHasCause

\* Every step keeps the budget of causes.
LEMMA CauseStep ==
  ASSUME TypeOK, TypeOK', EveryChangeHasCause, [Next]_vars
  PROVE  EveryChangeHasCause'
<1>1. CASE ProbeRetry
  <2>1. k = Len(ReadOrder) /\ k' = 0 /\ UNCHANGED <<reg, pc, snap, prior, events, writes, probeFailures>>
    BY <1>1 DEF ProbeRetry, bounds
  <2>2. View = snap
    BY <2>1, ViewWhenDone
  <2>3. View' = reg
    BY <2>1, ViewWhenStarting DEF TypeOK
  <2>4. Distance(prior, reg) <= Distance(prior, snap) + Distance(snap, reg)
    BY Triangle
  <2>5. ToNotice' = (IF prior = NoSnapshot THEN 0 ELSE Distance(prior, reg))
        /\ Distance(View', reg') = 0 /\ Causes' = Causes
    BY <2>1, <2>3, DistanceSelf DEF ToNotice, Causes
  <2>6. ToNotice = (IF prior = NoSnapshot THEN 0 ELSE Distance(prior, snap))
    BY <2>2 DEF ToNotice
  <2>7. ToNotice' <= ToNotice + Distance(View, reg) /\ ToNotice' \in 0 .. 5
    BY <2>2, <2>4, <2>5, <2>6, DistanceRange
  <2>8. pc \in {"read", "reread"} /\ pc' = pc /\ events' = events
    BY <1>1 DEF ProbeRetry, Probing
  <2>9. CASE pc = "read"
    BY <2>5, <2>7, <2>8, <2>9, CountsType, DistancesType DEF EveryChangeHasCause
  <2>10. CASE pc = "reread"
    BY <2>5, <2>8, <2>10, CountsType, DistancesType DEF EveryChangeHasCause
  <2> QED
    BY <2>8, <2>9, <2>10
<1>2. CASE StartRollback
  <2>1. pc = "read" /\ pc' = "restore" /\ UNCHANGED <<events, writes, probeFailures>>
        /\ k = Len(ReadOrder) /\ prior \notin {NoSnapshot, snap}
    BY <1>2 DEF StartRollback, Blocked, Changed, ProbeDone, bounds
  <2>2. View = snap
    BY <2>1, ViewWhenDone
  <2>3. ToNotice >= 1
    <3>1. prior \in Snapshots /\ snap \in Snapshots
      BY <2>1 DEF TypeOK
    <3> QED
      BY <2>1, <2>2, <3>1, DistanceOfDistinct DEF ToNotice
  <2> QED
    BY <2>1, <2>3, CountsType, DistancesType DEF EveryChangeHasCause, Causes
<1>3. CASE RestoreValue \/ RestoreFails
  <2>1. pc = "restore" /\ UNCHANGED <<pc, events, writes, probeFailures>>
    BY <1>3 DEF RestoreValue, RestoreFails, RunCommand
  <2> QED
    BY <2>1 DEF EveryChangeHasCause, Causes
<1>4. CASE FinishRestore \/ PreviewRestore
  <2>1. pc = "restore" /\ pc' = "reread" /\ UNCHANGED <<reg, events, writes, probeFailures>> /\ StartProbe
    BY <1>4 DEF FinishRestore, PreviewRestore, bounds
  <2>2. View' = reg
    BY <2>1, ViewWhenStarting DEF StartProbe, TypeOK
  <2>3. Distance(View', reg') = 0
    BY <2>1, <2>2, DistanceSelf
  <2> QED
    BY <2>1, <2>3, CountsType DEF EveryChangeHasCause, Causes
<1>5. CASE TimePasses \/ UNCHANGED vars
  BY <1>5 DEF TimePasses, vars, loopVars, bounds, EveryChangeHasCause, ToNotice, View, Causes
<1> QED
  BY <1>1, <1>2, <1>3, <1>4, <1>5, CauseOfWrite, CauseOfQuery, CauseOfPoll, StepCases

\* The loop never takes its own rollback for a new change, in any order of polls,
\* rollbacks, failed queries and writes by other programs.
THEOREM EventsHaveCauses == Spec => []ReactsOnlyToOthers
<1>1. Init /\ TypeOK => EveryChangeHasCause
  <2> SUFFICES ASSUME Init, TypeOK
               PROVE  EveryChangeHasCause
    OBVIOUS
  <2>1. View = reg
    BY ViewAtEnds DEF Init, View, TypeOK
  <2> QED
    BY <2>1, DistanceSelf DEF Init, EveryChangeHasCause, ToNotice, Causes
<1>2. TypeOK /\ TypeOK' /\ EveryChangeHasCause /\ [Next]_vars => EveryChangeHasCause'
  BY CauseStep
<1>3. TypeOK /\ EveryChangeHasCause => ReactsOnlyToOthers
  <2> SUFFICES ASSUME TypeOK, EveryChangeHasCause
               PROVE  events <= Causes
    BY DEF ReactsOnlyToOthers, Causes
  <2>1. pc \in {"read", "restore", "reread", "stopped"}
    BY DEF TypeOK
  <2> QED
    BY <2>1, CountsType, DistancesType DEF EveryChangeHasCause
<1> QED
  BY <1>1, <1>2, <1>3, GuardTypes, PTL DEF Spec
-----------------------------------------------------------------------------
(* A rollback reported as applied has restored everything.                   *)

\* ProxyOverride, which is not verified, is right once its command has succeeded, and
\* the verification reads what the commands left.
RestoredSoFar ==
    /\ pc = "restore" /\ k >= 3 /\ cmdsOk /\ ~ disturbed => reg["override"] = target["override"]
    /\ pc = "reread" /\ ~ disturbed =>
         /\ View = reg
         /\ RunsCommands /\ cmdsOk => reg["override"] = target["override"]

\* Every step keeps what a restore has written so far.
LEMMA RestoredStep ==
  ASSUME TypeOK, TypeOK', RestoredSoFar, AppliedIsRestored, [Next]_vars
  PROVE  RestoredSoFar' /\ AppliedIsRestored'
<1>1. CASE OtherWrites \/ ReadFails
  <2>1. disturbed' = TRUE
    BY <1>1 DEF OtherWrites, ReadFails
  <2> QED
    BY <2>1 DEF RestoredSoFar, AppliedIsRestored
<1>2. CASE ReadValue
  <2>1. ReadAs(reg[ReadOrder[k + 1]]) /\ disturbed' = disturbed
    BY SMTT(40), <1>2 DEF ReadValue
  <2>2. UNCHANGED <<reg, cfg, pc, target, cmdsOk, last>> /\ pc \in {"read", "reread"}
    BY Zenon, <2>1 DEF ReadAs, Probing, restoreVars
  <2>3. View' = View
    <3>1. View = [f \in Fields |-> View[f]]
      BY DEF View, ViewOf
    <3>2. PICK v : v = reg[ReadOrder[k + 1]] /\ ReadAs(v)
      BY <2>1
    <3> QED
      BY <3>1, <3>2, ViewAfterQuery
  <2> QED
    BY <2>1, <2>2, <2>3 DEF RestoredSoFar, AppliedIsRestored, RunsCommands, Skipped,
       live_rollback_gate, effective_rollback, confirm_required
<1>3. CASE ProbeRetry
  <2>1. k' = 0 /\ UNCHANGED <<reg, cfg, pc, snap, target, cmdsOk, last, disturbed>>
        /\ pc \in {"read", "reread"}
    BY <1>3 DEF ProbeRetry, Probing, restoreVars, historyVars
  <2>2. View' = reg
    BY <2>1, ViewWhenStarting DEF TypeOK
  <2> QED
    BY <2>1, <2>2 DEF RestoredSoFar, AppliedIsRestored, RunsCommands, Skipped,
       live_rollback_gate, effective_rollback, confirm_required
<1>4. CASE Baseline \/ NoChange \/ Adopt \/ Suppress
  <2>1. pc = "read" /\ pc' \in {"read", "stopped"} /\ UNCHANGED <<reg, target, disturbed>>
    BY <1>4 DEF Baseline, NoChange, Adopt, Suppress, Blocked, Changed, Polled, Handled,
       restoreVars, historyVars
  <2>2. last' \in {last, "rollback_preview", "rollback_skipped"}
    BY <1>4 DEF Baseline, NoChange, Adopt, Suppress
  <2> QED
    BY <2>1, <2>2 DEF RestoredSoFar, AppliedIsRestored
<1>5. CASE StartRollback
  <2>1. pc' = "restore" /\ k' = 0
    BY <1>5 DEF StartRollback, StartProbe
  <2> QED
    BY <2>1 DEF RestoredSoFar, AppliedIsRestored
<1>6. CASE RestoreValue
  <2>1. RunCommand /\ reg' = Restored
    BY <1>6 DEF RestoreValue
  <2>2. pc = "restore" /\ UNCHANGED <<pc, target, disturbed>> /\ k' = k + 1
    BY <2>1 DEF RunCommand
  <2>3. k \in 0 .. 3 /\ Command \in Fields /\ DOMAIN reg = Fields
    BY <2>1, CommandType, SnapshotType DEF TypeOK
  <2>4. cmdsOk' => cmdsOk
    BY Zenon, <1>6 DEF RestoreValue
  <2>5. k = 2 => Command = "override"
    BY Orders DEF Command
  <2>6. k = 3 => Command = "enable"
    BY Orders DEF Command
  <2>7. k = 2 => reg'["override"] = target["override"]
    BY <2>1, <2>3, <2>5 DEF Restored, NoCommand
  <2>8. k = 3 => reg'["override"] = reg["override"]
    BY <2>1, <2>3, <2>6 DEF Restored, Fields
  <2> QED
    BY <2>2, <2>3, <2>4, <2>7, <2>8 DEF RestoredSoFar, AppliedIsRestored
<1>7. CASE RestoreFails
  <2>1. cmdsOk' = FALSE /\ pc' = "restore"
    BY <1>7 DEF RestoreFails, RunCommand
  <2> QED
    BY <2>1 DEF RestoredSoFar, AppliedIsRestored
<1>8. CASE FinishRestore \/ PreviewRestore
  <2>1. pc = "restore" /\ pc' = "reread" /\ UNCHANGED <<reg, cfg, target, disturbed>> /\ StartProbe
    BY <1>8 DEF FinishRestore, PreviewRestore, restoreVars, historyVars
  <2>2. View' = reg
    BY <2>1, ViewWhenStarting DEF StartProbe, TypeOK
  <2>3. RunsCommands' = RunsCommands
    BY <2>1 DEF RunsCommands, Skipped, live_rollback_gate, effective_rollback, confirm_required
  <2>4. RunsCommands => k = 4 /\ (cmdsOk' => cmdsOk)
    BY <1>8, Orders DEF FinishRestore, PreviewRestore
  <2> QED
    BY <2>1, <2>2, <2>3, <2>4 DEF RestoredSoFar, AppliedIsRestored
<1>9. CASE Conclude
  <2>1. pc = "reread" /\ pc' \in {"read", "stopped"} /\ UNCHANGED <<reg, target, disturbed>>
        /\ k = Len(ReadOrder)
    BY <1>9 DEF Conclude, Handled, ProbeDone, restoreVars, historyVars
  <2>2. View = snap
    BY <2>1, ViewWhenDone
  <2>3. last' = "rollback_applied" => RunsCommands /\ cmdsOk /\ Matches(snap, target)
    BY <1>9 DEF Conclude, RunsCommands
  <2>4. ASSUME last' = "rollback_applied", ~ disturbed PROVE reg = target
    <3>1. snap = reg /\ reg["override"] = target["override"]
      BY <2>1, <2>2, <2>3, <2>4 DEF RestoredSoFar
    <3>2. \A f \in Fields : reg[f] = target[f]
      BY <2>3, <2>4, <3>1 DEF Matches
    <3>3. target = [f \in Fields |-> target[f]]
      BY SnapshotType DEF TypeOK, NoSnapshot
    <3> QED
      BY <3>2, <3>3, SnapshotType DEF TypeOK
  <2> QED
    BY <2>1, <2>4 DEF RestoredSoFar, AppliedIsRestored
<1>10. CASE TimePasses \/ UNCHANGED vars
  BY <1>10 DEF TimePasses, vars, loopVars, restoreVars, historyVars, RestoredSoFar,
     AppliedIsRestored, View, RunsCommands, Skipped, live_rollback_gate, effective_rollback,
     confirm_required
<1> QED
  BY <1>1, <1>2, <1>3, <1>4, <1>5, <1>6, <1>7, <1>8, <1>9, <1>10, StepCases

\* rollback_applied is never reported of a registry that differs from the target, when
\* nobody interfered since the rollback was decided.
THEOREM AppliedMeansRestored == Spec => []AppliedIsRestored
<1>1. Init => RestoredSoFar /\ AppliedIsRestored
  BY DEF Init, RestoredSoFar, AppliedIsRestored
<1>2. TypeOK /\ TypeOK' /\ RestoredSoFar /\ AppliedIsRestored /\ [Next]_vars
        => RestoredSoFar' /\ AppliedIsRestored'
  BY RestoredStep
<1> QED
  BY <1>1, <1>2, GuardTypes, PTL DEF Spec
=============================================================================
