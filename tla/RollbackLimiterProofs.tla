----------------------- MODULE RollbackLimiterProofs -----------------------
(***************************************************************************)
(* The limiter keeps its two promises for every cooldown, window and cap.   *)
(***************************************************************************)
EXTENDS RollbackLimiter, FiniteSetTheorems, SequenceTheorems, TLAPS

(***************************************************************************)
(* The inductive invariant relates the purged list to the full history:     *)
(* what the list has dropped is out of every window still to come, and a    *)
(* grant leaves room for one more.                                          *)
(***************************************************************************)
Dropped == \A i \in (1 .. Len(at)) \ kept : at[i] < now - Window
Past == \A i \in 1 .. Len(at) : at[i] <= now
CooldownSet == at # <<>> => cooldownUntil = at[Len(at)] + Cooldown
GrantLeavesRoom == granted => Cardinality(kept) < MaxPerWindow /\ ~ CoolingDown

LInv == /\ LimiterTypeOK /\ IsFiniteSet(kept) /\ ListBounded
        /\ Dropped /\ Past /\ CooldownSet /\ GrantLeavesRoom
        /\ WindowBound /\ CooldownSpacing

\* The limiter starts with an empty list and no cooldown.
LEMMA LInit == LimiterInit => LInv
<1> SUFFICES ASSUME LimiterInit
             PROVE  LInv
  OBVIOUS
<1>1. kept = {} /\ IsFiniteSet(kept) /\ Cardinality(kept) = 0
  BY FS_EmptySet DEF LimiterInit
<1>2. at = <<>> /\ Len(at) = 0 /\ at \in Seq(Nat)
  BY DEF LimiterInit
<1>3. LimiterTypeOK
  BY Zenon, <1>1, <1>2 DEF LimiterInit, LimiterTypeOK
<1>4. ListBounded
  BY <1>1, LimitsAssumption DEF ListBounded
<1>5. Dropped /\ Past /\ CooldownSet /\ WindowBound /\ CooldownSpacing
  BY <1>2 DEF Dropped, Past, CooldownSet, WindowBound, CooldownSpacing
<1>6. GrantLeavesRoom
  BY DEF LimiterInit, GrantLeavesRoom
<1> QED
  BY <1>1, <1>3, <1>4, <1>5, <1>6 DEF LInv

\* evaluate purges the list: what remains is finite and no larger.
LEMMA Purge ==
    ASSUME LInv
    PROVE  /\ Recent \subseteq kept
           /\ IsFiniteSet(Recent)
           /\ Cardinality(Recent) \in Nat
           /\ Cardinality(Recent) <= Cardinality(kept)
           /\ Cardinality(kept) \in Nat
<1>1. Recent \in SUBSET kept
  BY DEF Recent
<1> QED
  BY <1>1, FS_Subset, FS_CardinalityType DEF LInv

\* The steps that record nothing.
LEMMA EvaluateStep ==
    ASSUME LInv, RefuseWindow \/ Grant
    PROVE  LInv'
<1>1. kept' = Recent /\ UNCHANGED <<now, at, cooldownUntil>>
  BY DEF RefuseWindow, Grant
<1>2. LimiterTypeOK'
  BY Zenon, <1>1, Purge DEF LInv, LimiterTypeOK, RefuseWindow, Grant
<1>3. IsFiniteSet(kept)' /\ ListBounded'
  BY <1>1, Purge, LimitsAssumption DEF LInv, ListBounded
<1>4. Dropped'
  <2>1. now \in Nat /\ \A i \in 1 .. Len(at) : at[i] \in Nat
    BY ElementOfSeq DEF LInv, LimiterTypeOK
  <2> QED
    BY <1>1, <2>1, LimitsAssumption DEF LInv, Dropped, Recent
<1>5. Past' /\ CooldownSet' /\ WindowBound' /\ CooldownSpacing'
  BY <1>1 DEF LInv, Past, CooldownSet, WindowBound, CooldownSpacing, InWindowOf
<1>6. GrantLeavesRoom'
  BY Zenon, <1>1 DEF GrantLeavesRoom, CoolingDown, RefuseWindow, Grant
<1> QED
  BY <1>2, <1>3, <1>4, <1>5, <1>6 DEF LInv

\* Time passes, a refusal, an abandoned rollback.
LEMMA IdleStep ==
    ASSUME LInv, Tick \/ RefuseCooldown \/ Forgo \/ UNCHANGED limiterVars
    PROVE  LInv'
<1>1. /\ UNCHANGED <<at, kept, cooldownUntil>>
      /\ now' \in Nat /\ now' >= now /\ now \in Nat
  BY DEF LInv, LimiterTypeOK, Tick, RefuseCooldown, Forgo, limiterVars
<1>7. granted' \in BOOLEAN /\ (granted' => granted)
  <2>1. CASE Forgo
    BY Zenon, <2>1 DEF Forgo
  <2>2. CASE Tick \/ RefuseCooldown \/ UNCHANGED limiterVars
    <3>1. granted' = granted
      BY <2>2 DEF Tick, RefuseCooldown, limiterVars
    <3> QED
      BY <3>1 DEF LInv, LimiterTypeOK
  <2> QED
    BY <2>1, <2>2
<1>2. LimiterTypeOK' /\ IsFiniteSet(kept)' /\ ListBounded'
  BY <1>1, <1>7 DEF LInv, LimiterTypeOK, ListBounded
<1>3. Dropped'
  <2>1. \A i \in 1 .. Len(at) : at[i] \in Nat
    BY ElementOfSeq DEF LInv, LimiterTypeOK
  <2> QED
    BY <1>1, <2>1, LimitsAssumption DEF LInv, Dropped
<1>4. Past'
  <2>1. \A i \in 1 .. Len(at) : at[i] \in Nat
    BY ElementOfSeq DEF LInv, LimiterTypeOK
  <2> QED
    BY <1>1, <2>1 DEF LInv, Past
<1>5. CooldownSet' /\ WindowBound' /\ CooldownSpacing'
  BY <1>1 DEF LInv, CooldownSet, WindowBound, CooldownSpacing, InWindowOf
<1>6. GrantLeavesRoom'
  BY <1>1, <1>7 DEF LInv, LimiterTypeOK, GrantLeavesRoom, CoolingDown
<1> QED
  BY <1>2, <1>3, <1>4, <1>5, <1>6 DEF LInv

\* record_rollback: the new rollback fits into the window that ends with it.
LEMMA RecordStep ==
    ASSUME LInv, Record
    PROVE  LInv'
<1> DEFINE n == Len(at)
<1>1. /\ at \in Seq(Nat) /\ n \in Nat /\ now \in Nat
      /\ at' = Append(at, now) /\ kept' = kept \cup {n + 1}
      /\ now' = now /\ cooldownUntil' = now + Cooldown /\ granted' = FALSE
      /\ granted /\ kept \subseteq 1 .. n
  BY LenProperties DEF LInv, LimiterTypeOK, Record
<1>2. /\ at' \in Seq(Nat) /\ Len(at') = n + 1
      /\ \A i \in 1 .. n : at'[i] = at[i] /\ at[i] \in Nat
      /\ at'[n + 1] = now
  BY <1>1, AppendProperties, ElementOfSeq
<1>3. /\ IsFiniteSet(kept') /\ Cardinality(kept') <= MaxPerWindow
      /\ Cardinality(kept') \in Nat
  <2>1. n + 1 \notin kept
    BY <1>1
  <2>2. IsFiniteSet(kept') /\ Cardinality(kept') = Cardinality(kept) + 1
    BY <1>1, <2>1, FS_AddElement DEF LInv
  <2>3. Cardinality(kept) \in Nat
    BY FS_CardinalityType DEF LInv
  <2> QED
    BY <1>1, <2>2, <2>3, LimitsAssumption DEF LInv, GrantLeavesRoom
<1>4. LimiterTypeOK'
  <2>1. kept' \subseteq 1 .. Len(at')
    <3>1. 1 .. n \subseteq 1 .. n + 1 /\ n + 1 \in 1 .. n + 1
      BY <1>1
    <3> HIDE DEF n
    <3> QED
      BY <1>1, <1>2, <3>1
  <2>2. cooldownUntil' \in Nat
    BY <1>1, LimitsAssumption
  <2> QED
    BY Zenon, <1>1, <1>2, <2>1, <2>2 DEF LimiterTypeOK
<1>5. Dropped'
  BY <1>1, <1>2 DEF LInv, Dropped
<1>6. Past' /\ CooldownSet' /\ GrantLeavesRoom'
  BY <1>1, <1>2 DEF LInv, Past, CooldownSet, GrantLeavesRoom
<1>7. WindowBound'
  <2>1. ASSUME NEW i \in 1 .. n
        PROVE  Cardinality(InWindowOf(i)') <= MaxPerWindow
    <3>1. InWindowOf(i)' = InWindowOf(i)
      BY SMTT(40), <1>2 DEF InWindowOf
    <3> QED
      BY <3>1 DEF LInv, WindowBound
  <2>2. \A i : i = n + 1 => Cardinality(InWindowOf(i)') <= MaxPerWindow
    <3> SUFFICES ASSUME NEW i, i = n + 1
                 PROVE  Cardinality(InWindowOf(i)') <= MaxPerWindow
      OBVIOUS
    <3>1. InWindowOf(i)' \in SUBSET kept'
      <4> SUFFICES ASSUME NEW j \in 1 .. i, at'[j] >= at'[i] - Window
                   PROVE  j \in kept'
        BY DEF InWindowOf
      <4>1. CASE j = n + 1
        BY <4>1, <1>1
      <4>2. CASE j \in 1 .. n
        <5>1. at[j] \in Nat /\ ~ (at[j] < now - Window)
          BY <4>2, <1>1, <1>2, LimitsAssumption
        <5> QED
          BY <4>2, <5>1, <1>1 DEF LInv, Dropped
      <4> QED
        BY <4>1, <4>2, <1>1
    <3>2. Cardinality(InWindowOf(i)') <= Cardinality(kept') /\ Cardinality(InWindowOf(i)') \in Nat
      BY <3>1, <1>3, FS_Subset, FS_CardinalityType
    <3> QED
      BY <3>2, <1>3, LimitsAssumption
  <2> QED
    BY <1>1, <1>2, <2>1, <2>2 DEF WindowBound
<1>8. CooldownSpacing'
  <2>1. n > 0 => now - at[n] >= Cooldown
    <3> SUFFICES ASSUME n > 0
                 PROVE  now - at[n] >= Cooldown
      OBVIOUS
    <3>1. at # <<>>
      BY <1>1
    <3>2. cooldownUntil = at[n] + Cooldown /\ ~ (now < cooldownUntil)
      BY <1>1, <3>1 DEF LInv, CooldownSet, GrantLeavesRoom, CoolingDown
    <3>3. at[n] \in Nat
      BY <1>1, <1>2
    <3> QED
      BY <1>1, <3>2, <3>3, LimitsAssumption
  <2> QED
    BY <1>1, <1>2, <2>1 DEF LInv, CooldownSpacing
<1> QED
  BY <1>3, <1>4, <1>5, <1>6, <1>7, <1>8 DEF LInv, ListBounded

\* The invariant holds in every reachable state of the limiter.
LEMMA LAlways == LimiterSpec => []LInv
<1>1. LInv /\ [LimiterNext]_limiterVars => LInv'
  BY EvaluateStep, IdleStep, RecordStep DEF LimiterNext
<1> QED
  BY LInit, <1>1, PTL DEF LimiterSpec

(***************************************************************************)
(* No window of the given length ever contains more rollbacks than the cap. *)
(***************************************************************************)
THEOREM WindowIsBounded == LimiterSpec => []WindowBound
<1>1. LInv => WindowBound
  BY DEF LInv
<1> QED
  BY LAlways, <1>1, PTL

\* Two rollbacks are never closer than the cooldown.
THEOREM CooldownIsKept == LimiterSpec => []CooldownSpacing
<1>1. LInv => CooldownSpacing
  BY DEF LInv
<1> QED
  BY LAlways, <1>1, PTL

\* The limiter's list of times never outgrows the cap.
THEOREM ListStaysBounded == LimiterSpec => []ListBounded
<1>1. LInv => ListBounded
  BY DEF LInv
<1> QED
  BY LAlways, <1>1, PTL
=============================================================================
