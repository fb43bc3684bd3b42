-------------------------- MODULE RollbackLimiter --------------------------
(***************************************************************************)
(* RollbackLimiter of src/proxy_guard/rollback_limits.py: the cooldown and  *)
(* the sliding window that stand between a blocked proxy change and an      *)
(* automatic registry rollback.                                             *)
(*                                                                          *)
(* The list _rollback_times is kept as the set of rollback numbers whose    *)
(* times it holds; the times of all rollbacks stay in the history at.       *)
(***************************************************************************)
EXTENDS Integers, Sequences, FiniteSets

CONSTANTS Cooldown,      \* cooldown_seconds, in clock units
          Window,        \* window_seconds
          MaxPerWindow,  \* max_rollbacks_per_window
          MaxTime        \* bound on the clock

ASSUME LimitsAssumption == /\ Cooldown \in Nat
                           /\ Window \in Nat \ {0}
                           /\ MaxPerWindow \in Nat
                           /\ MaxTime \in Nat

VARIABLES now,            \* the monotonic clock
          at,             \* time of every rollback recorded so far (history)
          kept,           \* _rollback_times: the rollbacks still in the list
          cooldownUntil,  \* _cooldown_until_mono (0: none yet)
          granted         \* evaluate said yes and the rollback is under way

limiterVars == <<now, at, kept, cooldownUntil, granted>>

LimiterInit == /\ now = 0
               /\ at = <<>>
               /\ kept = {}
               /\ cooldownUntil = 0
               /\ granted = FALSE

\* The clock moves on, also between evaluate and record_rollback.
Tick == /\ now < MaxTime
        /\ now' = now + 1
        /\ UNCHANGED <<at, kept, cooldownUntil, granted>>

CoolingDown == now < cooldownUntil
Recent == {i \in kept : at[i] >= now - Window}

\* evaluate: still cooling down (the list is not purged on this path).
RefuseCooldown == /\ ~ granted
                  /\ CoolingDown
                  /\ UNCHANGED limiterVars

\* evaluate: the window is full.
RefuseWindow == /\ ~ granted
                /\ ~ CoolingDown
                /\ kept' = Recent
                /\ Cardinality(Recent) >= MaxPerWindow
                /\ UNCHANGED <<now, at, cooldownUntil, granted>>

\* Mutants of Grant: one rollback too many; the list is not purged.
Grant_OneTooMany == /\ ~ granted
                    /\ ~ CoolingDown
                    /\ kept' = Recent
                    /\ Cardinality(Recent) <= MaxPerWindow
                    /\ granted' = TRUE
                    /\ UNCHANGED <<now, at, cooldownUntil>>

Grant_Unpurged == /\ ~ granted
                  /\ ~ CoolingDown
                  /\ Cardinality(Recent) < MaxPerWindow
                  /\ granted' = TRUE
                  /\ UNCHANGED <<now, at, kept, cooldownUntil>>

\* evaluate: the rollback may run.
Grant == /\ ~ granted
         /\ ~ CoolingDown
         /\ kept' = Recent
         /\ Cardinality(Recent) < MaxPerWindow
         /\ granted' = TRUE
         /\ UNCHANGED <<now, at, cooldownUntil>>

\* record_rollback, after the registry commands have run.
Record == /\ granted
          /\ at' = Append(at, now)
          /\ kept' = kept \cup {Len(at) + 1}
          /\ cooldownUntil' = now + Cooldown
          /\ granted' = FALSE
          /\ UNCHANGED now

\* A granted rollback that was a preview or was skipped is not recorded.
Forgo == /\ granted
         /\ granted' = FALSE
         /\ UNCHANGED <<now, at, kept, cooldownUntil>>

LimiterNext == Tick \/ RefuseCooldown \/ RefuseWindow \/ Grant \/ Record \/ Forgo

LimiterSpec == LimiterInit /\ [][LimiterNext]_limiterVars

-----------------------------------------------------------------------------
\* Every variable keeps its type, and the list holds only recorded rollbacks.
LimiterTypeOK == /\ now \in Nat
                 /\ at \in Seq(Nat)
                 /\ kept \subseteq 1 .. Len(at)
                 /\ cooldownUntil \in Nat
                 /\ granted \in BOOLEAN

\* The rollbacks that fell into the window ending with rollback i.
InWindowOf(i) == {j \in 1 .. i : at[j] >= at[i] - Window}

(***************************************************************************)
(* "Within a rolling window, at most max_per_window rollbacks apply", for   *)
(* the window ending at any rollback, although the list is purged lazily    *)
(* and the clock moves between evaluate and record_rollback.                *)
(***************************************************************************)
WindowBound == \A i \in 1 .. Len(at) : Cardinality(InWindowOf(i)) <= MaxPerWindow

(***************************************************************************)
(* "After a rollback, cooldown blocks further auto-rollbacks until          *)
(* elapsed": two rollbacks are never recorded closer than the cooldown.     *)
(***************************************************************************)
CooldownSpacing == \A i \in 1 .. Len(at) : i > 1 => at[i] - at[i - 1] >= Cooldown

\* _rollback_times never holds more than max_rollbacks_per_window entries,
\* although only evaluate removes any.
ListBounded == Cardinality(kept) <= MaxPerWindow
=============================================================================
