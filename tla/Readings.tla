------------------------------ MODULE Readings -------------------------------
(***************************************************************************)
(* A reading with its pedigree (meta.py), and the rules of Phase 0 that    *)
(* judge readings (phase0.py).  A choppiness index is in tenths, a VIX in  *)
(* points.                                                                 *)
(***************************************************************************)
EXTENDS Integers

CONSTANTS
    Nil,           \* nothing
    Pause, Warn    \* MACRO_PAUSE_WINDOW_S, MACRO_WARN_WINDOW_S

\* A number, or nothing where there is none or it is not finite.
Optional == Int \cup {Nil}

VixCrit == 30

Absent == [value |-> Nil, freshness |-> "ABSENT"]

\* raw is what Redis holds: [value, ts], or Nil.  A reading ahead of the clock has a negative age.
MakeMeta(raw, now, stale, absent) ==
    IF raw = Nil \/ raw.value = Nil \/ now - raw.ts > absent THEN Absent
    ELSE [value |-> raw.value, freshness |-> IF now - raw.ts > stale THEN "STALE" ELSE "FRESH"]

Usable(meta) == meta.freshness # "ABSENT"

\* Mutation: what is not seen is calm.
VixMultiplierCalm(vix) ==
    IF vix = Nil THEN 100 ELSE IF vix > VixCrit THEN 0 ELSE IF vix < 15 THEN 100 ELSE IF vix < 20 THEN 75 ELSE 50

\* lsr_tuning.vix_multiplier, in percent: what is not seen is not calm.
VixMultiplier(vix) ==
    IF vix = Nil \/ vix > VixCrit THEN 0 ELSE IF vix < 15 THEN 100 ELSE IF vix < 20 THEN 75 ELSE 50

-----------------------------------------------------------------------------
(* The macro risk guard: an event is [ts, impact].                         *)

Distance(ts, now) == IF ts > now THEN ts - now ELSE now - ts

MacroRegime(events, now) ==
    LET highs == {e \in events : e.impact = "HIGH"} IN
    IF \E e \in highs : Distance(e.ts, now) <= Pause THEN "EXECUTION_PAUSED"
    ELSE IF \E e \in highs : Pause < e.ts - now /\ e.ts - now <= Warn THEN "WARNING"
    ELSE "NORMAL"

-----------------------------------------------------------------------------
(* The predicates of Phase 0.                                              *)

ChopCrit == 618
HeartbeatMax == 5
StreakThreshold == 8
RmsWarn == 3
RmsCrit == 5

EngineFresh(heartbeatAge) == heartbeatAge # Nil /\ heartbeatAge <= HeartbeatMax
DataFresh(critical) == \A meta \in critical : Usable(meta)
VixLimit(vix) == vix.value # Nil /\ vix.value <= VixCrit
ChopLimit(chop) == chop.value # Nil /\ chop.value < ChopCrit
SessionWindow(marker) == marker # "HORS_SESSION"
\* An absent calendar has no event: it passes.
MacroBlackout(events, now) == MacroRegime(events, now) # "EXECUTION_PAUSED"
StreakAudit(streak, acked) == streak < StreakThreshold \/ acked
RmsSeverity(rms) ==
    IF rms = Nil THEN Nil ELSE IF rms >= RmsCrit THEN "CRIT" ELSE IF rms >= RmsWarn THEN "WARN" ELSE Nil

\* evaluate_phase0 over s: the readings and facts of one fast tick.
Phase0Open(s) ==
    /\ s.redisUp
    /\ EngineFresh(s.heartbeatAge)
    /\ DataFresh({s.svs, s.chop, s.cvd, s.gex, s.vix})
    /\ VixLimit(s.vix)
    /\ ChopLimit(s.chop)
    /\ SessionWindow(s.marker)
    /\ MacroBlackout(s.events, s.now)
    /\ StreakAudit(s.streak, s.acked)
    /\ RmsSeverity(s.rms) # "CRIT"
=============================================================================
