----------------------------- MODULE StreakAudit -----------------------------
(***************************************************************************)
(* The forced audit of a losing streak (C2): the outcomes give the streak, *)
(* the fast loop reads it and the key that acknowledges it in Redis, the   *)
(* rule STREAK_AUDIT of Phase 0 blocks while there is none, and an         *)
(* operator acknowledges the streak last published.                        *)
(***************************************************************************)
EXTENDS Integers, Sequences

CONSTANTS
    Threshold,   \* STREAK_AUDIT_THRESHOLD
    Simulated,   \* the streaks that a scenario may simulate, 0 without one
    MaxResults,  \* bound: outcomes of a run
    Nil

VARIABLES
    losses,      \* the outcomes: TRUE is a LOSS
    simulated,   \* simulated_streak of the scenario in force
    acks,        \* the keys streak_ack:<n> of Redis, which never expire
    tick,        \* the streak the iteration has in hand, or Nil
    shown,       \* streak, and streak_acked, of the last iteration
    audits       \* the streaks that were on display at an audit (history)

vars == <<losses, simulated, acks, tick, shown, audits>>

Streaks == 0 .. MaxResults \cup Simulated

TypeOK ==
    /\ losses \in Seq(BOOLEAN) /\ simulated \in Simulated
    /\ acks \subseteq Streaks /\ tick \in Streaks \cup {Nil}
    /\ shown \in [streak: Streaks, acked: BOOLEAN]
    /\ audits \subseteq Streaks

Init ==
    /\ losses = <<>> /\ simulated = 0
    /\ acks = {} /\ tick = Nil /\ audits = {}
    /\ shown = [streak |-> 0, acked |-> FALSE]

-----------------------------------------------------------------------------

\* An outcome is appended, by hand or by an import.
Outcome(loss) ==
    /\ Len(losses) < MaxResults /\ losses' = Append(losses, loss)
    /\ UNCHANGED <<simulated, acks, tick, shown, audits>>

\* loss_streak: the losses since the last outcome that is none.
LossStreak == CHOOSE n \in 0 .. Len(losses) :
                 /\ \A i \in Len(losses) - n + 1 .. Len(losses) : losses[i]
                 /\ n < Len(losses) => ~losses[Len(losses) - n]

\* set_scenario
SetScenario(n) ==
    /\ simulated' = n
    /\ UNCHANGED <<losses, acks, tick, shown, audits>>

Larger(a, b) == IF a > b THEN a ELSE b

TickReadStreak ==
    /\ tick = Nil /\ tick' = Larger(LossStreak, simulated)
    /\ UNCHANGED <<losses, simulated, acks, shown, audits>>

\* Without Redis no streak is acknowledged.
TickPublish(redisUp) ==
    /\ tick # Nil /\ tick' = Nil
    /\ shown' = [streak |-> tick, acked |-> redisUp /\ tick \in acks]
    /\ UNCHANGED <<losses, simulated, acks, audits>>

\* Mutation: the acknowledgement names the streak of the moment.
AckedCurrent == LossStreak
Acked == shown.streak

\* ack_audit
AckAudit ==
    /\ acks' = acks \cup {Acked}
    /\ audits' = audits \cup {shown.streak}
    /\ UNCHANGED <<losses, simulated, tick, shown>>

\* rule_streak_audit
AuditBlocks == shown.streak >= Threshold /\ ~shown.acked

Next ==
    \/ \E loss \in BOOLEAN : Outcome(loss)
    \/ \E n \in Simulated : SetScenario(n)
    \/ \E up \in BOOLEAN : TickPublish(up)
    \/ TickReadStreak \/ AckAudit

Spec == Init /\ [][Next]_vars

-----------------------------------------------------------------------------

\* An audit covers what its operator had on display: a streak longer than any
\* that was on display at an audit blocks, whatever was lost meanwhile.
LongerStreakBlocks ==
    (shown.streak >= Threshold /\ \A a \in audits : a < shown.streak) => AuditBlocks
=============================================================================
