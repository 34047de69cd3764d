----------------------------- MODULE TrackRecord -----------------------------
(***************************************************************************)
(* The record of what decisions became: outcomes posted by hand, imports   *)
(* of NinjaTrader fills matched with the GOs (recon.py), and the gauges    *)
(* that unlock the sizing (projections.py).  No handler waits: each is one *)
(* step.                                                                   *)
(***************************************************************************)
EXTENDS Integers, Sequences, FiniteSets, Folds

CONSTANTS
    Instruments, Files,  \* a file is a sequence of fills, in the order of its rows
    Window,       \* RECON_MATCH_WINDOW_SECONDS
    Target,       \* CALIBRATION_TARGET_TRADES
    MinTrades,    \* RESULT_SCORE_MIN_TRADES
    Rounding,     \* one GO in so many is lost in a percentage rounded to a tenth (2000)
    MaxGos, MaxOutcomes, MaxImports, MaxNow   \* bounds of a run

VARIABLES
    clock,
    gos,          \* the GO decisions: instrument and ts
    recons,       \* ReconEvents
    outcomes,     \* OutcomeEvents
    imports       \* imports done

vars == <<clock, gos, recons, outcomes, imports>>

Results == -2 .. 2

TypeOK ==
    /\ clock \in 0 .. MaxNow /\ imports \in 0 .. MaxImports
    /\ gos \in Seq([instrument: Instruments, ts: 0 .. MaxNow])
    /\ recons \in Seq([go: 0 .. MaxGos, fill: Nat, of: 1 .. MaxImports,
                       file: Files])
    /\ outcomes \in Seq([go: 1 .. MaxGos, r: Results])

Init ==
    /\ clock = 0 /\ imports = 0
    /\ gos = <<>> /\ recons = <<>> /\ outcomes = <<>>

-----------------------------------------------------------------------------

Decide(instrument) ==
    /\ Len(gos) < MaxGos
    /\ gos' = Append(gos, [instrument |-> instrument, ts |-> clock])
    /\ UNCHANGED <<clock, recons, outcomes, imports>>

PassTime ==
    /\ clock < MaxNow /\ clock' = clock + 1
    /\ UNCHANGED <<gos, recons, outcomes, imports>>

\* post_outcome: a result entered by hand, for any decision and at any time.
PostOutcome(g, r) ==
    /\ g \in DOMAIN gos /\ Len(outcomes) < MaxOutcomes
    /\ outcomes' = Append(outcomes, [go |-> g, r |-> r])
    /\ UNCHANGED <<clock, gos, recons, imports>>

-----------------------------------------------------------------------------

Gap(g, fill) == IF fill.ts > gos[g].ts THEN fill.ts - gos[g].ts ELSE gos[g].ts - fill.ts

Compatible(g, fill) ==
    fill.instrument = gos[g].instrument /\ Gap(g, fill) <= Window

\* Mutation: only a matched decision counts as reconciled.
AlreadyMatched == {recons[i].go : i \in {j \in DOMAIN recons : recons[j].fill # 0}}

\* Any verdict, a GO without a fill too, is final.
AlreadyReconciled == {recons[i].go : i \in DOMAIN recons}

Candidates == DOMAIN gos \ AlreadyReconciled

\* Mutation: a fill stays available once matched.
FreeAlways(used, file) == DOMAIN file
Free(used, file) == DOMAIN file \ used

\* The fill of decision g given those already used: the nearest in time, the
\* first of the file among equals; 0 when there is none.
Nearest(g, used, file) ==
    LET options == {i \in Free(used, file) : Compatible(g, file[i])} IN
    IF options = {} THEN 0
    ELSE CHOOSE i \in options : \A j \in options :
            \/ Gap(g, file[i]) < Gap(g, file[j])
            \/ Gap(g, file[i]) = Gap(g, file[j]) /\ i <= j

\* The decisions choose in the order of the log.
Matching(file) ==
    LET fillOf[g \in 0 .. Len(gos)] ==
          IF g = 0 \/ g \notin Candidates THEN 0
          ELSE Nearest(g, {fillOf[h] : h \in 0 .. g - 1}, file)
    IN fillOf

\* The members of S in their order, and what op makes of them.
Ranked(S) == [i \in 1 .. Cardinality(S) |-> CHOOSE x \in S : Cardinality({y \in S : y < x}) = i - 1]
Ordered(S, op(_)) == [i \in DOMAIN Ranked(S) |-> op(Ranked(S)[i])]

\* reconcile: the matched, with an outcome each, then the GOs without a fill,
\* then the fills without a GO.
Import(file) ==
    LET fillOf == Matching(file)
        matched == {g \in Candidates : fillOf[g] # 0}
        event(g, f) == [go |-> g, fill |-> f, of |-> imports + 1, file |-> file]
        ofGo(g) == event(g, fillOf[g])
        ofFill(f) == event(0, f)
        outcome(g) == [go |-> g, r |-> file[fillOf[g]].r]
    IN
    /\ imports < MaxImports /\ imports' = imports + 1
    /\ \A i \in DOMAIN file : file[i].ts <= clock
    /\ Len(outcomes) + Cardinality(matched) <= MaxOutcomes
    /\ recons' = recons \o Ordered(matched, ofGo) \o Ordered(Candidates \ matched, ofGo)
                        \o Ordered(DOMAIN file \ {fillOf[g] : g \in matched}, ofFill)
    /\ outcomes' = outcomes \o Ordered(matched, outcome)
    /\ UNCHANGED <<clock, gos>>

-----------------------------------------------------------------------------

MatchedGos == {recons[i].go : i \in {j \in DOMAIN recons : recons[j].fill # 0}} \ {0}

\* _reconciled_r_multiples: every outcome of a matched decision.
Reconciled == {i \in DOMAIN outcomes : outcomes[i].go \in MatchedGos}

SumOver(S, f(_)) == MapThenFoldSet(+, 0, f, LAMBDA T : CHOOSE x \in T : TRUE, S)

\* sharpe: the mean over the deviation, rounded to a thousandth, positive from
\* 0.0005 on (the square of its inverse is 4000000); absent for one result and
\* for equal ones.
SharpePositive ==
    LET n == Cardinality(Reconciled)
        total == SumOver(Reconciled, LAMBDA i : outcomes[i].r)
        spread == n * SumOver(Reconciled, LAMBDA i : outcomes[i].r * outcomes[i].r) - total * total
    IN total > 0 /\ spread > 0 /\ n * spread <= 4000000 * total * total * (n - 1)

\* recon_rate rounds to 100.0: the unmatched are at most one GO in Rounding.
AllReconciled == Cardinality(DOMAIN gos \ MatchedGos) <= Len(gos) \div Rounding

\* calibration: the two gauges.  selfcheck_rate is 100.0, each GO carrying one.
SizingUnlocked ==
    /\ Cardinality(Reconciled) >= Target /\ Cardinality(Reconciled) >= MinTrades
    /\ SharpePositive
    /\ gos # <<>> /\ AllReconciled

Next ==
    \/ \E i \in Instruments : Decide(i)
    \/ \E g \in 1 .. MaxGos, r \in {-1, 1} : PostOutcome(g, r)
    \/ \E file \in Files : Import(file)
    \/ PassTime

Spec == Init /\ [][Next]_vars

-----------------------------------------------------------------------------

\* A GO has one verdict for ever, and a fill of an import proves one GO.
ReconciledOnce ==
    \A i, j \in DOMAIN recons : i < j =>
        /\ recons[i].go # 0 => recons[j].go # recons[i].go
        /\ recons[i].of = recons[j].of /\ recons[i].fill # 0 => recons[j].fill # recons[i].fill

\* An import never leaves a GO without a fill while a fill of that file, close
\* enough and of the same instrument, is left without a GO.
NothingLeftToMatch ==
    \A i, j \in DOMAIN recons :
        (recons[i].of = recons[j].of /\ recons[i].fill = 0 /\ recons[j].go = 0) =>
            LET f == recons[j].file[recons[j].fill]
                g == gos[recons[i].go]
            IN f.instrument = g.instrument => f.ts - g.ts \notin -Window .. Window

\* Matching is one to one, final, and misses nothing (recon.py:114-172).
MatchingIsSound == ReconciledOnce /\ NothingLeftToMatch

\* The GOs that an import found without a fill.
Anomalies == {recons[i].go : i \in {j \in DOMAIN recons : recons[j].fill = 0}} \ {0}

\* A GO that an import found without a fill stays unreconciled: once there are
\* enough of them to show in the rounded rate, the sizing is locked, and no later
\* import, no outcome entered by hand and no new trade reconciles one of them.
\* Short of Rounding decisions, one is enough (projections.py:185).
AnomalyLocksSizing == Cardinality(Anomalies) > Len(gos) \div Rounding => ~SizingUnlocked
=============================================================================
