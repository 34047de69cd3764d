------------------------------- MODULE Signals -------------------------------
(***************************************************************************)
(* Everything that judges one state of the schema: Phase 0, the execution  *)
(* strategies of S1 (sony.py), the macro pipeline of S2 (youssef.py,       *)
(* macro_score.py), the unified signal (scoring.py), the console           *)
(* (orchestrator.py) and the Live mode (live_mode.py).  The desk is a set  *)
(* of readings that may be lost one notch at a time.  Scores are in tenths *)
(* of a point, ratios in hundredths, instants in minutes.                  *)
(***************************************************************************)
EXTENDS Readings, FiniteSets, Sequences

CONSTANTS
    Desks,       \* the states of the schema to start from
    MaxLost      \* bound: notches lost

VARIABLES
    desk,        \* Nil, then one of Desks, then with readings lost
    lost         \* notches lost

vars == <<desk, lost>>

\* The readings of a desk; its other fields are facts: minute, montreal, force, redisUp,
\* heartbeatAge, streak, acked, events, now, tier, calibrated, question.
Fields == {"svs", "chop", "cvd", "gex", "vix", "absorption", "ratio", "area", "vpoc", "lvn", "vvix",
           "dxy", "eurusd", "realRates", "rms"}

Readable(values) == {Absent} \cup [value : values, freshness : {"FRESH", "STALE"}]
Tiers == {"GREEN", "YELLOW", "ORANGE", "RED"}

\* A state of the schema with what judges it; montreal is the offset of the zone of Montreal.
Schema ==
    [svs : Readable(Int), chop : Readable(Int), cvd : Readable(Int), gex : Readable(Int),
     vix : Readable(Int), absorption : Readable(BOOLEAN), ratio : Readable(Int),
     area : Readable([val : Int, vah : Int]), vpoc : Readable(Int), lvn : Readable(BOOLEAN),
     vvix : Readable(Int), dxy : Readable(Int), eurusd : Readable(Int), realRates : Readable(Int),
     rms : Readable(Int), minute : 0 .. 1439, montreal : {240, 300},
     force : {Nil, "LONDRES_OBS", "OVERLAP_NY", "HORS_SESSION"}, redisUp : BOOLEAN,
     heartbeatAge : Optional, streak : Int, acked : BOOLEAN,
     events : SUBSET [ts : Int, impact : {"HIGH", "MED", "LOW"}], tier : Tiers, calibrated : BOOLEAN,
     tilt : Optional, cascade : [nq : Optional, zn : Optional, dx : Optional],
     g : Optional, pi : Optional, scores : [1 .. 5 -> Optional],
     in : [taylor : Optional, phillips : Optional, beer : Optional, carry : Optional,
           cycle : Optional, turn : Optional, rr : Optional, momentum : Optional],
     question : SUBSET STRING]

Clamp(x, lo, hi) == IF x < lo THEN lo ELSE IF x > hi THEN hi ELSE x
Abs(x) == IF x < 0 THEN -x ELSE x
Or(x, default) == IF x = Nil THEN default ELSE x

-----------------------------------------------------------------------------
(* The clocks: minute is the minute of the day in UTC.                     *)

\* _session_marker: the scenario's, or fixed windows at UTC+1.
Marker(d) ==
    LET cet == (d.minute + 60) % 1440 IN
    IF d.force # Nil THEN d.force
    ELSE IF 480 <= cet /\ cet < 720 THEN "LONDRES_OBS"
    ELSE IF 870 <= cet /\ cet < 1050 THEN "OVERLAP_NY" ELSE "HORS_SESSION"

SvsWindow == <<570, 660>>
MrWindow == <<930, 1020>>
Local(d) == (d.minute + 1440 - d.montreal) % 1440

Band(window, minute) ==
    LET away == {Abs(minute - window[1]), Abs(minute - window[2])} IN
    IF window[1] <= minute /\ minute <= window[2] THEN "FENETRE"
    ELSE IF \E m \in away : m <= 30 THEN "TAMPON" ELSE "ZONE_MORTE"

-----------------------------------------------------------------------------
(* Sizing by the VIX: three tables.                                        *)

\* Mutation: the last tier excludes its limit.
SonySizingStrict(vix) == IF vix < 15 THEN 100 ELSE IF vix < 20 THEN 75 ELSE IF vix < 30 THEN 50 ELSE 0

\* _vix_sizing_tier and _mr_vix_modifier, in percent.
SonySizing(vix) == IF vix < 15 THEN 100 ELSE IF vix < 20 THEN 75 ELSE IF vix <= 30 THEN 50 ELSE 0

\* _vix_pour_sizing: the multiplier of a FRESH reading only.
VixForSizing(meta) == VixMultiplier(IF meta.freshness = "FRESH" THEN meta.value ELSE Nil)

\* get_vix_regime's veto.
Veto(vix) == vix # Nil /\ vix > VixCrit

-----------------------------------------------------------------------------
(* The strategies: the statuses of their gates, whether they are eligible  *)
(* and their size.                                                         *)

Status(value, ok) == IF value = Nil THEN "ABSENT" ELSE IF ok THEN "PASS" ELSE "FAIL"
Eligible(gates) == gates \subseteq {"PASS"}

Svs(d) ==
    LET band  == IF Marker(d) = "OVERLAP_NY" THEN "FENETRE" ELSE Band(SvsWindow, Local(d))
        gates == {Status(band, band = "FENETRE"),
                  Status(d.chop.value, d.chop.value # Nil /\ d.chop.value < ChopCrit),
                  Status(d.absorption.value, d.absorption.value = FALSE),
                  Status(d.vix.value, d.vix.value # Nil /\ d.vix.value <= 30)}
        share == CASE band = "FENETRE" -> 100 [] band = "TAMPON" -> 75 [] OTHER -> 50
    IN  [eligible |-> Eligible(gates),
         size |-> IF Eligible(gates) THEN SonySizing(d.vix.value) * share ELSE 0]

\* _mr_ci_buffer, in ticks.
CiBuffer(chop) ==
    IF chop > 900 THEN 2 ELSE IF chop >= 750 THEN 5 ELSE IF chop > ChopCrit THEN 3 ELSE Nil

\* The gate of the backwardation has no source: always absent.
MeanReversion(d) ==
    LET band  == Band(MrWindow, Local(d))
        gates == {Status(band, band = "FENETRE"),
                  Status(d.chop.value, d.chop.value # Nil /\ CiBuffer(d.chop.value) # Nil),
                  Status(d.vix.value, d.vix.value # Nil /\ SonySizing(d.vix.value) # 0),
                  "ABSENT"}
    IN  [eligible |-> Eligible(gates),
         size |-> IF Eligible(gates) THEN SonySizing(d.vix.value) * (IF band = "FENETRE" THEN 100 ELSE 75) ELSE 0]

-----------------------------------------------------------------------------
(* The macro pipeline.                                                     *)

\* update_regime: one step along the tiers, with dead zones.
UpdateRegime(tier, vix, kurtosis) ==
    LET step == CASE tier = "GREEN"  /\ vix > 18 -> "YELLOW"
                  [] tier = "YELLOW" /\ vix < 14 -> "GREEN"
                  [] tier = "YELLOW" /\ vix > 26 -> "ORANGE"
                  [] tier = "ORANGE" /\ vix < 22 -> "YELLOW"
                  [] tier = "ORANGE" /\ vix > 37 -> "RED"
                  [] tier = "RED"    /\ vix < 33 -> "ORANGE"
                  [] OTHER -> tier
    IN  IF vix = Nil THEN tier ELSE IF kurtosis # Nil /\ kurtosis > 9 THEN "RED" ELSE step

\* GATES, in tenths: the multiplier of a carry.
Carry(tier) == CASE tier = "GREEN" -> 10 [] tier = "YELLOW" -> 7 [] tier = "ORANGE" -> 4 [] tier = "RED" -> 0

\* compute_arbitrages: the value of each, its threshold, and the factor and cap of its conviction;
\* deltas in hundredths.  The value is Nil when an input is absent.
Arbitrage(value, threshold, factor, cap) ==
    IF value = Nil \/ Abs(value) <= threshold THEN [active |-> FALSE, long |-> Nil, conviction |-> 0]
    ELSE [active |-> TRUE, long |-> value > 0, conviction |-> Clamp((Abs(value) * factor) \div threshold, 0, cap)]

Arbitrages(in, tier) == <<
    Arbitrage(in.taylor, 30, 50, 90),
    Arbitrage(in.phillips, 25, 50, 90),
    Arbitrage(IF in.beer = Nil THEN Nil ELSE -in.beer, 150, 40, 60),
    Arbitrage(IF in.carry = Nil THEN Nil ELSE (in.carry * Carry(tier)) \div 10, 200, 50, 80),
    Arbitrage(in.cycle, 50, (40 * (1000 + 3 * Abs(Or(in.turn, 0)))) \div 1000, 70),
    Arbitrage(IF in.rr = Nil \/ in.momentum = Nil \/ Abs(in.rr) <= Abs(in.momentum) THEN Nil ELSE in.rr,
              150, 40, 60) >>

\* classify_quadrant: the quadrant only.
Quadrant(g, pi) ==
    CASE g = Nil \/ pi = Nil -> Nil
      [] g >= 0 /\ pi >= 0 -> "SURCHAUFFE"
      [] g < 0 /\ pi >= 0 -> "STAGFLATION"
      [] g < 0 /\ pi < 0 -> "DESINFLATION"
      [] OTHER -> "GOLDILOCKS"

\* WEIGHTS of D1 to D5, in hundredths.
Weights(quadrant) ==
    CASE quadrant = "SURCHAUFFE"   -> <<15, 35, 30, 10, 10>>
      [] quadrant = "GOLDILOCKS"   -> <<20, 15, 10, 30, 25>>
      [] quadrant = "STAGFLATION"  -> <<15, 15, 25, 25, 20>>
      [] quadrant = "DESINFLATION" -> <<30, 30, 10, 15, 15>>

\* The raw score, in thousandths, whose tanh times the multiplier of the tier reaches 0.05.
FluxBar(tier) == CASE tier \in {"GREEN", "YELLOW"} -> 50 [] tier = "ORANGE" -> 71 [] tier = "RED" -> 168

\* compute_flux1: the direction; scores is D1 to D5 in tenths.
Flux1(scores, quadrant, tier) ==
    IF quadrant = Nil \/ (\E i \in 1 .. 5 : scores[i] = Nil) THEN Nil
    ELSE LET w   == Weights(quadrant)
             raw == w[1]*scores[1] + w[2]*scores[2] + w[3]*scores[3] + w[4]*scores[4] + w[5]*scores[5]
         IN  IF raw > FluxBar(tier) THEN "LONG" ELSE IF raw < -FluxBar(tier) THEN "SHORT" ELSE "NEUTRE"
-----------------------------------------------------------------------------
(* The macro score of S2, and the unified signal.                          *)

\* _coherence: the share of the cascade that agrees with EUR/USD.
Coherence(d) ==
    LET votes  == {<<"nq", d.cascade.nq>>, <<"zn", d.cascade.zn>>, <<"dx", d.cascade.dx>>, <<"vix", d.vix.value>>}
        cast   == {v \in votes : v[2] # Nil}
        agrees == {v \in cast : (IF v[1] = "nq" THEN v[2] ELSE -v[2]) * d.eurusd.value > 0}
    IN  IF d.eurusd.value = Nil \/ cast = {} THEN Nil
        ELSE (1000 * Cardinality(agrees)) \div Cardinality(cast)

\* compute_s2_macro_score: withheld until it is calibrated.  The tilt is the mean of the matrix.
MacroScore(d) ==
    LET gate == Clamp(1000 + d.realRates.value \div 2, 900, 1100) IN
    IF ~d.calibrated \/ Coherence(d) = Nil \/ d.tilt = Nil \/ d.realRates.value = Nil THEN Nil
    ELSE Clamp((((Coherence(d) * 5 + d.tilt * 4) \div 10 + 100) * gate) \div 1000, 0, 1000)

Structure(d) ==
    LET area == d.area.value
        off  == Abs(2 * d.vpoc.value - area.val - area.vah)
    IN  IF d.vpoc.value = Nil \/ area = Nil \/ area.vah <= area.val THEN Nil
        ELSE Clamp(((1000 - (off * 1000) \div (area.vah - area.val)) * 9) \div 10
                   + (IF d.lvn.value = TRUE THEN 100 ELSE 0), 0, 1000)

\* A ratio of 0 counts as no ratio: one half.
OrderFlow(d) ==
    LET ratio == IF d.ratio.value \in {Nil, 0} THEN 50 ELSE d.ratio.value IN
    IF d.cvd.value = Nil THEN Nil
    ELSE Clamp((Clamp(Abs(d.cvd.value) \div 2, 0, 1000) * 6 + Clamp(Abs(ratio - 50) * 20, 0, 1000) * 3) \div 10
               + (IF d.absorption.value = TRUE THEN 100 ELSE 0), 0, 1000)

\* A VVIX that is absent counts as 100.
Sentiment(d) ==
    IF d.vix.value = Nil THEN Nil
    ELSE (Clamp(((VixCrit - d.vix.value) * 1000) \div VixCrit, 0, 1000) * 7
          + Clamp(((130 - Or(d.vvix.value, 100)) * 1000) \div 60, 0, 1000) * 3) \div 10

\* The share of fresh readings.
Quality(d) ==
    LET judged == {"svs", "chop", "cvd", "ratio", "vpoc", "gex", "vvix", "dxy"} IN
    IF \A f \in judged : ~Usable(d[f]) THEN Nil
    ELSE (Cardinality({f \in judged : d[f].freshness = "FRESH"}) * 1000) \div Cardinality(judged)

\* compute_unified_signal: a component without data contributes nothing; without the macro score
\* the weights are renormalised.
UnifiedSignal(d) ==
    LET macro == MacroScore(d)
        sum == 35 * Or(Structure(d), 0) + 25 * Or(OrderFlow(d), 0) + 20 * Or(macro, 0)
               + 15 * Or(Sentiment(d), 0) + 5 * Or(Quality(d), 0)
    IN  IF {Structure(d), OrderFlow(d), macro, Sentiment(d), Quality(d)} = {Nil} THEN Nil
        ELSE sum \div (IF macro = Nil THEN 80 ELSE 100)

\* _sync_verdict: the sign of the CVD against the bias of EUR/USD, in thousandths.
Sync(d) ==
    IF {d.cvd.freshness, d.eurusd.freshness} # {"FRESH"} THEN "PARTIAL"
    ELSE IF d.cvd.value * (d.eurusd.value - 1085) >= 0 THEN "ALIGNED" ELSE "DIVERGENT"

-----------------------------------------------------------------------------
(* The verdicts: Phase 0, the console and the Live mode.                   *)

Opens(d) ==
    Phase0Open([redisUp |-> d.redisUp, heartbeatAge |-> d.heartbeatAge, svs |-> d.svs, chop |-> d.chop,
                cvd |-> d.cvd, gex |-> d.gex, vix |-> d.vix, marker |-> Marker(d), events |-> d.events,
                now |-> d.minute, streak |-> d.streak, acked |-> d.acked, rms |-> d.rms.value])

Level(red, yellow) == IF red THEN "ROUGE" ELSE IF yellow THEN "JAUNE" ELSE "VERT"

\* The six sources of the console.
Levels(d) ==
    LET svs == d.svs.value  chop == d.chop.value  vix == d.vix.value  rms == d.rms.value IN
    [SVS     |-> Level(svs = Nil \/ svs < 30, svs < 50 \/ d.svs.freshness = "STALE"),
     S1      |-> Level(chop = Nil \/ chop >= ChopCrit, chop >= 500),
     News    |-> Level(vix = Nil \/ vix > VixCrit, vix > 20),
     RMS     |-> Level(rms = Nil \/ rms >= RmsCrit, rms >= RmsWarn),
     WS      |-> Level(Sync(d) = "DIVERGENT", Sync(d) = "PARTIAL"),
     Youssef |-> Level(d.calibrated /\ d.realRates.value = Nil, ~d.calibrated)]

Console(d) ==
    LET of(level) == {s \in DOMAIN Levels(d) : Levels(d)[s] = level}
        reds == of("ROUGE")  yellows == of("JAUNE")
    IN  [risk |-> Level(reds # {}, yellows # {}),
         action |-> IF reds # {} /\ (yellows # {} \/ Cardinality(reds) > 1) THEN "BLOCK_ENTRY"
                    ELSE IF reds # {} \/ Cardinality(yellows) >= 3 THEN "REQUEST_ACK" ELSE "NONE"]

Missing(d) == {f \in {"vix", "chop", "cvd", "gex"} : d[f].value = Nil}

\* market_reading.
Reading(d) ==
    IF Missing(d) # {} \/ ~Opens(d) \/ d.vix.value > VixCrit \/ d.chop.value >= ChopCrit THEN "ROUGE"
    ELSE IF d.vix.value > 22 \/ d.chop.value > 550 \/ (d.rms.value # Nil /\ d.rms.value >= RmsWarn) THEN "AMBRE"
    ELSE "VERT"

\* answer: what it says to a question, the set of the subjects it names.
Answer(d) ==
    LET has(words) == d.question \cap words # {} IN
    CASE has({"scope"}) -> "OUT_OF_SCOPE"
      [] ~has({"scope"}) /\ Missing(d) # {} /\ ~has({"why", "data"}) -> "NO_DATA"
      [] OTHER ->
         IF ~Opens(d) /\ has({"enter", "go"}) THEN "LOCKED"
         ELSE IF has({"why", "blocked"}) THEN (IF Opens(d) THEN "NOTHING_BLOCKED" ELSE "BLOCKED")
         ELSE IF has({"enter"}) THEN
             (IF d.vix.value # Nil /\ d.vix.value > VixCrit THEN "VIX_TOO_HIGH"
              ELSE IF d.chop.value # Nil /\ d.chop.value >= ChopCrit THEN "CHOP_TOO_HIGH" ELSE "OPEN")
         ELSE IF has({"changed", "absorption"}) THEN "FLOW"
         ELSE IF has({"context"}) THEN
             (IF ~Opens(d) THEN "UNFAVORABLE"
              ELSE IF Or(d.chop.value, 0) > 550 \/ Or(d.vix.value, 0) > 22 THEN "MIXED" ELSE "FAVORABLE")
         ELSE IF has({"simple"}) THEN (IF Opens(d) THEN "READABLE" ELSE "PROTECTED")
         ELSE "FACTS"

-----------------------------------------------------------------------------
Lose(reading) ==
    IF reading.freshness = "FRESH" THEN [reading EXCEPT !.freshness = "STALE"] ELSE Absent

Without(d, f) == [d EXCEPT ![f] = Lose(@)]

TypeOK == lost \in 0 .. MaxLost /\ (desk = Nil \/ desk \in Schema)

Init == desk = Nil /\ lost = 0

Observe == desk = Nil /\ (\E d \in Desks : desk' = d) /\ UNCHANGED lost

LoseOne(f) ==
    /\ desk # Nil /\ lost < MaxLost /\ Usable(desk[f])
    /\ desk' = Without(desk, f) /\ lost' = lost + 1

Next == Observe \/ \E f \in Fields : LoseOne(f)

Spec == Init /\ [][Next]_vars

-----------------------------------------------------------------------------
Rank(level) == CASE level = "VERT" -> 0 [] level \in {"JAUNE", "AMBRE"} -> 1 [] level = "ROUGE" -> 2

\* A reading that grows old or vanishes never opens Phase 0, brightens a verdict, enlarges a
\* strategy or raises the score.  Left out where the code decides otherwise: the RMS for Phase 0
\* and the Live mode, the sync of CVD and EUR/USD for the console, the VVIX and a calibrated macro
\* score for the score (phase0.py:121-130, engine.py:307-321, scoring.py:60-66).
LosingDataNeverHelps ==
    desk # Nil => \A f \in Fields :
        LET less == Without(desk, f) IN
        /\ f # "rms" => /\ Opens(less) => Opens(desk)
                        /\ Rank(Reading(less)) >= Rank(Reading(desk))
        /\ f \notin {"cvd", "eurusd"} => Rank(Console(less).risk) >= Rank(Console(desk).risk)
        /\ Svs(less).size <= Svs(desk).size /\ VixForSizing(less.vix) <= VixForSizing(desk.vix)
        /\ f # "vvix" /\ ~desk.calibrated => Or(UnifiedSignal(less), -1) <= Or(UnifiedSignal(desk), -1)

\* The limits written in seven places agree at their boundaries: what Phase 0 lets through has a
\* size in every table and a verdict that is not red, what its VIX rule refuses is refused by all,
\* a strategy is eligible only inside a session, and no answer calls a locked desk open
\* (phase0.py:82-100, sony.py:36-62, lsr_tuning.py:110-141, live_mode.py:109-254).
LimitsAgree ==
    desk # Nil =>
        LET vix == desk.vix.value IN
        /\ Opens(desk) => /\ SonySizing(vix) > 0 /\ ~Veto(vix)
                          /\ desk.vix.freshness = "FRESH" => VixForSizing(desk.vix) = SonySizing(vix)
                          /\ Levels(desk).S1 # "ROUGE" /\ Levels(desk).News # "ROUGE"
                          /\ Reading(desk) # "ROUGE"
        /\ (vix # Nil /\ ~VixLimit(desk.vix)) =>
               SonySizing(vix) = 0 /\ Veto(vix) /\ VixForSizing(desk.vix) = 0 /\ Levels(desk).News = "ROUGE"
        /\ Svs(desk).eligible =>
               VixLimit(desk.vix) /\ ChopLimit(desk.chop) /\ (desk.force = Nil => SessionWindow(Marker(desk)))
        /\ ~MeanReversion(desk).eligible
        /\ Answer(desk) \in {"OPEN", "FAVORABLE", "NOTHING_BLOCKED", "READABLE"} =>
               Opens(desk) /\ Reading(desk) # "ROUGE"
        /\ Or(UnifiedSignal(desk), 0) \in 0 .. 1000

\* The pipeline of S2: a tier settles under a constant VIX, the weights of a quadrant add up to
\* one, no carry survives the RED tier, and an arbitrage is never more convinced with one input
\* less (youssef.py:32-51, 61-68 and 132-207).
PipelineIsStable ==
    desk # Nil =>
        LET next(tier) == UpdateRegime(tier, desk.vix.value, Nil)
            w == Weights(Quadrant(desk.g, desk.pi))
            lost1(k) == Arbitrages([desk.in EXCEPT ![k] = Nil], desk.tier)
            all == Arbitrages(desk.in, desk.tier)
        IN  /\ next(next(next(next(desk.tier)))) = next(next(next(desk.tier)))
            /\ Quadrant(desk.g, desk.pi) # Nil => w[1] + w[2] + w[3] + w[4] + w[5] = 100
            /\ ~Arbitrages(desk.in, "RED")[4].active
            /\ \A k \in DOMAIN desk.in, i \in 1 .. 6 : lost1(k)[i].conviction <= all[i].conviction
            /\ Flux1(desk.scores, Quadrant(desk.g, desk.pi), "RED") \in
                   {Flux1(desk.scores, Quadrant(desk.g, desk.pi), "GREEN"), "NEUTRE"}

\* The boundaries and the pipeline together.
RulesAreCoherent == LimitsAgree /\ PipelineIsStable

\* What phase0.py:3 says of itself: a dependency that is absent blocks.
AbsentBlocks == desk # Nil => \A f \in Fields : Opens(Without(desk, f)) => Opens(desk)
=============================================================================
