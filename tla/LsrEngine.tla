----------------------------- MODULE LsrEngine -------------------------------
(***************************************************************************)
(* The LSR engine of lsr-engine (TypeScript): pure functions over a market,*)
(* an account, a setup and a runtime state that its driver hands back at   *)
(* each call.  The driver is not in the repository: it evaluates any       *)
(* attempt, closes the trades it has opened and rolls the day over.        *)
(* Units as in LsrRules.                                                   *)
(***************************************************************************)
EXTENDS Integers, Sequences, FiniteSets, FiniteSetsExt, Functions

CONSTANTS
    Nil,                        \* nothing, or a number that is not finite
    Attempts,                   \* what a driver may submit: [market, account, setup]; an event of the
                                \* calendar is [ts, impact, before, after]
    NewsBefore, NewsAfter,      \* f5DefaultBlackoutBeforeMs, f5DefaultBlackoutAfterMs
    Cooldown, LossTrigger,      \* f6CooldownMs, f6ConsecutiveLossTrigger
    Fomo, ResubmitLockout,      \* f7FomoWindowMs, f7ResubmitLockoutMs
    StopDuration,               \* f8StopDurationMs
    RestrictedCap, NormalCap,   \* f8RestrictedMaxTradesPerDay, normalMaxTradesPerDay
    MaxNow                      \* bound: instants

VARIABLES
    state,     \* the LsrRuntimeState: [day, losses, trades, lockout, stop, rejected]
    now,       \* the clock
    open,      \* trades approved and not closed
    seen       \* ghost: what was decided, apart from state

vars == <<state, now, open, seen>>

-----------------------------------------------------------------------------
\* MES_TUNING and MNQ_TUNING, INSTRUMENT_SPECS.
Calibration ==
    [MES |-> [spread |-> 1, depth |-> 150, tpMax |-> 5, tpMin |-> 3, margin |-> 1, offset |-> 1, cancel |-> 3,
              bufferMin |-> 1, bufferMax |-> 2, b1 |-> 40, b2 |-> 60, b3 |-> 30, b4 |-> 30, worth |-> 125],
     MNQ |-> [spread |-> 2, depth |-> 60, tpMax |-> 8, tpMin |-> 4, margin |-> 1, offset |-> 1, cancel |-> 4,
              bufferMin |-> 2, bufferMax |-> 4, b1 |-> 40, b2 |-> 60, b3 |-> 30, b4 |-> 30, worth |-> 50]]

HardBlock == 30

\* vixMultiplier, in percent.
RegimeMultiplier(vix) == CASE vix > HardBlock -> 0 [] vix < 15 -> 100 [] vix >= 15 /\ vix < 20 -> 75 [] OTHER -> 50

\* deriveAccountFrontiers: a firm without a daily limit has a dll of Nil.
Loss(a) == Max({0, a.dayStart - a.equity})
Allocation(a) == Max({0, IF a.dll = Nil THEN a.dayStart - a.floor ELSE Min({a.dayStart - a.floor, a.dll})})
Remaining(a) == Max({0, IF a.dll = Nil THEN a.equity - a.floor ELSE Min({a.equity - a.floor, Max({0, a.dll - Loss(a)})})})
Drawdown(a, percent) ==
    LET buffer == a.capital - a.campaignFloor IN buffer <= 0 \/ 100 * (a.capital - a.equity) >= percent * buffer

\* checkDynamicAtr: a missing ATR blocks.
Expanding(fast, slow) == fast <= 0 \/ slow <= 0 \/ 2 * fast > 3 * slow

\* validateBookProximityDepth.
Deep(sizes, least) == FoldFunction(+, 0, SubSeq(sizes, 1, Min({3, Len(sizes)}))) >= least

\* f5News: an event may have a window of its own, before and after.
Blackout(calendar, instant) ==
    LET window(own, default) == IF own = Nil THEN default ELSE own IN
    \E e \in calendar :
        /\ e.impact = "RED" /\ e.ts - window(e.before, NewsBefore) <= instant
        /\ instant <= e.ts + window(e.after, NewsAfter)

Confluent(setup) == setup.onVpoc /\ setup.secondary

\* The gates of the order flow, in their order; a ratio out of its range refuses.
FlowGates(setup, t) ==
    LET long == setup.side = "LONG"  f == setup.flow
        within(x, lo) == x # Nil /\ x \in lo .. 100
    IN << <<"OF_B4", ~(f.after # Nil /\ f.after >= 0 /\ f.after <= t.b4)>>,
          <<"OF_B1", ~(f.refill # Nil /\ f.refill >= t.b1)>>,
          <<"OF_B2", ~(within(f.buyers, 0) /\ IF long THEN f.buyers >= t.b2 ELSE f.buyers <= 100 - t.b2)>>,
          <<"OF_B3", ~(within(f.delta, -100) /\ IF long THEN f.delta >= t.b3 ELSE f.delta <= -t.b3)>> >>

\* runPhase0, up to the order flow: the gates in their order, each with what it refuses.
PhaseZero(x, s, instant) ==
    LET a == x.account  m == x.market  t == Calibration[m.instrument]
        restricted == Drawdown(a, 60)
    IN << <<"F1", a.type = "INTRADAY_TRAILING">>,
          <<"F8_STOP", (s.stop # Nil /\ instant < s.stop) \/ Drawdown(a, 80)>>,
          <<"F2", Allocation(a) <= 0 \/ 5 * Loss(a) >= 4 * Allocation(a)>>,
          <<"F6", s.lockout # Nil /\ instant < s.lockout>>,
          <<"F7_RESUBMIT", x.setup.id \in s.rejected>>,
          <<"F7_FOMO", instant - x.setup.sweepTs > Fomo>>,
          <<"F3_VIX", m.vix > HardBlock>>,
          <<"F3_ATR", Expanding(m.fast, m.slow)>>,
          <<"F5", Blackout(m.calendar, instant)>>,
          <<"F4_SPREAD", m.spread > t.spread>>,
          <<"F4_DEPTH", ~Deep(m.bids, t.depth) \/ ~Deep(m.asks, t.depth)>>,
          <<"A5B", s.trades = 0 /\ ~Confluent(x.setup)>>,
          <<"F8_CAP", s.trades >= IF restricted THEN RestrictedCap ELSE NormalCap>>,
          <<"F8_CONFLUENCE", restricted /\ ~Confluent(x.setup)>> >>

Gates(x, s, instant) == PhaseZero(x, s, instant) \o FlowGates(x.setup, Calibration[x.market.instrument])

\* hasNonFiniteInputs.
NotFinite(x) ==
    Nil \in {x.market.vix, x.market.fast, x.market.slow, x.market.spread, x.account.capital, x.account.equity,
             x.account.dayStart, x.account.floor, x.account.campaignFloor, x.setup.level, x.setup.extreme,
             x.setup.distance, x.setup.sweepTs}

Refusal(x, s, instant) ==
    LET gates == Gates(x, s, instant)  closed == {k \in DOMAIN gates : gates[k][2]} IN
    IF NotFinite(x) THEN "INVALID_INPUT" ELSE IF closed = {} THEN "NONE" ELSE gates[Min(closed)][1]

\* SETUP_QUALITY_REJECTS.
QualityRejects == {"F7_FOMO", "F8_CONFLUENCE", "A5B", "OF_B4", "OF_B1", "OF_B2", "OF_B3"}

Later(deadline, t) == IF deadline = Nil THEN t ELSE Max({deadline, t})

\* stateOnReject.
OnReject(s, reason, id, instant) ==
    CASE reason \in QualityRejects ->
           [s EXCEPT !.rejected = @ \cup {id}, !.lockout = Later(@, instant + ResubmitLockout)]
      [] reason = "F8_STOP" /\ (s.stop = Nil \/ s.stop <= instant) -> [s EXCEPT !.stop = instant + StopDuration]
      [] OTHER -> s

\* TradeGeometry, and ExecutionPlan.
Levels == [entry : Int, stop : Int, stopTicks : Int, target : Int, cancel : Int]
Approvals == [geometry : Levels, contracts : Int, scale : [clip1 : Int, clip2 : Int]]

\* computeGeometry: the levels, or Nil.
Geometry(m, setup) ==
    LET t == Calibration[m.instrument]
        dir == IF setup.side = "LONG" THEN 1 ELSE -1
        buffer == Min({t.bufferMax, Max({t.bufferMin, m.spread}) + (IF m.fast > m.slow THEN 1 ELSE 0)})
        gain == Min({t.tpMax, setup.distance - t.margin})
        entry == setup.level + dir * t.offset
        stop == setup.extreme - dir * buffer
    IN  IF gain < t.tpMin \/ dir * (entry - stop) <= 0 THEN Nil
        ELSE [entry |-> entry, stop |-> stop, stopTicks |-> dir * (entry - stop), target |-> entry + dir * gain,
              cancel |-> setup.level - dir * t.cancel]

\* computeRiskSize.
Sized(a, m, stopTicks) ==
    LET risk == Min({a.capital, 20 * Remaining(a)})
        gross == IF risk > 0 /\ stopTicks > 0 THEN risk \div (stopTicks * Calibration[m.instrument].worth) ELSE 0
    IN  (gross * RegimeMultiplier(m.vix)) \div 100

\* splitScaleOut: half, rounded up, goes at the target, the rest trails.
ScaleOut(contracts) == [clip1 |-> (contracts + 1) \div 2, clip2 |-> contracts - (contracts + 1) \div 2]

\* evaluateLsr: the plan, or Nil.
Evaluated(x, s, instant) ==
    LET geometry == Geometry(x.market, x.setup)
        size == Sized(x.account, x.market, geometry.stopTicks)
    IN  IF Refusal(x, s, instant) # "NONE" \/ geometry = Nil \/ size < 1 THEN Nil
        ELSE [geometry |-> geometry, contracts |-> size, scale |-> ScaleOut(size)]

-----------------------------------------------------------------------------
TypeOK ==
    /\ state.losses \in 0 .. 2 * NormalCap /\ state.trades \in 0 .. NormalCap
    /\ state.lockout # Nil => state.lockout > 0
    /\ now \in 0 .. MaxNow /\ open \in 0 .. 2 * NormalCap

\* freshRuntimeState.
Fresh(day) == [day |-> day, losses |-> 0, trades |-> 0, lockout |-> Nil, stop |-> Nil, rejected |-> {}]

\* Of the day: the approvals, the refusals, the instant of a second loss in a row and the last setup
\* approved; of all days: the start of the last campaign stop and the losses since a win.
Nothing == [approved |-> 0, refused |-> {}, pause |-> Nil, last |-> Nil, stop |-> Nil, run |-> 0]

Init == state = Fresh(0) /\ now = 0 /\ open = 0 /\ seen = Nothing

Approves(x) ==
    /\ state' = [state EXCEPT !.trades = @ + 1]
    /\ open' = open + 1
    /\ seen' = [seen EXCEPT !.approved = @ + 1, !.last = x.setup.id]
    /\ UNCHANGED now

Rejects(x) ==
    LET reason == Refusal(x, state, now) IN
    /\ state' = OnReject(state, reason, x.setup.id, now)
    /\ seen' = IF reason \in QualityRejects THEN [seen EXCEPT !.refused = @ \cup {[id |-> x.setup.id, at |-> now]}]
               ELSE IF reason = "F8_STOP" /\ (seen.stop = Nil \/ now - seen.stop >= StopDuration)
               THEN [seen EXCEPT !.stop = now] ELSE seen
    /\ UNCHANGED <<now, open>>

Evaluate(x) == IF Evaluated(x, state, now) # Nil THEN Approves(x) ELSE Rejects(x)

\* recordTradeOutcome.
Outcome(s, won, instant) ==
    IF won THEN [s EXCEPT !.losses = 0]
    ELSE [s EXCEPT !.losses = @ + 1,
                   !.lockout = IF s.losses + 1 >= LossTrigger THEN Later(@, instant + Cooldown) ELSE @]

Close(won) ==
    /\ open > 0
    /\ open' = open - 1
    /\ state' = Outcome(state, won, now)
    /\ seen' = IF won THEN [seen EXCEPT !.run = 0]
               ELSE [seen EXCEPT !.run = Min({@ + 1, LossTrigger}), !.pause = IF seen.run + 1 >= LossTrigger THEN now ELSE @]
    /\ UNCHANGED now

\* A rollover that starts afresh.
NextDayForgets(s, instant) == Fresh(s.day + 1)

\* rolloverDaily: a stop that runs is kept, and the losses.
NextDay(s, instant) ==
    [s EXCEPT !.day = @ + 1, !.trades = 0, !.lockout = Nil, !.rejected = {},
              !.stop = IF @ # Nil /\ instant < @ THEN @ ELSE Nil]

Rollover ==
    /\ state.day < 1
    /\ state' = NextDay(state, now)
    /\ seen' = [seen EXCEPT !.approved = 0, !.refused = {}, !.pause = Nil, !.last = Nil]
    /\ UNCHANGED <<now, open>>

Tick == now < MaxNow /\ now' = now + 1 /\ UNCHANGED <<state, open, seen>>

Next == Tick \/ Rollover \/ (\E x \in Attempts : Evaluate(x)) \/ \E won \in BOOLEAN : Close(won)

Spec == Init /\ [][Next]_vars

-----------------------------------------------------------------------------
\* The engine keeps nothing but the state that it hands back: through any order of evaluations,
\* closes and rollovers, what it approves comes after the whole of a campaign stop, is not a setup
\* refused that day nor too near another's refusal, is not in the pause of a second loss in a row
\* and is within the cap of the day (scanner.ts:136-150, index.ts:32-55).
EngineRemembers ==
    [][open' > open =>
          /\ seen.stop = Nil \/ now - seen.stop >= StopDuration
          /\ \A r \in seen.refused : r.id # seen'.last /\ now - r.at >= ResubmitLockout
          /\ seen.pause = Nil \/ now - seen.pause >= Cooldown
          /\ seen.approved < NormalCap]_vars
=============================================================================
