------------------------------ MODULE LsrRules -------------------------------
(***************************************************************************)
(* The LSR engine of the backend: from the inputs of one evaluation to a   *)
(* sized ticket (lsr_engine.py, lsr_tuning.py, lsr_frontiers.py,           *)
(* risk_sizer.py, trade_manifest.py).  Prices and distances are in ticks,  *)
(* ratios in hundredths, ages in seconds, money in dollars and a tick's    *)
(* worth in cents.  A number that is not finite is Nil.                    *)
(***************************************************************************)
EXTENDS Readings, Sequences, FiniteSets, FiniteSetsExt, Functions

\* tuning and spec: an instrument outside the table has none.
Tunings ==
    [MES |-> [spread |-> 1, depth |-> 150, tpMax |-> 5, tpMin |-> 3, margin |-> 1, offset |-> 1, cancel |-> 3,
              bufferMin |-> 1, bufferMax |-> 2, b1 |-> 40, b2 |-> 60, b3 |-> 30, b4 |-> 30, worth |-> 125],
     MNQ |-> [spread |-> 2, depth |-> 60, tpMax |-> 8, tpMin |-> 4, margin |-> 1, offset |-> 1, cancel |-> 4,
              bufferMin |-> 2, bufferMax |-> 4, b1 |-> 40, b2 |-> 60, b3 |-> 30, b4 |-> 30, worth |-> 50]]

SweepMaxAge == 90
ExtremeWindow == 120
BufferDivisor == 5
MaxContracts == 100
ReferenceStop == 3

-----------------------------------------------------------------------------
(* The plan.  i is what build_lsr_inputs gathers; its readings are judged  *)
(* FRESH or not at all.                                                    *)

Fresh(meta) == IF meta.freshness = "FRESH" THEN meta.value ELSE Nil

\* A buffer that ignores the regime.
NoiseOfSpread(spread, flow, t) == Min({t.bufferMax, Max({t.bufferMin, spread})})

\* noise_buffer_ticks: the widest when the regime is not known.
NoiseBuffer(spread, flow, t) ==
    IF flow = Nil \/ Nil \in {flow.fast, flow.slow} THEN t.bufferMax
    ELSE Min({t.bufferMax, Max({t.bufferMin, spread}) + (IF flow.fast > flow.slow THEN 1 ELSE 0)})

TopThree(sizes) == SubSeq(sizes, 1, Min({3, Len(sizes)}))
Depth(sizes) == FoldFunction(+, 0, TopThree(sizes))

\* _f4_liquidity: a crossed or locked book has a spread of zero or less, a corrupt one a negative size.
Liquid(book, t) ==
    /\ book # Nil /\ book.bids # <<>> /\ book.asks # <<>>
    /\ 0 < book.spread /\ book.spread <= t.spread
    /\ \A sizes \in {book.bids, book.asks} :
           Depth(sizes) >= t.depth /\ \A k \in DOMAIN TopThree(sizes) : sizes[k] >= 0

\* _sweep_extreme: the prices touched since the window opened, up to now.
Touched(i) ==
    {p.price : p \in {q \in Fresh(i.tape) : q.price > 0 /\ i.sweepTs - ExtremeWindow <= q.ts /\ q.ts <= i.now}}

\* The proof that the level holds, and the share of buyers: measured by the source or in house.
Defended(i, t) ==
    \/ i.source = "source" /\ Fresh(i.absorption) = TRUE
    \/ i.source = "inhouse" /\ i.flow # Nil /\ i.flow.refill # Nil /\ i.flow.refill >= t.b1
Buyers(i) == IF i.source = "source" THEN Fresh(i.ratio) ELSE i.flow.buyers
Flipped(i, t) ==
    /\ Buyers(i) # Nil /\ Buyers(i) \in 0 .. 100
    /\ IF i.direction = "BID_SWEEP" THEN Buyers(i) >= t.b2 ELSE Buyers(i) <= 100 - t.b2

\* orderflow_shadow: what the two gates would say from one source; Nil when they cannot.
Shadow(i, source) ==
    LET t == Tunings[i.instrument]
        share == IF source = "source" THEN Fresh(i.ratio) ELSE i.flow.buyers
    IN  [b1 |-> IF source = "source"
                THEN IF Fresh(i.absorption) = Nil THEN Nil ELSE Fresh(i.absorption) = TRUE
                ELSE IF i.flow.refill = Nil THEN Nil ELSE i.flow.refill >= t.b1,
         b2 |-> IF Nil \in {i.direction, share} \/ share \notin 0 .. 100 THEN Nil
                ELSE IF i.direction = "BID_SWEEP" THEN share >= t.b2 ELSE share <= 100 - t.b2]

\* What evaluate_lsr returns, and TradeManifest.
Plans == [instrument : DOMAIN Tunings, sign : {1, -1}, entry : Int, stop : Int, target : Int]
Tickets == [side : {"BUY", "SELL"}, entry : Int, stop : Int, target : Int, contracts : Int]

\* evaluate_lsr: a plan, or Nil.  sign * (x - y) says how far x is ahead of y.
Plan(i) ==
    LET t == Tunings[i.instrument]
        sign == IF i.direction = "BID_SWEEP" THEN 1 ELSE -1
        extreme == IF sign = 1 THEN Min(Touched(i)) ELSE Max(Touched(i))
        entry == extreme + sign * t.offset
        stop == extreme - sign * NoiseBuffer(Fresh(i.book).spread, i.flow, t)
        gain == Min({t.tpMax, sign * (Fresh(i.vpoc) - entry) - t.margin})
    IN  IF /\ i.news \notin {"HARD_LOCK", "SAFETY_UNKNOWN"}
           /\ i.instrument \in DOMAIN Tunings
           /\ i.sweepTs # Nil /\ i.now - i.sweepTs <= SweepMaxAge
           /\ i.direction \in {"BID_SWEEP", "ASK_SWEEP"}
           /\ Defended(i, t) /\ Flipped(i, t)
           /\ Liquid(Fresh(i.book), t)
           /\ Fresh(i.tape) # Nil /\ Touched(i) # {}
           /\ Fresh(i.vpoc) # Nil /\ Fresh(i.vpoc) > 0
           /\ sign * (Fresh(i.vpoc) - entry) > 0 /\ gain >= t.tpMin
        THEN [instrument |-> i.instrument, sign |-> sign, entry |-> entry, stop |-> stop,
              target |-> entry + sign * gain]
        ELSE Nil

-----------------------------------------------------------------------------
(* The size.  a is the state of the account; Nil for one not finite.       *)

Amounts == {"capital", "equity", "dayStart", "floor", "dll"}

\* compute_buffer, and derive_account_frontiers: the limit of the day bounds both ways.
AccountBuffer(a) == Min({a.equity - a.floor, a.equity - (a.dayStart - a.dll)})
DayLoss(a) == Max({0, a.dayStart - a.equity})
InitialFrontier(a) == Max({0, Min({a.dayStart - a.floor, a.dll})})
RemainingFrontier(a) == Max({0, Min({a.equity - a.floor, Max({0, a.dll - DayLoss(a)})})})

\* f2_daily_circuit_breaker: four fifths of the day are spent.
DayIsOver(a) == InitialFrontier(a) <= 0 \/ 5 * DayLoss(a) >= 4 * InitialFrontier(a)

\* f3_atr_blocked: written, and called by nobody.
AtrBlocked(fast, slow) == \/ Nil \in {fast, slow} \/ fast <= 0 \/ slow <= 0 \/ 2 * fast > 3 * slow

\* A risk that counts the profit of the day.
RiskOfBuffer(a) == Min({a.capital, (100 \div BufferDivisor) * AccountBuffer(a)})

\* In cents: one percent of the capital, or a fifth of what remains of the day.
RiskAllowed(a) == Min({a.capital, (100 \div BufferDivisor) * RemainingFrontier(a)})

\* size_position: a number of contracts, and why there is none.
Refused(reason) == [contracts |-> Nil, status |-> reason]

Size(a, stopTicks, worth, vix) ==
    LET gross == RiskAllowed(a) \div (stopTicks * worth)
        sized == (gross * VixMultiplier(vix)) \div 100
    IN  IF \/ \E f \in Amounts : a[f] = Nil
           \/ a.equity <= 0 \/ a.dayStart <= 0 \/ a.dll <= 0 \/ a.floor < 0 \/ a.capital <= 0
           \/ stopTicks <= 0 THEN Refused("INVALID_INPUT")
        ELSE CASE RemainingFrontier(a) <= 0 -> Refused("INSUFFICIENT_BUFFER")
               [] RemainingFrontier(a) > 0 /\ DayIsOver(a) -> Refused("F2_DAILY_CIRCUIT_BREAKER")
               [] OTHER -> IF VixMultiplier(vix) = 0 THEN Refused("VIX_SUSPENDED")
                           ELSE IF sized < 1 THEN Refused("INSUFFICIENT_BUFFER")
                           ELSE IF sized > MaxContracts THEN Refused("SIZE_SANITY_CAP")
                           ELSE [contracts |-> sized, status |-> "APPROVED"]

\* size_plan and manifest_from_lsr_plan: the ticket of an approved plan, or Nil.
Ticket(plan, a, vix) ==
    LET stopTicks == plan.sign * (plan.entry - plan.stop)
        size == Size(a, stopTicks, Tunings[plan.instrument].worth, vix)
    IN  IF plan # Nil /\ vix # Nil /\ size.status = "APPROVED"
           /\ stopTicks > 0 /\ plan.sign * (plan.target - plan.entry) > 0
        THEN [side |-> IF plan.sign = 1 THEN "BUY" ELSE "SELL", entry |-> plan.entry, stop |-> plan.stop,
              target |-> plan.target, contracts |-> size.contracts]
        ELSE Nil

\* account_view: the next ticket as the operator reads it.
NextTicket(a, vix, instrument) ==
    IF a = Nil \/ instrument \notin DOMAIN Tunings THEN Refused("DISCONNECTED")
    ELSE IF vix = Nil THEN Refused("VIX_BLIND")
    ELSE Size(a, ReferenceStop, Tunings[instrument].worth, vix)
=============================================================================
