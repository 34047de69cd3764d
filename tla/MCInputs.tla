------------------------------ MODULE MCInputs -------------------------------
(***************************************************************************)
(* The inputs of the bounded runs of MCServices.                           *)
(***************************************************************************)
EXTENDS Integers, Sequences, FiniteSets, TLC

CONSTANT Nil

Read(v) == [value |-> v, freshness |-> "FRESH"]

-----------------------------------------------------------------------------
(* The journal, the fills and the calendar.                                *)

Full   == [direction |-> "LONG", exit |-> "final", result |-> "win", slKept |-> "yes"]
Broken == [slKept |-> "no"]

Filled(instrument, ts, r) == [instrument |-> instrument, ts |-> ts, r |-> r]
Fills == {Filled("ES", 0, 2), Filled("ES", 1, 1), Filled("NQ", 2, -1)}

Release(name, ts, impact, tier1) == [name |-> name, ts |-> ts, impact |-> impact, tier1 |-> tier1]

-----------------------------------------------------------------------------
(* The schema: the values on both sides of every limit.                    *)

Desk ==
    [svs |-> Read(60), chop |-> Read(500), cvd |-> Read(300), gex |-> Read(1), vix |-> Read(14),
     absorption |-> Read(TRUE), ratio |-> Read(90), area |-> Read([val |-> 0, vah |-> 100]),
     vpoc |-> Read(80), lvn |-> Read(TRUE), vvix |-> Read(100), dxy |-> Read(1), eurusd |-> Read(1090),
     realRates |-> Read(160), rms |-> Read(2), minute |-> 870, montreal |-> 300, force |-> Nil,
     redisUp |-> TRUE, heartbeatAge |-> 1, streak |-> 0, acked |-> FALSE, events |-> {},
     tier |-> "YELLOW", calibrated |-> FALSE, tilt |-> 400, cascade |-> [nq |-> 1, zn |-> 1, dx |-> Nil],
     g |-> 1, pi |-> 0, scores |-> <<10, 0, -5, 3, 1>>,
     in |-> [taylor |-> 31, phillips |-> -40, beer |-> 151, carry |-> 290, cycle |-> 60, turn |-> 50,
             rr |-> 170, momentum |-> 10],
     question |-> {"enter"}]

SomeDesks ==
    {[Desk EXCEPT !.svs = Read(svs), !.chop = Read(chop), !.cvd = Read(cvd), !.vix = Read(vix),
                  !.absorption = Read(absorbed), !.ratio = Read(ratio), !.minute = minute] :
        svs \in {40, 60}, chop \in {500, 617, 618}, cvd \in {-2000, 300}, vix \in {14, 20, 30, 31},
        absorbed \in BOOLEAN, ratio \in {0, 90}, minute \in {870, 900}}
    \cup
    {[Desk EXCEPT !.vix = Read(vix), !.streak = streak, !.rms = Read(rms), !.events = events,
                  !.force = force, !.question = {word}] :
        vix \in {15, 30, 31}, streak \in {7, 8}, rms \in {2, 5},
        events \in {{}, {[ts |-> 880, impact |-> "HIGH"]}}, force \in {Nil, "OVERLAP_NY"},
        word \in {"enter", "context"}}
    \cup
    {[Desk EXCEPT !.vix = Read(vix), !.tier = tier, !.calibrated = calibrated] :
        vix \in {14, 15, 20, 27, 30, 31}, tier \in {"GREEN", "YELLOW", "ORANGE", "RED"},
        calibrated \in BOOLEAN}
    \cup
    {[Desk EXCEPT !.g = g, !.pi = pi, !.tier = tier, !.scores = <<s, -s, 5, 0, 1>>,
                  !.heartbeatAge = IF g = pi THEN 5 ELSE 6,
                  !.in.taylor = taylor, !.in.beer = beer, !.in.carry = carry] :
        g \in {-1, 1}, pi \in {-1, 1}, tier \in {"GREEN", "RED"}, s \in {-20, 40},
        taylor \in {-31, 0, 31}, beer \in {-151, 151}, carry \in {-10, 290}}

-----------------------------------------------------------------------------
(* The LSR engines: prices in ticks, instants in seconds.                  *)

Printed(price, ts) == [price |-> price, ts |-> ts]
Tape == {Printed(20000, 20), Printed(20004, 95), Printed(19990, 101), Printed(20010, 10)}
BookOf(spread, size) == [spread |-> spread, bids |-> <<60, size>>, asks |-> <<size, 30, 30, 500>>]

Account(equity, dayStart) ==
    [capital |-> 50000, equity |-> equity, dayStart |-> dayStart, floor |-> 47500, dll |-> 1000]
Accounts ==
    {Account(e, d) : e \in {47600, 49000, 49200, 50000, 51000}, d \in {48000, 50000}}
    \cup {Account(-1, 50000), [Account(50000, 50000) EXCEPT !.equity = Nil],
          [capital |-> 5000000, equity |-> 5000000, dayStart |-> 5000000, floor |-> 4750000, dll |-> 100000]}

Setup ==
    [now |-> 100, news |-> Nil, instrument |-> "MES", source |-> "inhouse", sweepTs |-> 90,
     direction |-> "BID_SWEEP", tape |-> Read(Tape), absorption |-> Read(TRUE), ratio |-> Read(70),
     book |-> Read(BookOf(1, 100)), vpoc |-> Read(20008),
     flow |-> [fast |-> 2, slow |-> 2, refill |-> 40, buyers |-> 60]]

Setups ==
    {[Setup EXCEPT !.instrument = instrument, !.direction = side[1], !.flow.buyers = side[2],
                   !.book = Read(BookOf(spread, size)), !.vpoc = Read(vpoc), !.flow.fast = fast,
                   !.flow.refill = refill] :
        instrument \in {"MES", "MNQ"},
        side \in {<<"BID_SWEEP", 60>>, <<"BID_SWEEP", 59>>, <<"ASK_SWEEP", 40>>, <<"ASK_SWEEP", 41>>},
        spread \in 0 .. 3, size \in {-5, 30, 100}, vpoc \in {19994, 19998, 20003, 20005, 20007, 20012},
        fast \in {2, 3, 4}, refill \in {39, 40}}
Sources ==
    {[Setup EXCEPT !.source = source, !.flow = flow, !.absorption = Read(absorbed), !.news = news,
                   !.now = now, !.instrument = instrument] :
        source \in {"source", "inhouse", "other"},
        flow \in {Nil, Setup.flow, [Setup.flow EXCEPT !.slow = Nil], [Setup.flow EXCEPT !.buyers = 101]},
        absorbed \in BOOLEAN, news \in {Nil, "HARD_LOCK", "SAFETY_UNKNOWN"}, now \in {100, 180, 181},
        instrument \in {"MES", "ES"}}
    \cup {[Setup EXCEPT !.direction = Nil, !.flow.buyers = buyers] : buyers \in {30, 60}}

Input(lsr, account, vix, after, delta) ==
    [lsr |-> lsr, account |-> account, vix |-> vix, after |-> after,
     delta |-> IF lsr.direction = "BID_SWEEP" THEN delta ELSE -delta]
SomeInputs ==
    {Input(lsr, Account(50000, 50000), 14, 30, 40) : lsr \in Setups \cup Sources}
    \cup
    {Input([Setup EXCEPT !.direction = side[1], !.flow.buyers = side[2], !.vpoc = Read(side[3]),
                         !.flow.fast = fast], account, vix, after, delta) :
        side \in {<<"BID_SWEEP", 60, 20008>>, <<"ASK_SWEEP", 40, 19994>>}, fast \in {2, 3},
        account \in Accounts, vix \in {Nil, 14, 15, 20, 30, 31}, after \in {30, 31}, delta \in {30, 29}}

Attempt(equity, id, after) ==
    [market  |-> [instrument |-> "MES", vix |-> 14, fast |-> 2, slow |-> 2, spread |-> 1,
                  bids |-> <<100, 60>>, asks |-> <<200>>, calendar |-> {}],
     account |-> [type |-> "EOD", campaignFloor |-> 47500] @@ Account(equity, 49000),
     setup   |-> [id |-> id, side |-> "LONG", sweepTs |-> 0, level |-> 20000, extreme |-> 20000,
                  distance |-> 6, onVpoc |-> TRUE, secondary |-> TRUE,
                  flow |-> [after |-> after, refill |-> 50, buyers |-> 70, delta |-> 40]]]
SomeAttempts ==
    {Attempt(49000, id, after) : id \in {"s1", "s2"}, after \in {20, 40}}
    \cup {Attempt(48400, "s1", 20), Attempt(47500, "s1", 20)}
    \cup {[Attempt(equity, "s2", 20) EXCEPT !.setup.secondary = FALSE] : equity \in {49000, 48400}}
    \cup {[Attempt(49000, "s2", 20) EXCEPT
               !.market.calendar = {[ts |-> 2, impact |-> "RED", before |-> Nil, after |-> 0]}]}

-----------------------------------------------------------------------------
(* The tape: what the market prints, and what the order flow reads.        *)

Trade(price, size, side) == [price |-> price, size |-> size, side |-> side, valid |-> TRUE, dated |-> TRUE]
SomeFeed == <<Trade(2, 5, "BUY"), [Trade(3, 3, "SELL") EXCEPT !.dated = FALSE],
              [Trade(9, 1, "BUY") EXCEPT !.valid = FALSE], Trade(5, 2, "SELL")>>

Stamped(seq, ts, price, size, side) == [seq |-> seq, ts |-> ts, price |-> price, size |-> size, side |-> side]
SomeBatches ==
    {<<Stamped(1, 1, 5, 2, "SELL"), Stamped(2, 2, 3, 4, "SELL")>>,
     <<Stamped(6, 0, 6, 1, "SELL"), Stamped(3, 3, 4, 3, "BUY")>>,
     <<Stamped(4, 4, 6, 9, "BUY"), Stamped(5, 2, 5, 1, "UNKNOWN")>>}

Levels(p, size1, q, size2) == (p :> size1) @@ (q :> size2)
SomeBooks ==
    {[bids |-> Levels(3, 6, 2, 1), asks |-> Levels(6, 6, 7, 2)],
     [bids |-> Levels(3, 1, 2, 1), asks |-> Levels(6, 2, 7, 2)],
     [bids |-> Levels(2, 4, 1, 1), asks |-> Levels(5, 3, 6, 4)],
     [bids |-> Levels(6, 4, 5, 1), asks |-> Levels(6, 3, 7, 4)]}
=============================================================================
