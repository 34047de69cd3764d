----------------------------- MODULE MCServices ------------------------------
(***************************************************************************)
(* The parameters of the services in the bounded runs.                     *)
(***************************************************************************)
EXTENDS Services

Values == INSTANCE MCInputs

MCSettings ==
    [params |-> {"budget"}, scoped |-> {"budget"}, guarded |-> {"budget"}, strategies |-> {"LSR"},
     values |-> 1 .. 2, default |-> 1, guardBelow |-> 2, names |-> {"PRUDENT"}, maxEvents |-> 3]
MCJournal ==
    [clients |-> {"c1", "c2"}, drafts |-> {"d1"}, edits |-> {Values!Full, Values!Broken},
     maxKeys |-> 1, maxPosts |-> 2, maxEntries |-> 2]
MCRecord ==
    [instruments |-> {"ES", "NQ"}, files |-> {<<f>> : f \in Values!Fills} \cup (Values!Fills \X Values!Fills),
     window |-> 1, target |-> 2, minTrades |-> 2, rounding |-> 2,
     maxGos |-> 2, maxImports |-> 2, maxNow |-> 2, maxOutcomes |-> 2]
MCStreak == [threshold |-> 2, simulated |-> {0, 2}, maxResults |-> 3]
MCFill == [maxLines |-> 3, maxFiles |-> 2, maxTruncations |-> 1, maxRestarts |-> 1, maxClock |-> 1]
MCAccount == [maxAge |-> 2, maxNow |-> 5, maxLines |-> 3]
MCNews ==
    [events |-> {4, 7}, lockBefore |-> 1, lockAfter |-> 1, warnBefore |-> 2,
     maxAge |-> 2, timeout |-> 1, maxNow |-> 8]
MCCalendar ==
    [pause |-> 0, warn |-> 2,
     events |-> {Values!Release("CPI", 1, Nil, TRUE), Values!Release("claims", 1, "MED", FALSE)},
     sources |-> <<"finnhub">>, latency |-> 1, maxEvents |-> 1, maxNow |-> 3, maxAge |-> 1,
     absentAfter |-> 0, stale |-> 0, pastGrace |-> 2]
\* The chain ends in a static source.
MCVix ==
    [pause |-> 1, warn |-> 2, sources |-> <<"fred", "static">>, latency |-> 1, maxNow |-> 4,
     maxAge |-> 2, absentAfter |-> 1, stale |-> 0]
MCSignals == [pause |-> 15, warn |-> 30, maxLost |-> 1]
MCPort == [pause |-> 15, warn |-> 30]
MCEngine ==
    [newsBefore |-> 1, newsAfter |-> 1, cooldown |-> 2, lossTrigger |-> 2, fomo |-> 3,
     resubmitLockout |-> 1, stopDuration |-> 3, restrictedCap |-> 1, normalCap |-> 2, maxNow |-> 4]
MCTape ==
    [window |-> 2, stale |-> 0, dayLength |-> 2, releases |-> {[name |-> "CPI", ts |-> 1]},
     maxTracked |-> 2, maxPrints |-> 3, stratPrints |-> 4, candleLen |-> 1, maxCandles |-> 2,
     maxLevels |-> 3, institutional |-> 5, maxRestarts |-> 1, maxNow |-> 2]
MCFlow ==
    [newsAt |-> 3, imminent |-> 4, burst |-> 2, burstCount |-> 2,
      wideSpread |-> 3, window |-> 5, minVolume |-> 5, minSpan |-> 1, maxGap |-> 1,
     historyMax |-> 3, maxTape |-> 4, maxNow |-> 5]

MCDesks    == Values!SomeDesks
MCInputs   == Values!SomeInputs
MCAttempts == Values!SomeAttempts
MCFeed     == Values!SomeFeed
MCBatches  == Values!SomeBatches
MCBooks    == Values!SomeBooks
=============================================================================
