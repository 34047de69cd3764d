------------------------------ MODULE TapeFold -------------------------------
(***************************************************************************)
(* What the engine accumulates from the tape (engine.py:371-550): the CVD  *)
(* by level, the footprint, the stratified CVD and the volume profile of   *)
(* the session.  The source publishes a sliding window of its prints; the  *)
(* engine reads whatever window is there at each fast tick, and may read   *)
(* one twice or miss one.  A level is the sum of the prints it was given.  *)
(* Prices are on the grid of ticks, candles are spans of time (as long as  *)
(* FOOTPRINT_TICKS_PER_CANDLE is 0); of the stratified CVD the last point  *)
(* is modelled, and no divergence; of the profile no low-volume node.      *)
(***************************************************************************)
EXTENDS Prints

CONSTANTS
    Nil,
    Feed,              \* the prints of the market in order: [price, size, side, valid, dated]
    Window,            \* prints in what the source publishes (40)
    Stale,             \* age at which a window is not FRESH any more
    DayLength,         \* a session
    Releases,          \* the Tier-1 events: [name, ts]
    MaxTracked,        \* CVD_MAX_TRACKED
    MaxPrints,         \* FOOTPRINT_MAX_PRINTS
    StratPrints,       \* CVD_STRAT_MAX_PRINTS
    CandleLen,         \* FOOTPRINT_CANDLE_SECONDS
    MaxCandles,        \* FOOTPRINT_CANDLES, 0 for all of them
    MaxLevels,         \* VP_MAX_LEVELS, 0 for all of them
    Institutional,     \* CVD_SIZE_THRESHOLD
    MaxRestarts, MaxNow     \* bounds: restarts of the source, instants

VARIABLES
    now,         \* the clock
    source,      \* [gen, seq, tape]: restarts, prints of this run, window kept
    published,   \* the window in Redis: [prints, ts], or Nil
    cvd,         \* [prints, last, key]: accumulated, last seq, last release that reset it
    fp,          \* [prints, last]: the buffer of the footprint
    cs,          \* [prints, last]: the buffer of the stratified CVD
    vp,          \* [prints, last, day, prev]: the session's; and the profile of the one before, if any
    seen         \* ghost: the prints of every fresh window read

vars == <<now, source, published, cvd, fp, cs, vp, seen>>

-----------------------------------------------------------------------------
Prices(prints) == {p.price : p \in ToSet(prints)}
At(prints, K, price) == {k \in K : prints[k].price = price}
Traded(prints, price) == Volume(prints, At(prints, DOMAIN prints, price))

\* _validate_tape: the prints that can be read, latest first.
Tape == Reverse(Those(published.prints, {p \in ToSet(published.prints) : p.valid}))
FreshTape == published # Nil /\ now - published.ts <= Stale /\ Tape # <<>>

\* A window wholly below the last seq is a source that restarted.
LastSeqOfAny(last) == IF \E p \in ToSet(Tape) : p.seq < last THEN 0 ELSE last
LastSeq(last) == IF \A p \in ToSet(Tape) : p.seq < last THEN 0 ELSE last

News(last) == Those(Tape, {p \in ToSet(Tape) : p.seq > LastSeq(last)})
Highest(last) == IF News(last) = <<>> THEN LastSeq(last) ELSE Tape[1].seq

Keep(prints, n) == IF Len(prints) <= n THEN prints ELSE SubSeq(prints, Len(prints) - n + 1, Len(prints))

\* The least active level leaves a full accumulator; the first in first out among equals.
Evict(prints) ==
    LET least == {k \in DOMAIN prints :
                     \A j \in DOMAIN prints : Traded(prints, prints[k].price) <= Traded(prints, prints[j].price)}
    IN  Those(prints, {p \in ToSet(prints) : p.price # prints[Min(least)].price})

\* Mutation: a full accumulator takes another level.
TrackAll(prints, p) == Append(prints, p)

Track(prints, p) ==
    IF p.price \in Prices(prints) \/ Cardinality(Prices(prints)) < MaxTracked
    THEN Append(prints, p) ELSE Append(Evict(prints), p)

\* The prints are taken one by one.
Tracked(prints, news) ==
    LET taken[n \in 0 .. Len(news)] == IF n = 0 THEN prints ELSE Track(taken[n - 1], news[n])
    IN  taken[Len(news)]

-----------------------------------------------------------------------------
(* The views of the accumulators.                                          *)

\* The footprint and the stratified CVD drop a print without a time; the others count it.
Dated(prints) == {k \in DOMAIN prints : prints[k].ts # Nil}

\* build_footprint: a candle for each span of time, the latest ones only.
Spans(prints) == {prints[k].ts \div CandleLen : k \in Dated(prints)}

Candles(prints) ==
    [s \in {r \in Spans(prints) :
               MaxCandles = 0 \/ Cardinality({later \in Spans(prints) : later > r}) < MaxCandles} |->
        {k \in Dated(prints) : prints[k].ts \div CandleLen = s}]

\* _finalize_candle: the price that traded most, the highest of equals; and a level's imbalance
\* against its diagonal neighbours.
PocOfCandle(prints, candle) ==
    CHOOSE x \in Prices(prints) : \A y \in Prices(prints) :
        LET vx == Volume(prints, At(prints, candle, x))  vy == Volume(prints, At(prints, candle, y)) IN
        vx > vy \/ (vx = vy /\ x >= y)

Imbalance(prints, candle, price) ==
    LET ask(x) == Bought(prints, At(prints, candle, x))
        bid(x) == Volume(prints, At(prints, candle, x)) - ask(x)
        onAsk == ask(price) >= 3 * bid(price - 1) /\ ask(price) >= 1
        onBid == bid(price) >= 3 * ask(price + 1) /\ bid(price) >= 1
    IN  CASE onAsk /\ (onBid => ask(price) >= bid(price)) -> "ASK"
          [] onBid /\ (onAsk => bid(price) > ask(price)) -> "BID"
          [] OTHER -> Nil

\* build_cvd_stratified: the last point of the series.
Strata(prints) ==
    [institutional |-> Delta(prints, {k \in Dated(prints) : prints[k].size >= Institutional}),
     retail |-> Delta(prints, {k \in Dated(prints) : prints[k].size < Institutional})]

\* build_volume_profile: the price that traded most, the lowest of equals.
Poc(prints) ==
    CHOOSE x \in Prices(prints) : \A y \in Prices(prints) :
        \/ Traded(prints, x) > Traded(prints, y)
        \/ Traded(prints, x) = Traded(prints, y) /\ x <= y

\* The levels shown: all of them, or as many as the bound allows around that price.
Grid(prints) ==
    LET low == Min(Prices(prints))  high == Max(Prices(prints))  first == Poc(prints) - MaxLevels \div 2
    IN  IF MaxLevels = 0 \/ high - low < MaxLevels THEN <<low, high>> ELSE <<first, first + MaxLevels - 1>>

Inside(prints, area) == {k \in DOMAIN prints : area[1] <= prints[k].price /\ prints[k].price <= area[2]}
Within(prints, area) == Volume(prints, Inside(prints, area))
Enough(prints, area) == 10 * Within(prints, area) >= 7 * Within(prints, Grid(prints))

\* The value area grows from that price towards the larger neighbour, upwards among equals, up to
\* seven tenths of what was traded on the grid.
ValueArea(prints) ==
    LET grid == Grid(prints)
        worth(x) == IF grid[1] <= x /\ x <= grid[2] THEN Traded(prints, x) ELSE -1
        grow[steps \in 0 .. grid[2] - grid[1]] ==
            IF steps = 0 THEN <<Poc(prints), Poc(prints)>>
            ELSE LET area == grow[steps - 1] IN
                 IF Enough(prints, area) THEN area
                 ELSE IF worth(area[2] + 1) >= worth(area[1] - 1)
                 THEN <<area[1], area[2] + 1>> ELSE <<area[1] - 1, area[2]>>
    IN  grow[grid[2] - grid[1]]

Profile(prints) == [poc |-> Poc(prints), area |-> ValueArea(prints)]

-----------------------------------------------------------------------------
\* The seq-th print of a run of the source.
Printed(seq, gen, ts) ==
    LET p == Feed[seq] IN
    [price |-> p.price, size |-> p.size, side |-> p.side, valid |-> p.valid, seq |-> seq, gen |-> gen,
     ts |-> IF p.dated THEN ts ELSE Nil]

Printeds == {Printed(seq, gen, ts) : seq \in DOMAIN Feed, gen \in 0 .. MaxRestarts, ts \in 0 .. MaxNow}
Windows == [prints : Seq(Printeds), ts : 0 .. MaxNow]

TypeOK ==
    /\ now \in 0 .. MaxNow /\ source.gen \in 0 .. MaxRestarts /\ source.seq \in 0 .. Len(Feed)
    /\ published \in Windows \cup {Nil}
    /\ Cardinality(Prices(cvd.prints)) <= MaxTracked
    /\ Len(fp.prints) <= MaxPrints /\ Len(cs.prints) <= StratPrints
    /\ vp.prev # <<>> => vp.day > 0

Init ==
    /\ now = 0 /\ source = [gen |-> 0, seq |-> 0, tape |-> <<>>] /\ published = Nil
    /\ cvd = [prints |-> <<>>, last |-> 0, key |-> Nil]
    /\ fp = [prints |-> <<>>, last |-> 0] /\ cs = [prints |-> <<>>, last |-> 0]
    /\ vp = [prints |-> <<>>, last |-> 0, day |-> Nil, prev |-> <<>>]
    /\ seen = {}

\* The source appends a print to its window and publishes it.
Emit ==
    LET tape == Keep(Append(source.tape, Printed(source.seq + 1, source.gen, now)), Window) IN
    /\ source.seq < Len(Feed)
    /\ source' = [source EXCEPT !.seq = @ + 1, !.tape = tape]
    /\ published' = [prints |-> tape, ts |-> now]
    /\ UNCHANGED <<now, cvd, fp, cs, vp, seen>>

\* The source restarts: its window is empty and its seq starts again.
Restart ==
    /\ source.gen < MaxRestarts
    /\ source' = [gen |-> source.gen + 1, seq |-> 0, tape |-> <<>>]
    /\ UNCHANGED <<now, published, cvd, fp, cs, vp, seen>>

Tick == now < MaxNow /\ now' = now + 1 /\ UNCHANGED <<source, published, cvd, fp, cs, vp, seen>>

\* What the calendar gives as the last release; Nil when it is unknown or when nothing is released yet.
\* Of releases at one instant it is the first of the list, whatever the order of the list was.
Released ==
    {e \in Releases : e.ts <= now /\ \A f \in Releases : f.ts <= now => f.ts <= e.ts} \cup {Nil}

\* _build_cvd: a release other than the one of the last reset starts it again.
BuildCvd(latest) ==
    LET base == IF latest \notin {cvd.key, Nil} THEN [cvd EXCEPT !.prints = <<>>, !.key = latest] ELSE cvd
    IN  IF FreshTape
        THEN [base EXCEPT !.prints = Tracked(@, News(cvd.last)), !.last = Highest(cvd.last)]
        ELSE base

\* _build_footprint and _build_cvd_stratified: the latest prints, in a buffer of their own.
Buffered(buffer, n) ==
    IF FreshTape
    THEN [prints |-> Keep(buffer.prints \o News(buffer.last), n), last |-> Highest(buffer.last)]
    ELSE buffer

\* _build_volume_profile: a new day keeps the profile of the last one and starts from nothing.
BuildProfile ==
    LET day == now \div DayLength
        known == IF vp.day = Nil THEN [vp EXCEPT !.day = day] ELSE vp
        base == IF known.day # day /\ known.prints # <<>>
                THEN [prints |-> <<>>, last |-> 0, day |-> day, prev |-> <<Profile(known.prints)>>] ELSE known
    IN  IF FreshTape
        THEN [base EXCEPT !.prints = @ \o News(base.last), !.last = Highest(base.last)]
        ELSE base

\* _assemble_fast.
FastTick ==
    /\ \E latest \in Released : cvd' = BuildCvd(latest)
    /\ fp' = Buffered(fp, MaxPrints)
    /\ cs' = Buffered(cs, StratPrints)
    /\ vp' = BuildProfile
    /\ seen' = IF FreshTape THEN seen \cup ToSet(Tape) ELSE seen
    /\ UNCHANGED <<now, source, published>>

Next == Emit \/ Restart \/ Tick \/ FastTick

Spec == Init /\ [][Next]_vars

-----------------------------------------------------------------------------
\* No print is counted twice, in whatever windows it was read; and of a source that did not restart
\* none that was read is missing, while the buffer is not full.
CountedOnce ==
    /\ \A prints \in {cvd.prints, fp.prints, cs.prints, vp.prints} : IsInjective(prints)
    /\ source.gen = 0 =>
           /\ Cardinality(seen) <= MaxPrints => ToSet(fp.prints) = seen
           /\ Cardinality(seen) <= StratPrints => ToSet(cs.prints) = seen
           /\ vp.prev = <<>> => ToSet(vp.prints) = seen

\* As long as nothing was reset, evicted or dropped, and but for the prints without a time, the four
\* views of the tape tell the same story.
ViewsAgree ==
    LET candles == Candles(fp.prints)
        total == SumFunction([s \in DOMAIN candles |-> Delta(fp.prints, candles[s])])
        volume(K, x) == Volume(fp.prints, At(fp.prints, K, x))
        whole == Cardinality(seen) <= MaxPrints
        inView == whole /\ DOMAIN candles = Spans(fp.prints)
    IN  /\ (inView /\ Cardinality(seen) <= StratPrints)
               => total = Strata(cs.prints).institutional + Strata(cs.prints).retail
        /\ (inView /\ vp.prev = <<>>) => total = Delta(vp.prints, Dated(vp.prints))
        /\ (inView /\ cvd.key = Nil /\ Cardinality(Prices(cvd.prints)) < MaxTracked)
               => total = Delta(cvd.prints, Dated(cvd.prints))
        /\ (whole /\ vp.prev = <<>>) =>
               \A s \in DOMAIN candles : candles[s] = DOMAIN fp.prints =>
                   LET poc == PocOfCandle(fp.prints, candles[s]) IN
                   poc >= Poc(vp.prints) /\ volume(candles[s], poc) = Traded(vp.prints, Poc(vp.prints))
        /\ \A s \in DOMAIN candles, x \in Prices(fp.prints) :
               Imbalance(fp.prints, candles[s], x) = Nil =>
                   Bought(fp.prints, At(fp.prints, candles[s], x)) < 3 * volume(candles[s], x - 1) + 1

\* The value area lies on the grid, holds the price that traded most and at least seven tenths of
\* what was traded on the grid, and without its last step it held less.
ValueAreaIsTight ==
    vp.prints # <<>> =>
        LET poc == Poc(vp.prints)  grid == Grid(vp.prints) IN
        \A area \in {ValueArea(vp.prints)} :
        /\ grid[1] <= area[1] /\ area[1] <= poc /\ poc <= area[2] /\ area[2] <= grid[2]
        /\ Enough(vp.prints, area)
        /\ area[1] < area[2] => \/ area[2] > poc /\ ~Enough(vp.prints, <<area[1], area[2] - 1>>)
                                \/ area[1] < poc /\ ~Enough(vp.prints, <<area[1] + 1, area[2]>>)

\* Whatever windows are read, twice or not at all, and through restarts of the source, releases and
\* rollovers, each print counts once and the four accumulators tell the same story
\* (engine.py:371-550), each as far as its own bounds let it.
TapeFoldedOnce == CountedOnce /\ ViewsAgree /\ ValueAreaIsTight
=============================================================================
