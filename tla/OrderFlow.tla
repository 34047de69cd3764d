----------------------------- MODULE OrderFlow -------------------------------
(***************************************************************************)
(* The order flow measured in house: the books the fast loop remembers,    *)
(* the sweep the detector sees, the event the sweep loop dates, and the    *)
(* four measures of that event (orderflow/bridge.py,                       *)
(* orderflow/calculator.py, graph/liquidity_sweep.py).                     *)
(*                                                                         *)
(* A price is a tick of the grid, a share or a ratio the exact pair        *)
(* <<numerator, denominator>>, and Nil a measure that cannot be made.      *)
(***************************************************************************)
EXTENDS Prints

CONSTANTS
    Nil,
    Batches,      \* what the tape may deliver: sequences of [seq, ts, price, size, side]
    Books,        \* what the book may become: [bids, asks], sizes by published price
    NewsAt,       \* the tier-1 release
    Imminent,     \* NEWS_T1_IMMINENT_S
    Burst,        \* BURST_WINDOW_S, and ORDERFLOW_SWEEP_WINDOW_S
    BurstCount,   \* BURST_COUNT_THRESHOLD
    WideSpread,   \* SPREAD_TICKS_THRESHOLD
    Window,       \* ORDERFLOW_WINDOW_S
    MinVolume,    \* ORDERFLOW_MIN_VOLUME
    MinSpan,      \* ORDERFLOW_MIN_SPAN_S
    MaxGap,       \* ORDERFLOW_MAX_BOOK_GAP_S
    HistoryMax,   \* BOOK_HISTORY_MAX
    MaxTape,      \* bound: prints on the tape
    MaxNow        \* bound: last instant of a run

VARIABLES
    now,
    tape,       \* the prints of the schema, as delivered
    book,       \* the book of the schema; Nil when it is not FRESH
    history,    \* _book_history
    event,      \* _sweep_event_key and _sweep_event_ts: [direction, trigger, since], or Nil
    measured    \* the OrderFlowSnapshot of the last sweep tick, or Nil

vars == <<now, tape, book, history, event, measured>>

Coverage == 80   \* ORDERFLOW_MIN_SIDE_COVERAGE, in percent

Trades == [seq : Int, ts : Int, price : Int, size : Nat, side : {"BUY", "SELL", "UNKNOWN"}]
Events == [trigger : SUBSET {"TAPE_BURST", "WIDE_SPREAD", "CROSSED_BOOK"},
           direction : {"BID_SWEEP", "ASK_SWEEP"}, since : Int]

-----------------------------------------------------------------------------
(* The detector.                                                           *)

Best(b) == [bid |-> Max(DOMAIN b.bids), ask |-> Min(DOMAIN b.asks)]
Quoted(b) == DOMAIN b.bids # {} /\ DOMAIN b.asks # {}

\* build_sweep_inputs, _spread_anomaly, _detect and _emit.
Detected ==
    LET quoted == book # Nil /\ Quoted(book)
        spread == Best(book).ask - Best(book).bid
        delta == Delta(tape, DOMAIN tape)
        burst == Cardinality({k \in DOMAIN tape : now - Burst < tape[k].ts /\ tape[k].ts <= now}) >= BurstCount
        trigger == (IF burst THEN {"TAPE_BURST"} ELSE {})
                   \cup (IF quoted /\ spread > WideSpread THEN {"WIDE_SPREAD"} ELSE {})
                   \cup (IF quoted /\ spread <= 0 THEN {"CROSSED_BOOK"} ELSE {})
    IN  IF trigger # {} /\ NewsAt - Imminent <= now /\ now <= NewsAt + Imminent
        THEN [trigger |-> trigger,
              direction |-> IF delta = 0 THEN Nil ELSE IF delta > 0 THEN "ASK_SWEEP" ELSE "BID_SWEEP"]
        ELSE Nil

\* The event starts again when its trigger or its direction changes.
EventNow ==
    IF Detected = Nil \/ Detected.direction = Nil THEN Nil
    ELSE IF event # Nil /\ event.trigger = Detected.trigger /\ event.direction = Detected.direction THEN event
    ELSE [trigger |-> Detected.trigger, direction |-> Detected.direction, since |-> now]

-----------------------------------------------------------------------------
(* The measures of a tape t, books h and an event e at an instant.         *)

\* compute_snapshot: the prints of the window, each sequence number once.
InWindow(t, at) == {k \in DOMAIN t : at - Window <= t[k].ts /\ t[k].ts <= at}
Kept(t, at) == {k \in InWindow(t, at) : \A j \in InWindow(t, at) : j < k => t[j].seq # t[k].seq}
Side(t, K, side) == {k \in K : t[k].side = side}
Known(t, K) == K \ Side(t, K, "UNKNOWN")

\* _wall: the extreme of the tape on the side that is swept.
Walls == [price : Int, side : {"BID", "ASK"}]
Wall(t, e) ==
    IF e = Nil \/ t = <<>> THEN Nil
    ELSE LET prices == {t[k].price : k \in DOMAIN t} IN
         IF e.direction = "BID_SWEEP" THEN [price |-> Min(prices), side |-> "BID"]
         ELSE [price |-> Max(prices), side |-> "ASK"]

\* _level_size: below the depth that is published nothing is known.
LevelSize(b, wall) ==
    LET sizes == IF wall.side = "BID" THEN b.bids ELSE b.asks  price == wall.price IN
    IF price \in DOMAIN sizes THEN sizes[price]
    ELSE IF \/ DOMAIN sizes = {} \/ (wall.side = "BID" /\ price < Min(DOMAIN sizes))
            \/ (wall.side = "ASK" /\ price > Max(DOMAIN sizes)) THEN Nil
    ELSE 0

Sane(b) == Quoted(b) => Best(b).bid < Best(b).ask

\* A mutation: the books of before the sweep count too.
SinceEver(h, e) == h

\* snapshot_for_lsr: the books since the sweep.
SinceSweep(h, e) == IF e = Nil THEN h ELSE Those(h, {b \in ToSet(h) : b.ts >= e.since})

\* B1: what came back of what was eaten.
Refill(t, h, e, at) ==
    LET wall == Wall(t, e)
        sane == Those(SinceSweep(h, e), {b \in ToSet(h) : Sane(b) /\ at - Window <= b.ts})
        known == Those(sane, {b \in ToSet(sane) : LevelSize(b, wall) # Nil})
        size(k) == LevelSize(known[k], wall)
        least == Min({size(k) : k \in DOMAIN known})
    IN  IF /\ wall # Nil
           /\ \A k \in 2 .. Len(sane) : sane[k].ts - sane[k - 1].ts <= MaxGap
           /\ Len(known) >= 2 /\ size(1) > least
        THEN <<size(Len(known)) - least, size(1) - least>> ELSE Nil

Covered(t, K) ==
    /\ Volume(t, K) >= MinVolume
    /\ 100 * Volume(t, Known(t, K)) >= Coverage * Volume(t, K)

\* B2: the share of buyers, by volume.
Buyers(t, K) ==
    IF Covered(t, K) THEN <<Volume(t, Side(t, K, "BUY")), Volume(t, Known(t, K))>> ELSE Nil

\* B3: the delta since the last touch of the extreme that price has left the most.
Later(t, j, k) == \/ t[j].ts > t[k].ts \/ (t[j].ts = t[k].ts /\ j > k)
Latest(t, K) == CHOOSE k \in K : \A j \in K \ {k} : Later(t, k, j)
Touches(t, K, price) == {k \in K : t[k].price = price}

Rejection(t, K) ==
    LET low == Min({t[k].price : k \in K})  high == Max({t[k].price : k \in K})
        last == t[Latest(t, K)].price
        left == Latest(t, Touches(t, K, IF last - low >= high - last THEN low ELSE high))
        leg == {k \in K : Later(t, k, left)}
    IN  IF Covered(t, K) /\ Cardinality(K) >= 2 /\ low # high /\ leg # {}
        THEN <<Volume(t, Side(t, leg, "BUY")) - Volume(t, Side(t, leg, "SELL")), Volume(t, K)>> ELSE Nil

\* B4: the rate after the sweep over the rate of its burst.
After(t, K, e, at) ==
    LET during == Volume(t, {k \in K : e.since - Burst < t[k].ts /\ t[k].ts <= e.since})
        after == Volume(t, {k \in K : t[k].ts > e.since})
    IN  IF e # Nil /\ at - Window <= e.since - Burst /\ at - e.since >= MinSpan /\ during > 0
        THEN <<after * Burst, during * (at - e.since)>> ELSE Nil

Snapshot(t, h, e, at) ==
    [refill |-> Refill(t, h, e, at), buyers |-> Buyers(t, Kept(t, at)),
     delta |-> Rejection(t, Kept(t, at)), after |-> After(t, Kept(t, at), e, at)]

-----------------------------------------------------------------------------
Init ==
    /\ now = 0 /\ tape = <<>> /\ book = Nil
    /\ history = <<>> /\ event = Nil /\ measured = Nil

\* A tick of the fast loop: prints, possibly late, early or twice; a book, or none that is FRESH
\* (book_history_push).
FastTick(batch, b) ==
    /\ now < MaxNow /\ now' = now + 1
    /\ Len(tape) + Len(batch) <= MaxTape /\ tape' = tape \o batch
    /\ book' = b
    /\ history' = LET longer == IF b = Nil THEN history ELSE Append(history, [ts |-> now', bids |-> b.bids, asks |-> b.asks]) IN
                  IF Len(longer) > HistoryMax THEN Tail(longer) ELSE longer
    /\ UNCHANGED <<event, measured>>

\* A tick of the sweep loop: the detector, the event, the measures.
SweepTick ==
    /\ event' = EventNow
    /\ measured' = Snapshot(tape, history, event', now)
    /\ UNCHANGED <<now, tape, book, history>>

Next == (\E batch \in Batches \cup {<<>>}, b \in Books \cup {Nil} : FastTick(batch, b)) \/ SweepTick
Spec == Init /\ [][Next]_vars

-----------------------------------------------------------------------------
TypeOK ==
    /\ now \in 0 .. MaxNow /\ Len(tape) <= MaxTape /\ book \in Books \cup {Nil}
    /\ Len(history) <= HistoryMax /\ event \in Events \cup {Nil}

\* The market seen in a mirror: a price for its opposite, a buyer for a seller.
Opposite(price) == 10 - price
Swapped == [BUY |-> "SELL", SELL |-> "BUY", UNKNOWN |-> "UNKNOWN"]
MirrorTape(t) == [k \in DOMAIN t |-> [t[k] EXCEPT !.price = Opposite(@), !.side = Swapped[@]]]
MirrorSizes(sizes) == [p \in {Opposite(q) : q \in DOMAIN sizes} |-> sizes[Opposite(p)]]
MirrorBooks(h) ==
    [k \in DOMAIN h |-> [ts |-> h[k].ts, bids |-> MirrorSizes(h[k].asks), asks |-> MirrorSizes(h[k].bids)]]
MirrorEvent(e) == [e EXCEPT !.direction = IF @ = "BID_SWEEP" THEN "ASK_SWEEP" ELSE "BID_SWEEP"]

\* The measures do not depend on the order of delivery, where no two prints have the same instant,
\* nor on what is delivered twice.
OrderFree(t) ==
    LET simultaneous == \E j, k \in DOMAIN t : t[j].seq # t[k].seq /\ t[j].ts = t[k].ts
        backwards == IF simultaneous THEN t ELSE [k \in DOMAIN t |-> t[Len(t) + 1 - k]]
    IN  \A u \in {backwards, t \o t} : Snapshot(u, history, event, now) = Snapshot(t, history, event, now)

\* A short setup is measured as its long mirror is, except when price ends halfway: the low wins.
Symmetric(t) ==
    LET ours == Snapshot(t, history, event, now)
        theirs == Snapshot(MirrorTape(t), MirrorBooks(history), MirrorEvent(event), now)
        K == Kept(t, now)  prices == {t[k].price : k \in K}
    IN  /\ theirs.refill = ours.refill /\ theirs.after = ours.after
        /\ ours.buyers # Nil => theirs.buyers = <<ours.buyers[2] - ours.buyers[1], ours.buyers[2]>>
        /\ ours.delta # Nil =>
               \/ 2 * t[Latest(t, K)].price = Min(prices) + Max(prices)
               \/ theirs.delta = <<-ours.delta[1], ours.delta[2]>>

\* A refill is that of a wall which was seen losing size, since the sweep and without a gap.
WallIsWatched ==
    measured.refill # Nil =>
        \E j, k \in DOMAIN history :
            /\ event.since <= history[j].ts /\ j < k /\ Sane(history[j]) /\ Sane(history[k])
            /\ \A x \in history[j].ts .. history[k].ts - MaxGap - 1 :
                   \E c \in DOMAIN history : Sane(history[c]) /\ history[c].ts \in x + 1 .. x + MaxGap
            /\ \E p \in DOMAIN history[j].bids \cup DOMAIN history[j].asks :
                   LET wall == [price |-> p, side |-> IF event.direction = "BID_SWEEP" THEN "BID" ELSE "ASK"] IN
                   /\ Nil \notin {LevelSize(history[j], wall), LevelSize(history[k], wall)}
                   /\ LevelSize(history[j], wall) > LevelSize(history[k], wall)

\* The four measures do not depend on the order or the repetition of the feed, measure a short as
\* its long, stay in their ranges, and a refill is never inferred from books of before the sweep,
\* of a gap or of the other side (calculator.py:194-353, bridge.py:120-145).
FlowMeasures ==
    (event # Nil /\ measured = Snapshot(tape, history, event, now)) =>
        /\ OrderFree(tape) /\ Symmetric(tape) /\ WallIsWatched
        /\ measured.refill # Nil => measured.refill[1] >= 0 /\ measured.refill[2] > 0
        /\ measured.buyers # Nil => measured.buyers[1] <= measured.buyers[2] /\ measured.buyers[2] > 0
        /\ measured.delta # Nil => measured.delta[1] \in -measured.delta[2] .. measured.delta[2]
=============================================================================
