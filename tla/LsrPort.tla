------------------------------ MODULE LsrPort --------------------------------
(***************************************************************************)
(* The two LSR engines side by side: lsr_engine.py and its risk sizer say  *)
(* of themselves that they port lsr-engine.  An input of the backend       *)
(* arrives, and the same market, account and setup are put to both.        *)
(***************************************************************************)
EXTENDS LsrRules

CONSTANTS
    Inputs       \* what may be evaluated: [lsr, account, vix, after, delta]

VARIABLES
    input        \* Nil, then one of Inputs

vars == <<input>>

Abs(x) == IF x < 0 THEN -x ELSE x

Reference == INSTANCE LsrEngine WITH
    Attempts <- {}, NewsBefore <- 120, NewsAfter <- 120, Cooldown <- 900, LossTrigger <- 2,
    Fomo <- SweepMaxAge, ResubmitLockout <- 900, StopDuration <- 86400, RestrictedCap <- 3,
    NormalCap <- 10, MaxNow <- 0, state <- Nil, now <- 0, open <- 0, seen <- Nil

\* The reference measures the distance to the VPOC; the port derives it from the entry.  The set-up
\* is the first of its day, confluent and without news near: the gates F5, F6, F7_RESUBMIT, A5B and
\* the cap of F8, of whose state the port knows nothing, stay open.
Attempt(x) ==
    LET i == x.lsr  t == Tunings[i.instrument]
        long == i.direction = "BID_SWEEP"
        extreme == IF long THEN Min(Touched(i)) ELSE Max(Touched(i))
        ahead == IF long THEN Fresh(i.vpoc) - extreme ELSE extreme - Fresh(i.vpoc)
    IN  [market  |-> [instrument |-> i.instrument, vix |-> x.vix, fast |-> i.flow.fast, slow |-> i.flow.slow,
                      spread |-> Fresh(i.book).spread, bids |-> Fresh(i.book).bids,
                      asks |-> Fresh(i.book).asks, calendar |-> {}],
         account |-> [type |-> "EOD_TRAILING", campaignFloor |-> x.account.floor, capital |-> x.account.capital,
                     equity |-> x.account.equity, dayStart |-> x.account.dayStart, floor |-> x.account.floor,
                     dll |-> x.account.dll],
         setup   |-> [id |-> "s", side |-> IF long THEN "LONG" ELSE "SHORT", sweepTs |-> i.sweepTs, level |-> extreme,
                      extreme |-> extreme, distance |-> ahead - t.offset, onVpoc |-> TRUE, secondary |-> TRUE,
                      flow |-> [after |-> x.after, refill |-> i.flow.refill, buyers |-> i.flow.buyers,
                                delta |-> x.delta]]]

\* What both can read: in-house measures, finite, of an instrument and a sweep both know.
Shared(x) ==
    LET i == x.lsr IN
    /\ i.source = "inhouse" /\ i.flow # Nil /\ Nil \notin {i.flow.fast, i.flow.slow, i.sweepTs, x.vix}
    /\ i.instrument \in DOMAIN Tunings /\ i.direction \in {"BID_SWEEP", "ASK_SWEEP"}
    /\ Nil \notin {Fresh(i.book), Fresh(i.vpoc), Fresh(i.tape)} /\ Touched(i) # {}
    /\ \A f \in Amounts : x.account[f] # Nil

Ours(x) == Ticket(Plan(x.lsr), x.account, x.vix)
Theirs(x) == Reference!Evaluated(Attempt(x), Reference!Fresh(0), x.lsr.now)

\* The gates of the reference that the port leaves to others or does not have.
ReferenceOnly == {"F1", "F8_STOP", "F3_ATR", "OF_B4", "OF_B3"}

\* What the port refuses on top: the news, a corrupt book or account, a size beyond belief.
PortOnly(x) ==
    LET book == Fresh(x.lsr.book)  a == x.account IN
    \/ x.lsr.news \in {"HARD_LOCK", "SAFETY_UNKNOWN"} \/ Fresh(x.lsr.vpoc) <= 0 \/ book.spread <= 0
    \/ \E sizes \in {book.bids, book.asks} : \E k \in DOMAIN TopThree(sizes) : sizes[k] < 0
    \/ a.equity <= 0 \/ a.dayStart <= 0 \/ a.dll <= 0 \/ a.floor < 0 \/ a.capital <= 0
    \/ Theirs(x).contracts > MaxContracts

\* What build_lsr_inputs, the account and the VIX hold: a number, or Nil for one that is not finite.
WellFormed(x) ==
    /\ {x.vix, x.after, x.delta} \subseteq Optional /\ x.account # Nil /\ x.account \in [Amounts -> Optional]
    /\ {"instrument", "source", "flow", "book", "tape"} \subseteq DOMAIN x.lsr
    /\ x.lsr.now \in Int /\ {x.lsr.sweepTs, Fresh(x.lsr.vpoc)} \subseteq Optional
    /\ x.lsr.flow # Nil => x.lsr.flow \in [{"fast", "slow", "refill", "buyers"} -> Optional]
    /\ Fresh(x.lsr.book) # Nil =>
         Fresh(x.lsr.book).spread \in Int /\ {Fresh(x.lsr.book).bids, Fresh(x.lsr.book).asks} \subseteq Seq(Int)
    /\ Fresh(x.lsr.tape) # Nil =>
         IsFiniteSet(Fresh(x.lsr.tape)) /\ \A print \in Fresh(x.lsr.tape) : print.price \in Int

TypeOK == input = Nil \/ WellFormed(input)
Init == input = Nil
Arrive == input = Nil /\ input' \in Inputs
Next == Arrive
Spec == Init /\ [][Next]_vars

-----------------------------------------------------------------------------
\* The same levels and the same size.
SameTicket(ours, theirs) ==
    /\ ours.entry = theirs.geometry.entry /\ ours.stop = theirs.geometry.stop
    /\ ours.target = theirs.geometry.target /\ ours.contracts = theirs.contracts

\* The comparison of the two sources speaks of the gates as they would be, for a sweep.
ShadowAgrees(i) ==
    (i.flow # Nil /\ i.instrument \in DOMAIN Tunings /\ i.direction # Nil) =>
        \A source \in {"source", "inhouse"} :
            LET by == [i EXCEPT !.source = source]  t == Tunings[i.instrument] IN
            (Shadow(i, source).b1 = TRUE) = Defended(by, t) /\ (Shadow(i, source).b2 = TRUE) = Flipped(by, t)

\* What the backend tickets, the reference approves with the same levels and size, or refuses by a
\* gate that the backend leaves to others; what the reference approves, the backend tickets, or
\* refuses for what it checks on top; the frontiers of the day are the same numbers, and the
\* shadow of the order flow judges by the gates (lsr_engine.py:205, risk_sizer.py:232,
\* lsr_frontiers.py:51, bridge.py:148).
PortAgrees ==
    /\ input # Nil => ShadowAgrees(input.lsr)
    /\ (input # Nil /\ Shared(input)) =>
           LET ours == Ours(input)  theirs == Theirs(input)
               why == Reference!Refusal(Attempt(input), Reference!Fresh(0), input.lsr.now)
           IN  /\ ours # Nil => IF theirs # Nil THEN SameTicket(ours, theirs) ELSE why \in ReferenceOnly
               /\ (theirs # Nil /\ ours = Nil) => PortOnly(input)
               /\ RemainingFrontier(input.account) = Reference!Remaining(Attempt(input).account)
               /\ AtrBlocked(input.lsr.flow.fast, input.lsr.flow.slow) =
                      Reference!Expanding(input.lsr.flow.fast, input.lsr.flow.slow)

\* A ticket never risks more than a fifth of what remains of the day nor of the distance to the
\* floor, whatever is stale or absent, and the operator never reads a larger next ticket than the
\* sizer would grant to the same stop; with an ATR less it is never larger (risk_sizer.py:138-310).
RiskIsBounded ==
    input # Nil =>
        LET i == input.lsr  a == input.account
            ticket == Ours(input)
            blind == Ticket(Plan([i EXCEPT !.flow = IF @ = Nil THEN Nil ELSE [@ EXCEPT !.fast = Nil]]), a, input.vix)
            loss == ticket.contracts * Abs(ticket.entry - ticket.stop) * Tunings[i.instrument].worth
            shown == NextTicket(a, input.vix, i.instrument)
        IN  ticket # Nil =>
                /\ 5 * loss <= 100 * RemainingFrontier(a) /\ 5 * loss <= 100 * AccountBuffer(a)
                /\ blind = Nil \/ blind.contracts <= ticket.contracts
                /\ Abs(ticket.entry - ticket.stop) = ReferenceStop => shown.contracts = ticket.contracts
=============================================================================
