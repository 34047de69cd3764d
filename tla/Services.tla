------------------------------- MODULE Services ------------------------------
(***************************************************************************)
(* The services beside the decision desk and the ticket path.  They share  *)
(* no state, so a behaviour is a behaviour of one of them: part says which. *)
(***************************************************************************)
EXTENDS Integers, Sequences, FiniteSets

CONSTANTS
    Nil,
    Parts,            \* the services of a run
    \* The parameters of each service, a record with a field per constant of its module.
    SettingsConf, JournalConf, RecordConf, StreakConf, FillConf, AccountConf, NewsConf,
    CalendarConf, VixConf, SignalsConf, PortConf, EngineConf, TapeConf, FlowConf,
    Desks, Inputs, Attempts, Feed, Batches, Books   \* what Signals to OrderFlow are given

VARIABLES part,
    settingLog, cache, asked, liveMode, saved,
    drafts, sentiments, journal, request, removed, made, kept, lastPost,
    clock, gos, recons, outcomes, imports,
    losses, simulated, acks, tick, shown, audits,
    files, truncated, nextLine, tail, size, lines, clk, ids, captured, cut, failed, restarts,
    accountNow, accountLines, mtime, poll, snapshot,
    newsNow, newsListed, fetch, newsCache,
    now, listed, worker, vendorCache, raw, slow, fast, schema,
    desk, lost,
    input,
    state, sessionNow, open, runs,
    tapeNow, source, published, cvd, fp, cs, vp, seen,
    flowNow, tape, book, history, event, measured

settingsVars == <<settingLog, cache, asked, liveMode, saved>>
journalVars  == <<drafts, sentiments, journal, request, removed, made, kept, lastPost>>
recordVars   == <<clock, gos, recons, outcomes, imports>>
streakVars   == <<losses, simulated, acks, tick, shown, audits>>
fillVars     == <<files, truncated, nextLine, tail, size, lines, clk, ids, captured, cut,
                  failed, restarts>>
accountVars  == <<accountNow, accountLines, mtime, poll, snapshot>>
newsVars     == <<newsNow, newsListed, fetch, newsCache>>
gateVars     == <<now, listed, worker, vendorCache, raw, slow, fast, schema>>
deskVars     == <<desk, lost>>
engineVars   == <<state, sessionNow, open, runs>>
tapeVars     == <<tapeNow, source, published, cvd, fp, cs, vp, seen>>
flowVars     == <<flowNow, tape, book, history, event, measured>>
vars         == <<part, settingsVars, journalVars, recordVars, streakVars, fillVars, accountVars,
                  newsVars, gateVars, deskVars, input, engineVars, tapeVars, flowVars>>

Settings == INSTANCE Settings WITH
    Params <- SettingsConf.params, Scoped <- SettingsConf.scoped, Guarded <- SettingsConf.guarded,
    Strategies <- SettingsConf.strategies, Values <- SettingsConf.values,
    Default <- SettingsConf.default, GuardBelow <- SettingsConf.guardBelow,
    Names <- SettingsConf.names, MaxEvents <- SettingsConf.maxEvents

Journal == INSTANCE Journal WITH
    Clients <- JournalConf.clients, Drafts <- JournalConf.drafts, Edits <- JournalConf.edits,
    MaxKeys <- JournalConf.maxKeys, MaxPosts <- JournalConf.maxPosts,
    MaxEntries <- JournalConf.maxEntries

TrackRecord == INSTANCE TrackRecord WITH
    Instruments <- RecordConf.instruments, Files <- RecordConf.files, Window <- RecordConf.window,
    Target <- RecordConf.target, MinTrades <- RecordConf.minTrades,
    Rounding <- RecordConf.rounding, MaxGos <- RecordConf.maxGos,
    MaxImports <- RecordConf.maxImports, MaxNow <- RecordConf.maxNow,
    MaxOutcomes <- RecordConf.maxOutcomes

StreakAudit == INSTANCE StreakAudit WITH
    Threshold <- StreakConf.threshold, Simulated <- StreakConf.simulated,
    MaxResults <- StreakConf.maxResults

FillLog == INSTANCE FillLog WITH
    clock <- clk, MaxLines <- FillConf.maxLines, MaxFiles <- FillConf.maxFiles,
    MaxTruncations <- FillConf.maxTruncations, MaxRestarts <- FillConf.maxRestarts,
    MaxClock <- FillConf.maxClock

AccountFile == INSTANCE AccountFile WITH
    now <- accountNow, lines <- accountLines, MaxAge <- AccountConf.maxAge,
    MaxNow <- AccountConf.maxNow, MaxLines <- AccountConf.maxLines

NewsLock == INSTANCE NewsLock WITH
    now <- newsNow, listed <- newsListed, cache <- newsCache, Events <- NewsConf.events,
    LockBefore <- NewsConf.lockBefore, LockAfter <- NewsConf.lockAfter,
    WarnBefore <- NewsConf.warnBefore, MaxAge <- NewsConf.maxAge, Timeout <- NewsConf.timeout,
    MaxNow <- NewsConf.maxNow

\* The calendar: the slow loop reads it, a date is uncertain or its impact is not readable.
Calendar == INSTANCE MacroGate WITH
    cache <- vendorCache, FastField <- FALSE,
    AbsentAfter <- CalendarConf.absentAfter, Stale <- CalendarConf.stale,
    Pause <- CalendarConf.pause, Warn <- CalendarConf.warn, Events <- CalendarConf.events,
    Sources <- CalendarConf.sources, Latency <- CalendarConf.latency,
    MaxEvents <- CalendarConf.maxEvents, MaxNow <- CalendarConf.maxNow,
    MaxAge <- CalendarConf.maxAge, PastGrace <- CalendarConf.pastGrace

\* The VIX: both loops read it.
Vix == INSTANCE MacroGate WITH
    cache <- vendorCache, FastField <- TRUE, Events <- {}, MaxEvents <- 0, PastGrace <- 0,
    Pause <- VixConf.pause, Warn <- VixConf.warn, Sources <- VixConf.sources,
    Latency <- VixConf.latency, MaxNow <- VixConf.maxNow, MaxAge <- VixConf.maxAge,
    AbsentAfter <- VixConf.absentAfter, Stale <- VixConf.stale

Signals == INSTANCE Signals WITH
    Pause <- SignalsConf.pause, Warn <- SignalsConf.warn,
    MaxLost <- SignalsConf.maxLost

LsrPort == INSTANCE LsrPort WITH Pause <- PortConf.pause, Warn <- PortConf.warn

LsrEngine == INSTANCE LsrEngine WITH
    now <- sessionNow, seen <- runs,
    NewsBefore <- EngineConf.newsBefore, NewsAfter <- EngineConf.newsAfter,
    Cooldown <- EngineConf.cooldown, LossTrigger <- EngineConf.lossTrigger, Fomo <- EngineConf.fomo,
    ResubmitLockout <- EngineConf.resubmitLockout, StopDuration <- EngineConf.stopDuration,
    RestrictedCap <- EngineConf.restrictedCap, NormalCap <- EngineConf.normalCap,
    MaxNow <- EngineConf.maxNow

TapeFold == INSTANCE TapeFold WITH
    now <- tapeNow, Window <- TapeConf.window, Stale <- TapeConf.stale,
    DayLength <- TapeConf.dayLength, Releases <- TapeConf.releases,
    MaxTracked <- TapeConf.maxTracked, MaxPrints <- TapeConf.maxPrints,
    StratPrints <- TapeConf.stratPrints, MaxCandles <- TapeConf.maxCandles,
    MaxLevels <- TapeConf.maxLevels,
    CandleLen <- TapeConf.candleLen, Institutional <- TapeConf.institutional,
    MaxRestarts <- TapeConf.maxRestarts, MaxNow <- TapeConf.maxNow

OrderFlow == INSTANCE OrderFlow WITH
    now <- flowNow, NewsAt <- FlowConf.newsAt, Imminent <- FlowConf.imminent,
    Burst <- FlowConf.burst, BurstCount <- FlowConf.burstCount,
    WideSpread <- FlowConf.wideSpread, Window <- FlowConf.window, MinVolume <- FlowConf.minVolume,
    MinSpan <- FlowConf.minSpan, MaxGap <- FlowConf.maxGap, HistoryMax <- FlowConf.historyMax,
    MaxTape <- FlowConf.maxTape, MaxNow <- FlowConf.maxNow

TypeOK ==
    /\ part \in Parts
    /\ CASE part = "settings" -> Settings!TypeOK
         [] part = "journal"  -> Journal!TypeOK
         [] part = "record"   -> TrackRecord!TypeOK
         [] part = "streak"   -> StreakAudit!TypeOK
         [] part = "fills"    -> FillLog!TypeOK
         [] part = "account"  -> AccountFile!TypeOK
         [] part = "news"     -> NewsLock!TypeOK
         [] part = "calendar" -> Calendar!TypeOK
         [] part = "vix"      -> Vix!TypeOK
         [] part = "signals"  -> Signals!TypeOK
         [] part = "port"     -> LsrPort!TypeOK
         [] part = "engine"   -> LsrEngine!TypeOK
         [] part = "tape"     -> TapeFold!TypeOK
         [] part = "flow"     -> OrderFlow!TypeOK

-----------------------------------------------------------------------------
(* What the proofs assume of the parameters.                               *)

\* Nothing is neither a number, a truth value, the impact of an event nor a side of the book.
ASSUME NilAssumption == Nil \notin Int /\ Nil \notin BOOLEAN /\ Nil \notin {"HIGH", "MED", "ASK", "BID"}

\* A run is of the services that Next composes.
ASSUME PartsAssumption ==
    Parts \subseteq {"settings", "journal", "record", "streak", "fills", "account", "news", "calendar",
                    "vix", "signals", "port", "engine", "tape", "flow"}

\* A strategy can override a parameter that has a global value; the strategies are not GLOBAL.
ASSUME SettingsAssumption ==
    /\ SettingsConf.scoped \subseteq SettingsConf.params /\ "GLOBAL" \notin SettingsConf.strategies
    /\ SettingsConf.values \subseteq Int /\ SettingsConf.default \in Int
    /\ Nil \notin Settings!Overrides

ASSUME JournalAssumption ==
    /\ {JournalConf.maxKeys, JournalConf.maxPosts, JournalConf.maxEntries} \subseteq Nat
    /\ \A edit \in JournalConf.edits :
         DOMAIN edit \subseteq Journal!Fields /\ \A f \in DOMAIN edit : edit[f] \in Journal!Marks
    /\ Nil \notin Journal!Sheets

\* The fills of a file say for which instrument they are, when they were and what they made.
ASSUME RecordAssumption ==
    /\ RecordConf.files \subseteq Seq([instrument : RecordConf.instruments, ts : Int,
                                      r : TrackRecord!Results])
    /\ {RecordConf.window, RecordConf.maxGos, RecordConf.maxOutcomes, RecordConf.maxImports,
        RecordConf.maxNow} \subseteq Nat
    /\ RecordConf.rounding \in Nat \ {0}

ASSUME StreakAssumption ==
    /\ 0 \in StreakConf.simulated /\ StreakConf.simulated \subseteq Nat
    /\ StreakConf.threshold \in Int /\ StreakConf.maxResults \in Nat

\* There is a file when the tailer starts.
ASSUME FillAssumption ==
    /\ {FillConf.maxLines, FillConf.maxTruncations, FillConf.maxRestarts, FillConf.maxClock} \subseteq Nat
    /\ FillConf.maxFiles \in Nat \ {0}

ASSUME AccountAssumption ==
    AccountConf.maxAge \in Int /\ {AccountConf.maxNow, AccountConf.maxLines} \subseteq Nat

\* The caps and the delays of the LSR engine.
ASSUME EngineAssumption ==
    /\ {EngineConf.lossTrigger, EngineConf.cooldown, EngineConf.resubmitLockout,
        EngineConf.stopDuration} \subseteq Nat \ {0}
    /\ {EngineConf.restrictedCap, EngineConf.normalCap, EngineConf.maxNow} \subseteq Nat
    /\ EngineConf.restrictedCap <= EngineConf.normalCap

\* An event of the calendar is shown for longer after it than it closes Phase 0.  Several may be at
\* one instant.
ASSUME CalendarAssumption ==
    /\ IsFiniteSet(CalendarConf.events) /\ \A e \in CalendarConf.events : e.ts \in Int
    /\ CalendarConf.sources \in Seq(STRING)
    /\ {CalendarConf.pause, CalendarConf.warn, CalendarConf.latency, CalendarConf.maxNow,
        CalendarConf.maxAge, CalendarConf.maxEvents, CalendarConf.stale,
        CalendarConf.absentAfter, CalendarConf.pastGrace} \subseteq Nat
    /\ CalendarConf.pause + CalendarConf.latency < CalendarConf.pastGrace

ASSUME VixAssumption ==
    {VixConf.latency, VixConf.maxNow, VixConf.maxAge, VixConf.stale, VixConf.absentAfter} \subseteq Nat

\* Each input of an evaluation is one that the gathering of the readings can give.
ASSUME InputsAssumption == \A x \in Inputs : LsrPort!WellFormed(x)

\* Nothing is neither a plan nor a ticket, of either engine.
ASSUME TicketsAssumption ==
    /\ Nil \notin LsrPort!Plans /\ Nil \notin LsrPort!Tickets
    /\ Nil \notin LsrPort!Reference!Levels /\ Nil \notin LsrPort!Reference!Approvals

\* Each state of the schema holds what the program can put in it.
ASSUME DesksAssumption == Desks \subseteq Signals!Schema /\ SignalsConf.maxLost \in Nat

ASSUME NewsAssumption ==
    /\ NewsConf.events \subseteq Int /\ {NewsConf.timeout, NewsConf.maxNow} \subseteq Nat
    /\ {NewsConf.lockBefore, NewsConf.lockAfter, NewsConf.warnBefore, NewsConf.maxAge} \subseteq Int

\* A print that can be read has a price and a size.
ASSUME TapeAssumption ==
    /\ Len(Feed) \in Nat /\ DOMAIN Feed = 1 .. Len(Feed)
    /\ \A k \in DOMAIN Feed : /\ Feed[k].valid \in BOOLEAN
                              /\ Feed[k].valid => Feed[k].price \in Int /\ Feed[k].size \in Nat
    /\ \A e \in TapeConf.releases : e.ts \in Int
    /\ {TapeConf.stale, TapeConf.institutional} \subseteq Int
    /\ {TapeConf.window, TapeConf.maxTracked, TapeConf.dayLength, TapeConf.candleLen} \subseteq Nat \ {0}
    /\ {TapeConf.maxPrints, TapeConf.stratPrints, TapeConf.maxCandles, TapeConf.maxLevels,
        TapeConf.maxRestarts, TapeConf.maxNow} \subseteq Nat
    /\ Nil \notin TapeFold!Windows

\* The sequence number of a print is its own; the sizes of a book are by price.
ASSUME FlowAssumption ==
    /\ \A t \in Batches : t \in Seq(OrderFlow!Trades)
    /\ \A t, u \in Batches : \A j \in DOMAIN t, k \in DOMAIN u : t[j].seq = u[k].seq => t[j] = u[k]
    /\ Nil \notin Books
    /\ \A b \in Books : \A sizes \in {b.bids, b.asks} :
         IsFiniteSet(DOMAIN sizes) /\ DOMAIN sizes \subseteq Int /\ sizes \in [DOMAIN sizes -> Nat]
    /\ {FlowConf.burst, FlowConf.window, FlowConf.minSpan} \subseteq Int
    /\ {FlowConf.maxGap, FlowConf.historyMax, FlowConf.maxTape, FlowConf.maxNow} \subseteq Nat
    /\ FlowConf.minVolume \in Nat \ {0}
    /\ Nil \notin OrderFlow!Walls /\ Nil \notin OrderFlow!Events

-----------------------------------------------------------------------------

Init ==
    /\ part \in Parts
    /\ Settings!Init /\ Journal!Init /\ TrackRecord!Init /\ StreakAudit!Init /\ FillLog!Init
    /\ AccountFile!Init /\ NewsLock!Init /\ IF part = "vix" THEN Vix!Init ELSE Calendar!Init
    /\ Signals!Init /\ LsrPort!Init /\ LsrEngine!Init /\ TapeFold!Init /\ OrderFlow!Init

Next ==
    /\ UNCHANGED part
    /\ \/ /\ part = "settings" /\ Settings!Next
          /\ UNCHANGED <<journalVars, recordVars, streakVars, fillVars, accountVars, newsVars, gateVars,
                       deskVars, input, engineVars, tapeVars, flowVars>>
       \/ /\ part = "journal" /\ Journal!Next
          /\ UNCHANGED <<settingsVars, recordVars, streakVars, fillVars, accountVars, newsVars, gateVars,
                       deskVars, input, engineVars, tapeVars, flowVars>>
       \/ /\ part = "record" /\ TrackRecord!Next
          /\ UNCHANGED <<settingsVars, journalVars, streakVars, fillVars, accountVars, newsVars, gateVars,
                       deskVars, input, engineVars, tapeVars, flowVars>>
       \/ /\ part = "streak" /\ StreakAudit!Next
          /\ UNCHANGED <<settingsVars, journalVars, recordVars, fillVars, accountVars, newsVars, gateVars,
                       deskVars, input, engineVars, tapeVars, flowVars>>
       \/ /\ part = "fills" /\ FillLog!Next
          /\ UNCHANGED <<settingsVars, journalVars, recordVars, streakVars, accountVars, newsVars, gateVars,
                       deskVars, input, engineVars, tapeVars, flowVars>>
       \/ /\ part = "account" /\ AccountFile!Next
          /\ UNCHANGED <<settingsVars, journalVars, recordVars, streakVars, fillVars, newsVars, gateVars,
                       deskVars, input, engineVars, tapeVars, flowVars>>
       \/ /\ part = "news" /\ NewsLock!Next
          /\ UNCHANGED <<settingsVars, journalVars, recordVars, streakVars, fillVars, accountVars, gateVars,
                       deskVars, input, engineVars, tapeVars, flowVars>>
       \/ /\ part = "calendar" /\ Calendar!Next
          /\ UNCHANGED <<settingsVars, journalVars, recordVars, streakVars, fillVars, accountVars, newsVars,
                       deskVars, input, engineVars, tapeVars, flowVars>>
       \/ /\ part = "vix" /\ Vix!Next
          /\ UNCHANGED <<settingsVars, journalVars, recordVars, streakVars, fillVars, accountVars, newsVars,
                       deskVars, input, engineVars, tapeVars, flowVars>>
       \/ /\ part = "signals" /\ Signals!Next
          /\ UNCHANGED <<settingsVars, journalVars, recordVars, streakVars, fillVars, accountVars, newsVars,
                       gateVars, input, engineVars, tapeVars, flowVars>>
       \/ /\ part = "port" /\ LsrPort!Next
          /\ UNCHANGED <<settingsVars, journalVars, recordVars, streakVars, fillVars, accountVars, newsVars,
                       gateVars, deskVars, engineVars, tapeVars, flowVars>>
       \/ /\ part = "engine" /\ LsrEngine!Next
          /\ UNCHANGED <<settingsVars, journalVars, recordVars, streakVars, fillVars, accountVars, newsVars,
                       gateVars, deskVars, input, tapeVars, flowVars>>
       \/ /\ part = "tape" /\ TapeFold!Next
          /\ UNCHANGED <<settingsVars, journalVars, recordVars, streakVars, fillVars, accountVars, newsVars,
                       gateVars, deskVars, input, engineVars, flowVars>>
       \/ /\ part = "flow" /\ OrderFlow!Next
          /\ UNCHANGED <<settingsVars, journalVars, recordVars, streakVars, fillVars, accountVars, newsVars,
                       gateVars, deskVars, input, engineVars, tapeVars>>

Spec == Init /\ [][Next]_vars

CacheIsReplay == Settings!CacheIsReplay
PresetRestores == Settings!PresetRestores
OvertakenByGlobal == Settings!OvertakenByGlobal
LockedIsUsable == Journal!LockedIsUsable
NothingVanishes == Journal!NothingVanishes
MatchingIsSound == TrackRecord!MatchingIsSound
AnomalyLocksSizing == TrackRecord!AnomalyLocksSizing
LongerStreakBlocks == StreakAudit!LongerStreakBlocks
FillsAreCaptured == FillLog!FillsAreCaptured
AccountIsRecent == AccountFile!AccountIsRecent
NewsFailsClosed == NewsLock!NewsFailsClosed
LosingDataNeverHelps == Signals!LosingDataNeverHelps
RulesAreCoherent == Signals!RulesAreCoherent
AbsentBlocks == Signals!AbsentBlocks
PortAgrees == LsrPort!PortAgrees
RiskIsBounded == LsrPort!RiskIsBounded
EngineRemembers == LsrEngine!EngineRemembers
TapeFoldedOnce == TapeFold!TapeFoldedOnce
FlowMeasures == OrderFlow!FlowMeasures
OpenIsInformed == IF part = "vix" THEN Vix!OpenIsInformed ELSE Calendar!OpenIsInformed
=============================================================================
