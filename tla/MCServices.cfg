SPECIFICATION Spec
CONSTANTS
    Nil = Nil
    Parts = {"settings", "journal", "record", "streak", "fills", "account", "news", "calendar",
             "vix", "signals", "port", "engine", "tape", "flow"}
    SettingsConf <- MCSettings
    JournalConf <- MCJournal
    RecordConf <- MCRecord
    StreakConf <- MCStreak
    FillConf <- MCFill
    AccountConf <- MCAccount
    NewsConf <- MCNews
    CalendarConf <- MCCalendar
    VixConf <- MCVix
    SignalsConf <- MCSignals
    PortConf <- MCPort
    EngineConf <- MCEngine
    TapeConf <- MCTape
    FlowConf <- MCFlow
    Desks <- MCDesks
    Inputs <- MCInputs
    Attempts <- MCAttempts
    Feed <- MCFeed
    Batches <- MCBatches
    Books <- MCBooks
INVARIANTS
    TypeOK
    CacheIsReplay
    PresetRestores
    OvertakenByGlobal
    LockedIsUsable
    NothingVanishes
    MatchingIsSound
    AnomalyLocksSizing
    LongerStreakBlocks
    FillsAreCaptured
    AccountIsRecent
    NewsFailsClosed
    OpenIsInformed
    LosingDataNeverHelps
    RulesAreCoherent
    PortAgrees
    RiskIsBounded
    TapeFoldedOnce
    FlowMeasures
PROPERTIES
    EngineRemembers
CHECK_DEADLOCK FALSE
