SPECIFICATION Spec
CONSTANTS
    Nil = Nil
    Parts = {"signals"}
    SettingsConf <- MCSettings
    JournalConf <- MCJournal
    RecordConf <- MCRecord
    StreakConf <- MCStreak
    FillConf <- MCFill
    AccountConf <- MCAccount
    NewsConf <- MCNews
    CalendarConf <- MCCalendar
    VixConf <- MCVix
    SignalsConf <- MCSignals
    PortConf <- MCPort
    EngineConf <- MCEngine
    TapeConf <- MCTape
    FlowConf <- MCFlow
    Desks <- MCDesks
    Inputs <- MCInputs
    Attempts <- MCAttempts
    Feed <- MCFeed
    Batches <- MCBatches
    Books <- MCBooks
INVARIANT AbsentBlocks
CHECK_DEADLOCK FALSE
