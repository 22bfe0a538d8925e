SPECIFICATION PipelineSpec
CONSTANTS
    r1 = r1
    r2 = r2
    a1 = a1
    Runs <- TwoRuns
    Accounts = {a1}
    LegacyAccounts = {}
    Owner <- SameOwner
    QuickRuns = {r2}
    PanelSize = 2
    Capacity = 1
    PoolSize = 2
    LiveExecution = TRUE
    ServerKey = TRUE
    JudgeConfigured = TRUE
    MaxJudgeCalls = 2
    WorkersOutliveTtl = TRUE
    MaxClock = 1
INVARIANTS MeasuredBillIsExact
    SettledBillStaysTrue
    StagesTakeTurns
    FinishedRunKeepsItsPromise
    NoUnbookedSpend
PROPERTIES TerminalIsFinal
    EveryChangeIsStamped
    EveryRunEndsAndFreesItsPermit
CHECK_DEADLOCK FALSE
