SPECIFICATION AdmissionSpec
CONSTANTS
    r1 = r1
    r2 = r2
    r3 = r3
    r4 = r4
    a1 = a1
    a2 = a2
    Runs <- FourRuns
    Accounts = {a1, a2}
    LegacyAccounts = {a2}
    Owner <- TwoOwners
    QuickRuns <- FourRuns
    PanelSize = 1
    Capacity = 2
    PoolSize = 1
    LiveExecution = TRUE
    ServerKey = FALSE
    JudgeConfigured = FALSE
    MaxJudgeCalls = 0
    WorkersOutliveTtl = FALSE
    MaxClock = 0
INVARIANTS OneActiveRunPerAccount
    PermitsAccountedFor
    CostFiguresHold
    EventRowsHold
    LiveSwitchIsWatched
PROPERTIES QuotesAreHonoured LimitIsAsAdvertised
CHECK_DEADLOCK FALSE
