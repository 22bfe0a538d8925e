SPECIFICATION FairSpec
CONSTANTS
    r1 = r1
    r2 = r2
    v1 = v1
    h1 = h1
    h2 = h2
    h3 = h3
    alice = alice
    Nobody = Nobody
    NoHandle = NoHandle
    Runs = {r1}
    Visitors = {v1}
    Accounts = {alice}
    Owner <- OneRunOwner
    Est <- TwoOnly
    Measured = {1}
    DailyCap = 3
    GlobalCeiling = 4
    HardLimit = 4
    RingCap = 1
    Handles = {h1, h2, h3}
    FailClosed = TRUE
    MaxFaults = 1
    MaxRestarts = 1
PROPERTIES LedgerRecovers
CHECK_DEADLOCK FALSE
