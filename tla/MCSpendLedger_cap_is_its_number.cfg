SPECIFICATION Spec
CONSTANTS
    r1 = r1
    r2 = r2
    v1 = v1
    h1 = h1
    h2 = h2
    h3 = h3
    alice = alice
    Nobody = Nobody
    NoHandle = NoHandle
    Runs = {r1, r2}
    Visitors = {}
    Accounts = {alice}
    Owner <- OneOwner
    Est <- TwoEach
    Measured = {1, 4}
    DailyCap = 3
    GlobalCeiling = 4
    HardLimit = 4
    RingCap = 2
    Handles = {h1, h2, h3}
    FailClosed = FALSE
    MaxFaults = 1
    MaxRestarts = 0
SYMMETRY HandleSymmetry
PROPERTIES CapMeansItsNumber
CHECK_DEADLOCK FALSE
