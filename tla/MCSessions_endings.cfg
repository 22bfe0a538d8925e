SPECIFICATION SessionsSpec
CONSTANTS
    t1 = t1
    t2 = t2
    s1 = s1
    s2 = s2
    s3 = s3
    s4 = s4
    Sessions = {s1, s2, s3, s4}
    Threads = {t1, t2}
    NoSession = NoSession
    SignedInIdle = 1
    SessionTTL = 1
    SignedInMaxAge = 1
    AnonymousMaxAge = 2
    Scenarios <- TheScenarios
SYMMETRY Symmetry
INVARIANT StartedSignInIsItsOwn
PROPERTIES EndedSessionNeverActs SessionEndedOutsideNeverActs
CHECK_DEADLOCK FALSE
