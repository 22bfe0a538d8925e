\* Two runs, two sign-ins and a deletion in every order; the history keeps one
\* row so that trimming happens.
SPECIFICATION Spec
CONSTANTS
    r1 = r1
    r2 = r2
    anon = anon
    p1 = p1
    p2 = p2
    d1 = d1
    g1 = g1
    g2 = g2
    s1 = s1
    s2 = s2
    Nobody = Nobody
    Runs <- RunNames
    Anonymous <- AnonymousIds
    SignIns <- Callbacks
    Deletions <- OneDeletion
    Accounts <- AccountIds
    Subjects <- Identities
    KeepCount = 1
    MaxRecorders = 2
SYMMETRY Interchangeable
CHECK_DEADLOCK FALSE
INVARIANT
    DeletionLeavesNothing
    EveryRunIsListedRight
