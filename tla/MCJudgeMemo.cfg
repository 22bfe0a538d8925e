SPECIFICATION PartsSpec
CONSTANTS
    p1 = p1
    p2 = p2
    a = a
    b = b
    c = c
    Nobody = Nobody
    NoRun = NoRun
    Readers = {p1, p2}
    Runs = {a, b}
    Judged = {a, b}
    VerdictMax = 1
    EvaluationMax = 1
    MaxRevision = 1
    MayRaise = TRUE
INVARIANTS OnePayerPerRun PayerAskedTheRails
PROPERTIES PaidVerdictIsKept VerdictIsBoughtOnce LoneReaderGetsItsVerdicts
