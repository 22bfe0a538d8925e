SPECIFICATION ServicesSpec
CONSTANTS
    CallBudget = 3
    RecvTimeout = 2
    MaxLines = 3
    c1 = c1
    c2 = c2
    c3 = c3
    r1 = r1
INVARIANTS AnswerIsAsItCame FetchIsSharedWhileItRuns
PROPERTIES EveryCallerReturns ProbeReportIsTheProvidersWord
CHECK_DEADLOCK FALSE
