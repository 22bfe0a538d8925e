SPECIFICATION Spec
CONSTANTS
    CallBudget = 3
    RecvTimeout = 2
    MaxLines = 3
INVARIANT BrokenGenerationIsMarked
CHECK_DEADLOCK FALSE
