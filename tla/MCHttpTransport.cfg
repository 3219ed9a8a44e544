SPECIFICATION Spec
CONSTANTS
    Callers = {c1}
    Responses <- MCResponses
    MaxAttempts = 3
    MaxElapsed = 4
    InitialDelay = 1
    MaxDelay = 2
    MaxRetryAfter = 2
    Deadlines = {3, 99}
    MaxTime = 5
    MaxStart = 1
    None = None
INVARIANTS KeepsToItsTime NothingLeftBehind
PROPERTIES CallsReturn
CHECK_DEADLOCK FALSE
