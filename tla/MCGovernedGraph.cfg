CONSTANTS
    SyncWorkers = {w1}
    AsyncWorkers = {w2}
    Scopes = {s1, s2}
    Resolutions = {1, 2}
    DecisionLife = 1
    ApprovalLife = 2
    MaxTime = 3
    MaxEvents = 1
    MaxEdits = 2
    None = None
    Calls = {1, 2, 3}
    CallLimit <- MCCallLimit
    NoFrame = NoFrame
    Constructions <- MCConstructions
    Requests <- MCRequests
    Callbacks = {"f1"}
    Horizon = 1
    MaxMonotonic = 1
SPECIFICATION SceneSpec
CHECK_DEADLOCK FALSE
INVARIANTS HandlerRunsAtMostOnce RanAsAuthorized LedgerTellsTheTruth AuthorizedWithinCaller
