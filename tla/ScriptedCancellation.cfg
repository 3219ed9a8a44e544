CONSTANTS
    k1 = k1
    t1 = t1
    s1 = s1
    rv = rv
    Tasks = {t1}
    Threads = {s1}
    Requests <- MCRequests
    Scripts <- ErrorScripts
    Enqueued <- MCEnqueued
    ResolutionKeys = {q1}
    Verdicts <- MCVerdicts
    Capacity = 1
    Ttl = 1
    ApprovalLife = 2
    MaxTime = 2
    MaxCalls <- MCMaxCalls
    MaxMeddling = 0
    MaxSequence = 12
    Free = Free
    None = None
SPECIFICATION Spec
CHECK_DEADLOCK FALSE
PROPERTIES ScriptedErrorsSurface
