SPECIFICATION Spec
CONSTANTS
    Threads = {t1, t2}
    MaxTime = 2
    None = None
    Documents <- MCDocuments
    Resolutions <- MCResolutions
    CacheTtl = 2
    RotationDelay = 1
    Cooldown = 2
    FailureBackoff = 1
    Leeway = 0
    MaxFetchWorkers = 1
    MaxNegative = 1
    Worlds <- MCWorlds
    Audience = "verifier"
    Challenge = "asked"
    Actor = "agent"
    MaxCredentials = 2
    MaxDelegations = 3
    MaxEntries = 2
    Programs = {1, 2}
    MaxTimestamp = 1
    MaxRandomness = 1
    MaxWall = 2
INVARIANTS VerdictWithinHorizon SignedByWholeKey ErasedOnClose AcceptedAgainOnlyByStaleClock DelegationOnlyNarrows IdentifiersIncrease
PROPERTIES VerificationsReturn
CHECK_DEADLOCK FALSE
