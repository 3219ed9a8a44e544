SPECIFICATION Spec
CONSTANTS
    a1 = a1
    a2 = a2
    a3 = a3
    Actors = {a1, a2, a3}
    None = None
    Setups <- MCSetups
INVARIANTS ClosedTransportsAreQuiet ExecutedAtMostOnce
PROPERTIES EveryCallComesBack
CHECK_DEADLOCK FALSE
