SPECIFICATION Spec
CONSTANTS
  r1 = r1
  r2 = r2
  h1 = h1
  h2 = h2
  b1 = b1
  b2 = b2
  Ids = {r1, r2}
  Batches = {1, 2}
  Bindings = {b1, b2}
  Handles = {h1, h2}
  MaxRecords = 2
  MaxAttempts = 2
  MaxTotalAttempts = 3
  MaxDelay = 2
  Delay <- MCDelay
  Jitters = {0, 1}
  RetryAfters = {0, 4}
  MaxTime = 2
  MaxStops = 1
  Width = 8
SYMMETRY Symmetry
CONSTRAINT SecondHandleOrBatch
CHECK_DEADLOCK FALSE
INVARIANTS
  TypeOK
  RecordsValid
  QueueUsable
  InOrderDelivery
  AcknowledgedIsDelivered
  AttemptsAreOwnedOnce
  MatchesReference
PROPERTIES
  SendsWhatReferenceSelects
  ImplementsProtocol
