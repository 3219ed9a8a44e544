SPECIFICATION Spec
CONSTANTS
  r1 = r1
  r2 = r2
  h1 = h1
  h2 = h2
  b1 = b1
  Ids = {r1, r2}
  Batches = {1}
  Bindings = {b1}
  Handles = {h1, h2}
  MaxRecords = 2
  MaxAttempts = 2
  MaxTotalAttempts = 3
  MaxDelay = 2
  Delay <- MCDelay
  Jitters = {0}
  RetryAfters = {0}
  MaxTime = 2
  MaxStops = 1
  Width = 8
CHECK_DEADLOCK FALSE
PROPERTIES
  SettlesOwnAttempt
