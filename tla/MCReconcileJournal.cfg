SPECIFICATION Spec
CONSTANTS
  r1 = r1
  r2 = r2
  r3 = r3
  Ids = {r1, r2, r3}
  Batches = {1, 2}
  MaxAttempts = 2
  CheckpointCapacity = 1
  MaxQuarantined = 1
  MaxInterrupts = 2
INVARIANTS
  AtMostOneJournal
  SelfConsistent
  TombstonesVerify
PROPERTIES
  ImplementsBatchLog
  JournalsResolved
