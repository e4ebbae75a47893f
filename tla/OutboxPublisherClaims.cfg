SPECIFICATION Spec
CONSTANTS
  Events = {1}
  Workers = {w1, w2}
  NoWorker = NoWorker
  BatchSize = 1
  MaxAttempts = 2
  MaxFaults = 1
PROPERTY FreshClaimKept
CHECK_DEADLOCK FALSE
