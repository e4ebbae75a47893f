SPECIFICATION FairSpec
CONSTANTS
  Events = {1, 2}
  Workers = {w1, w2}
  NoWorker = NoWorker
  BatchSize = 2
  MaxAttempts = 2
  MaxFaults = 2
INVARIANTS PublishedInStream DeadLetterEarned
PROPERTY EventSettles
CHECK_DEADLOCK FALSE
