SPECIFICATION PipelineSpec
CONSTANTS
  Events = {1}
  Workers = {w1, w2}
  NoWorker = NoWorker
  BatchSize = 1
  MaxAttempts = 2
  MaxFaults = 1
  Consumers = {c1}
  Invalid = Invalid
  ReadBatch = 1
  ClaimBatch = 1
  MaxDelivery = 2
  MaxMessages = 4
PROPERTIES ImplementsDelivery EventDelivered
CHECK_DEADLOCK FALSE
