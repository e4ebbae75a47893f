SPECIFICATION FairSpec
CONSTANTS
  Consumers = {c1, c2}
  Events = {"order.created"}
  Invalid = Invalid
  MaxMessages = 2
  BatchSize = 1
  ClaimBatch = 2
  MaxDelivery = 2
  MaxFaults = 1
INVARIANTS TypeOK DeadLetterEarned
PROPERTIES ImplementsDelivery MessageSettles
CHECK_DEADLOCK FALSE
