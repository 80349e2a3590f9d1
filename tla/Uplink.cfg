SPECIFICATION Spec
CONSTANTS
  Records = {r1, r2}
  Capacity = 3
  BaseDelay = 1
  MaxDelay = 5
  Rate = 1
  DefaultRate = 1
  ClockMod = 6
  MaxAttempts = 3
  MaxTime = 8
INVARIANTS
  TypeOK
  BackoffExact
  NoPublishOnOldReport
PROPERTIES
  QueueIsFifo
  PublishSpacing
