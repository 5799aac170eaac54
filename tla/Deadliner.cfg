SPECIFICATION FairSpec
CONSTANTS
  Thread = {n1, n2, n3}
  MaxDelay = 3
INVARIANTS
  TypeOK
  OneWaiter
PROPERTIES
  NotEarly
  Expiring
  ImplementsTimer
