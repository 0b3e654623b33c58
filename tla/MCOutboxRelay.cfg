SPECIFICATION FairSpec
CONSTANTS
  NumEvents = 3
  Relay = {r1, r2}
  NoRelay = NoRelay
  MAX_RETRY = 2
  BATCH_SIZE = 2
  Slots = 1
  MaxLosses = 1
INVARIANTS
  DeliveriesAccounted
  GivenUpWhenExhausted
PROPERTIES
  ImplementsDelivery
  EventsSettle
CHECK_DEADLOCK FALSE
