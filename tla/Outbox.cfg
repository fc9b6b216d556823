SPECIFICATION FairSpec
CONSTANTS
  Messages <- MCMessages
  Broken = {2}
  Relays = {r1, r2}
  Limit = 2
  MaxAttempts = 2
  MaxStops = 1
INVARIANTS DeadLetterEarned
PROPERTIES EventuallySettled ImplementsDelivery
CHECK_DEADLOCK FALSE
