\* Two events, two instances of the relay, two attempts.
CONSTANTS
  e1 = e1  e2 = e2  relay1 = relay1  relay2 = relay2
  Events = {e1, e2}
  Relays = {relay1, relay2}
  MaxAttempts = 2
SPECIFICATION FairSpec
INVARIANTS
  TypeOK
  NothingLost
PROPERTIES
  EventsSettle
CHECK_DEADLOCK FALSE
