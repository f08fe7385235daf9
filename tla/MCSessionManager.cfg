\* Two sessions; the instrument of the second may stay silent.  Each session may
\* be reconnected once.  With every session closed nothing is left to do.
SPECIFICATION FairSpec
CONSTANTS
  Ids = {a, b}
  MaxSessions = 2
  MaxAttempts = 2
  Silent = {b}
INVARIANTS
  NoConnectionLeaked
  ConnectedIsWired
  SubscribersInformed
  PollerStops
PROPERTIES
  OpenSettles
CHECK_DEADLOCK FALSE
