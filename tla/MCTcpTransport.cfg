\* One connection, two writes.  A transport that has closed stays so.
SPECIFICATION FairSpec
CONSTANTS
  Writes = {w1, w2}
INVARIANTS
  LossToldOnce
PROPERTIES
  ConnectSettles
  CloseReleasesSocket
CHECK_DEADLOCK FALSE
