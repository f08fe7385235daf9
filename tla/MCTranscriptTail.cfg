\* One panel and another browser on a session that is connected twice; a ring that
\* overflows.
SPECIFICATION FairSpec
CONSTANTS
  Panels = {p}
  Others = {o}
  RingMax = 2
  MaxEntries = 3
  MaxAttempts = 2
  MaxTails = 2
INVARIANTS
  BatchesInOrder
  NothingLostToTail
PROPERTIES
  PendingIsFlushed
\* Everything recorded, delivered and the session removed is a legitimate end.
CHECK_DEADLOCK FALSE
