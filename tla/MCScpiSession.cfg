\* Every mode of job, two queries for lines with deadlines and a block query
\* without.  A session that is closed may stop.
SPECIFICATION FairSpec
CONSTANTS
  WriteJobs = {w1}
  LineJobs = {l1, l2}
  BinaryJobs = {b1}
  Timed = {l1, l2}
  NoJob = NoJob
INVARIANTS
  NoPromiseForgotten
  RepliesMatchInSync
PROPERTIES
  ImplementsSerialPort
  EveryRequestSettles
CHECK_DEADLOCK FALSE
