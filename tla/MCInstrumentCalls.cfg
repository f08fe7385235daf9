SPECIFICATION Spec
CONSTANTS
  Callers = {c1, c2}
  Nobody = Nobody
  MaxTimeouts = 1
  Plans <- DriverPlans
SYMMETRY Symmetry
INVARIANTS NobodyStranded LastCallWinsWhole SelectionHolds LabelledReads CacheAgrees
PROPERTY SnapshotReads
CHECK_DEADLOCK FALSE
