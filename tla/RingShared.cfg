\* A shared non-blocking ring under the TSO engine: two writers race for the
\* last slots of a ring that wraps around.
SPECIFICATION Spec
CONSTANTS
  Capacity = 4
  Writers = {w1, w2}
  NoWriter = NoWriter
  Shared = TRUE
  Blocking = FALSE
  Tso = TRUE
  MaxSeq = 5
SYMMETRY WriterSymmetry
INVARIANTS
  TypeOK
  WindowComplete
  DeliveredInOrder
  Accounting
  AckMeansFlushed
  SpecialHasRoom
PROPERTIES
  WindowStable
  RefinesFifo
