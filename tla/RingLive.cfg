\* A blocking shared ring under an engine that does not reorder records: what
\* waits for the engine does not wait for ever.
SPECIFICATION FairSpec
CONSTANTS
  Capacity = 2
  Writers = {w1, w2}
  NoWriter = NoWriter
  Shared = TRUE
  Blocking = TRUE
  Tso = FALSE
  MaxSeq = 4
PROPERTIES
  PushCompletes
  FlushReturns
