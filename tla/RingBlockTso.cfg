\* A blocking ring of one thread under the TSO engine: a lost wakeup.
SPECIFICATION FairSpec
CONSTANTS
  Capacity = 2
  Writers = {w1}
  NoWriter = NoWriter
  Shared = FALSE
  Blocking = TRUE
  Tso = TRUE
  MaxSeq = 3
PROPERTIES
  PushCompletes
