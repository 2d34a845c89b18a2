\* Two threads register, reuse, look up and release rings of two names, one
\* of them shared, and the engine is destroyed, with and without TSO.
SPECIFICATION FairSpec
CONSTANTS
  Threads = {t1, t2}
  Names = {n1, n2}
  RingIds = {r1, r2}
  NoRing = NoRing
  SharedNames = {n1}
  ReusableNames = {n2}
  TimeSources = {c1}
  NoTs = NoTs
  MaxRecs = 1
  MaxAdds = 3
CHECK_DEADLOCK FALSE
INVARIANTS
  TypeOK
  RefsCounted
  IndexedOrDirty
  StoppedEmpty
PROPERTIES
  ShutdownCompletes
