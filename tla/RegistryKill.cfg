\* A ring that is found again while the engine kills it.
SPECIFICATION Spec
CONSTANTS
  Threads = {t1, t2}
  Names = {n1}
  RingIds = {r1, r2}
  NoRing = NoRing
  SharedNames = {}
  ReusableNames = {n1}
  TimeSources = {c1}
  NoTs = NoTs
  MaxRecs = 1
  MaxAdds = 3
CHECK_DEADLOCK FALSE
PROPERTIES
  OnlyEmptyKilled
