\* A ring that is added while the timesource changes.
SPECIFICATION Spec
CONSTANTS
  Threads = {t1, t2}
  Names = {n1, n2}
  RingIds = {r1, r2}
  NoRing = NoRing
  SharedNames = {}
  ReusableNames = {n1, n2}
  TimeSources = {c1, c2}
  NoTs = NoTs
  MaxRecs = 1
  MaxAdds = 2
CHECK_DEADLOCK FALSE
INVARIANTS
  TimesourceAgrees
