\* Two rings of two records, a buffer of three, which may run full, and one of
\* eight, which keeps a record back at the end of a pass.
SPECIFICATION FairSpec
CONSTANTS
  NumRings = 2
  Slots = 2
  TsoCaps = {3, 8}
  Times = {1, 2}
  MaxSeq = 4
INVARIANTS
  TypeOK
  TsoRoom
  GapsReported
  SortedUnlessMarked
PROPERTIES
  RefinesFifo
  AllFlushed
