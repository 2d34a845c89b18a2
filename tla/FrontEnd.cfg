SPECIFICATION Spec
CONSTANTS
  Threads = {t1, t2}
  AreaNames = {"app"}
  SectionLists <- MCSectionLists
  Masks <- MCMasks
  Rings = {"shared", "reuse"}
  SharedRings = {"shared"}
  ReusableRings = {"reuse"}
  MaxDepth = 2
  MaxCalls = 5
  Null = Null
SYMMETRY ThreadSymmetry
INVARIANTS MaskInForce RingInService RefsOwned NoRecordLost
CHECK_DEADLOCK FALSE
