\* Up to sixteen arguments in slots of 256 bytes (the default options), of 128K and of 16M.
SPECIFICATION Spec
CONSTANTS
  Layouts <- MCLayouts
  MaxVma = 6
  Addresses = {2, 3, 4, 5, 6, 7, 8}
  ObjectSize = 2
  ArgLists <- MCArgLists
  Timestamps <- MCTimestamps
  NameLens = {128, 129}
  Tailrooms = {128, 131040, 16777184}
  FieldLists <- MCFieldLists
INVARIANTS
  ArgsInside
  OwnBytes
  TscacheFresh
  CookedSame
  RecoveredSame
