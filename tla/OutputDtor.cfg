\* One name is enough for a destructor that comes before the helper.
SPECIFICATION FairSpec
CONSTANTS
  Names = {a}
  MaxCount = 2
  MaxSize = 1
  NoFile = NoFile
PROPERTIES
  DtorReturns
