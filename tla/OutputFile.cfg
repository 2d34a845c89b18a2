\* Two names with two files each; a file may be rotated after one write.
SPECIFICATION FairSpec
CONSTANTS
  Names = {a, b}
  MaxCount = 2
  MaxSize = 2
  NoFile = NoFile
INVARIANTS
  TypeOK
  FilesReadable
PROPERTIES
  InUseKept
  RotateServed
  DtorReturnsOnceStarted
