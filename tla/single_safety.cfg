\* Every failure.
SPECIFICATION FairSpec
CONSTANTS
  Basic = Basic
  Aio = Aio
  Req = {Basic, Aio}
  Sizes = {0, 2, 5, 9}
  OldLens <- SomeOldFile
  IntMod = 8
  MaxContexts = 1
  Faults = {"rm", "build", "open", "mmap", "submit", "io", "kill"}
INVARIANTS
  TypeOK
  BothCopied
  SingleInv
PROPERTY Completion
