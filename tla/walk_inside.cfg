\* A destination in several places in the source and outside of it.
SPECIFICATION FairSpec
CONSTANTS
  Source <- TreeSource
  OldDirs <- TreeDirs
  OldRegs <- TreeRegs
  Dests <- TreeDests
  MaxPath = 6
INVARIANTS
  CopiesWhatWasThere
  NeverCopiesItself
  TreeInv
PROPERTY Completion
