\* Every failure, one AIO context for two processes; a link that is left out; lengths
\* that do not fit.
SPECIFICATION FairSpec
CONSTANTS
  Req <- TreeReq
  Sizes = {2, 5, 9}
  OldLens <- NoOldFile
  IntMod = 8
  MaxProcs = 3
  MaxContexts = 1
  Faults = {"walk", "readdir", "heap", "fork", "open", "mmap", "submit", "io", "kill"}
  Node <- TreeNode
  Root = "top"
  Kind <- TreeKind
  DType <- TreeDType
  Entries <- TreeEntries
INVARIANTS
  DirectoryBeforeProcess
  NoneLeftRunning
  EveryNodeAccounted
  OldInv
PROPERTIES
  JobSteps
  Completion
