\* An operation may fail in the kernel.
SPECIFICATION Spec
CONSTANTS
  Req <- TreeReq
  Sizes = {2}
  OldLens <- NoOldFile
  IntMod = 8
  MaxProcs = 3
  MaxContexts = 3
  Faults = {"io"}
  Node <- TreeNode
  Root = "top"
  Kind <- TreeKind
  DType <- TreeDType
  Entries <- TreeEntries
INVARIANT FailedReadReported
