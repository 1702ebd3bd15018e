\* The same tree, no d_type known, without failures of the environment.
SPECIFICATION CprFairSpec
CONSTANTS
  Req <- TreeReq
  Sizes = {1}
  OldLens <- NoOldFile
  IntMod = 4
  ReadBatch = 2
  WriteBatch = 2
  EventsMax = 2
  MaxEvents = 3
  Faults = {"client"}
  Node <- TreeNode
  Root = "top"
  Kind <- TreeKind
  DType <- NoDType
  Entries <- TreeEntries
  WalkFaults = FALSE
PROPERTY CprCompletion
