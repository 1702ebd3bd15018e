\* A pipe of unknown d_type is left out without a word.
SPECIFICATION CprSpec
CONSTANTS
  Req <- TreeReq
  Sizes = {1}
  OldLens <- NoOldFile
  IntMod = 4
  ReadBatch = 2
  WriteBatch = 2
  EventsMax = 2
  MaxEvents = 3
  Faults = {"client"}
  Node <- TreeNode
  Root = "top"
  Kind <- TreeKind
  DType <- NoDType
  Entries <- TreeEntries
  WalkFaults = FALSE
INVARIANT NothingLeftOut
