\* A tree of two levels with a link and a pipe, every failure.
SPECIFICATION CprSpec
CONSTANTS
  Req <- TreeReq
  Sizes = {1}
  OldLens <- NoOldFile
  IntMod = 4
  ReadBatch = 2
  WriteBatch = 2
  EventsMax = 2
  MaxEvents = 3
  Faults = {"client", "open", "mmap", "submit", "io"}
  Node <- TreeNode
  Root = "top"
  Kind <- TreeKind
  DType <- TreeDType
  Entries <- TreeEntries
  WalkFaults = TRUE
INVARIANTS
  CprTypeOK
  DirectoryBeforeFile
  FlushAfterWalk
  TreeCopied
PROPERTY
  ManagerSpec
