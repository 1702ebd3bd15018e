\* Interleavings: four files of one length, batches of two, a context with
\* three slots, every failure of the environment.
SPECIFICATION Spec
CONSTANTS
  Req = {r1, r2, r3, r4}
  Sizes = {1}
  OldLens <- NoOldFile
  IntMod = 4
  ReadBatch = 2
  WriteBatch = 2
  EventsMax = 2
  MaxEvents = 3
  Faults = {"client", "open", "mmap", "submit", "io"}
SYMMETRY Symmetry
INVARIANTS
  ListLengths
  OnePlace
  DispatchByState
  FlushAfterLastAdd
  WriteAfterFullRead
  DescriptorsFollowIO
  CleanJoin
