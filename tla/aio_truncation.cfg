\* A file of 2^32 + 1 bytes.
SPECIFICATION Spec
CONSTANTS
  Req = {r1}
  Sizes = {5}
  OldLens <- NoOldFile
  IntMod = 4
  ReadBatch = 1
  WriteBatch = 1
  EventsMax = 1
  MaxEvents = 1
  Faults = {}
INVARIANT
  SanityCheck
