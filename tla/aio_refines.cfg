\* The manager implements CopyJob, also when the environment fails; atoi has made
\* the batch sizes negative.
SPECIFICATION FairSpec
CONSTANTS
  Req = {r1, r2, r3}
  Sizes = {0, 1, 3}
  OldLens <- NoOldFile
  IntMod = 4
  ReadBatch <- NegativeBatch
  WriteBatch <- NegativeBatch
  EventsMax = 2
  MaxEvents = 2
  Faults = {"client", "open", "mmap", "submit", "io"}
PROPERTY
  JobSpec
