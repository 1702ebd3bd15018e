\* Data: lengths up to and beyond the int range, destinations that exist, also longer
\* than the source; every failure.
SPECIFICATION Spec
CONSTANTS
  Req = {r1, r2}
  Sizes <- EverySize
  OldLens <- SomeOldFile
  IntMod = 4
  ReadBatch = 1
  WriteBatch = 2
  EventsMax = 1
  MaxEvents = 2
  Faults = {"client", "open", "mmap", "submit", "io"}
INVARIANTS TypeOK IndInv SlotsSuffice SuccessMeansCopied
PROPERTY
  FreedUntouched
