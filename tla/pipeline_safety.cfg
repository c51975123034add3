\* One entry, up to two relays, two slots, and one slot without the handler; up to two failures.
SPECIFICATION MCSpec
CONSTANTS
  NoSlot = NoSlot
  NoJob = NoJob
  Entry = {e1}
  Relay = {r1, r2}
  Slot = {s1, s2, s3}
  OldSlot = {s3}
  MaxAttempts = 2
  MaxRunKey = 1
  MaxFaults = 2
SYMMETRY RelaysAndSlots
CHECK_DEADLOCK FALSE
INVARIANTS
  FencedWritesFindOpenEntry
  RetriesKept
  PlainRunsOnce
PROPERTIES
  ImplementsLifecycle
