\* One entry, two slots, two failures of the environment, under fair scheduling.
SPECIFICATION MCFairSpec
CONSTANTS
  NoSlot = NoSlot
  NoJob = NoJob
  Entry = {e1}
  Relay = {r1}
  Slot = {s1, s2}
  OldSlot = {}
  MaxAttempts = 2
  MaxRunKey = 0
  MaxFaults = 2
PROPERTIES
  EveryJobEnds
CHECK_DEADLOCK FALSE
