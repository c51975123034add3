\* Two of everybody, and two addresses.  AiProvider: waits of one unit, and of three for a spent balance; a photo comes in
\* pieces of two, of which one fits.  EmailChange: one change, two attempts for each of its jobs, and two failures.
SPECIFICATION MCSpec
CONSTANTS
  Request = {r1, r2}
  Limit = 2
  Window = 3
  MaxLate = 1
  AiJob = {1, 2}
  Attempts = 2
  BackoffBase = 1
  BackoffCap = 2
  AiHour = 3
  MaxAfter = 1
  MaxBytes = 2
  Chunk = {2}
  PauseFails = TRUE
  First = ann
  Address = {ann, bea}
  NoAddress = none
  Requests = {"change"}
  Faults = {"slow", "provider"}
  MaxChanges = 1
  MaxLinks = 3
  MaxJobs = 2
  MaxRuns = 0
  MaxAttempts = 2
  MaxFaults = 2
CHECK_DEADLOCK FALSE
INVARIANTS
  GuessesLimited
  LimitsHold
PROPERTIES
  JobsWaitAndEnd
  EveryChangeSettles
  TriedAgain
