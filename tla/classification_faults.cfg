\* Two jobs, two tokens, two categories, two requests, any one failure.
CONSTANTS
  Entry = {e1, e2}
  Delivery = {d1, d2}
  Category = {other, roads}
  Other = other
  MaxAttempts = 2
  MaxAnalyses = 2
  WriteTries = 3
  MaxSeq = 2
  Faults <- AllFaults
  MaxFaults = 1
  None = none
SPECIFICATION Spec
CHECK_DEADLOCK FALSE
INVARIANTS
  AnswersFit
  WriteTriesSuffice
PROPERTIES
  DecisionsKept
