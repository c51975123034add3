\* Two jobs, three tokens, one category, two requests, one crash or slow delivery, fair scheduling.
CONSTANTS
  Entry = {e1, e2}
  Delivery = {d1, d2, d3}
  Category = {other}
  Other = other
  MaxAttempts = 2
  MaxAnalyses = 2
  WriteTries = 3
  MaxSeq = 2
  Faults <- DeliveryFaults
  MaxFaults = 1
  None = none
SPECIFICATION FairSpec
INVARIANT PendingHasJob
PROPERTY EveryRequestAnswered
CHECK_DEADLOCK FALSE
