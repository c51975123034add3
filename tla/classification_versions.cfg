\* A worker of another version may take a job of the report.
CONSTANTS
  Entry = {e1, e2}
  Delivery = {d1, d2}
  Category = {other}
  Other = other
  MaxAttempts = 2
  MaxAnalyses = 2
  WriteTries = 3
  MaxSeq = 2
  Faults = {"version"}
  MaxFaults = 1
  None = none
SPECIFICATION Spec
INVARIANT PendingHasJob
CHECK_DEADLOCK FALSE
