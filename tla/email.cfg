\* Three addresses and two deliveries, two changes and links, one failure; each instance has its own requests.
SPECIFICATION MCSpec
CONSTANTS
  First = ann
  Second = bea
  Address = {ann, bea, cat}
  Delivery = {d1, d2}
  Requests = {"change", "confirm", "password", "reset", "verify", "suspend", "retire", "signup", "retry"}
  Faults = {"crash", "slow", "provider", "error"}
  MaxChanges = 2
  MaxLinks = 2
  MaxJobs = 4
  MaxRuns = 1
  MaxAttempts = 1
  MaxFaults = 1
  None = none
SYMMETRY OtherAddresses
CHECK_DEADLOCK FALSE
INVARIANTS
  LinksFit
PROPERTIES
  NoticeFirst
  ImplementsPromise
