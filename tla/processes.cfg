\* The API with its own workers, and three requests and jobs; two members of staff, two categories, four changes by the
\* program and two runs of phase 2; two values of the key, which five documents hold, and two faults; two collections and
\* one that expires, three writes, two tries at a dump, one stop.
SPECIFICATION MCSpec
CONSTANTS
  Kind = "both"
  MaxWork = 3
  Staff = {one, two}
  Nobody = nobody
  Category = {roads, drains}
  Unset = unset
  MaxChanges = 4
  MaxRuns = 2
  Value = {v1, v2}
  MaxInserts = 5
  MaxFaults = 2
  Collection = {reports, users, tokens}
  Foreign = {other}
  SelfExpiring = {tokens}
  Attempts = 2
  MaxWrites = 3
  MaxStops = 1
CHECK_DEADLOCK FALSE
INVARIANTS
  StopCutsNothing
  HeartbeatGone
PROPERTIES
  ProcessEnds
  ScriptsSpare
  ScriptsFinish
