\* An administrator, an agency, the reporter; two requests at a time.
CONSTANTS
  ada = ada
  rita = rita
  User = {ada, ben, rita}
  Reporter = rita
  Proved = {ada, ben, rita}
  InitialRole <- Staffed
  Instances = {"all"}
  Request = {r1, r2}
  Kinds = {"bootstrap", "account", "leave", "assign", "staff", "reporter", "delete"}
  Priority = {low}
  Default = low
  MAX_EDITS = 0
  MaxVersion = 4
  None = none
SPECIFICATION MCSpec
SYMMETRY Interchangeable
PROPERTY AgencyLeavesNoOpenWork
