\* Three accounts, two requests at a time; an administrator, an agency and the reporter for the report.
CONSTANTS
  ada = ada
  rita = rita
  User = {ada, ben, rita}
  Reporter = rita
  Proved = {ada, ben}
  InitialRole <- AllCitizens
  Instances = {"accounts", "appointing"}
  Request = {r1, r2}
  Kinds = {"bootstrap", "account", "leave", "assign", "staff", "reporter", "delete"}
  Priority = {low, high}
  Default = low
  MAX_EDITS = 1
  MaxVersion = 3
  None = none
SPECIFICATION MCSpec
SYMMETRY Interchangeable
INVARIANTS
  ReportKept
PROPERTIES
  ImplementsRoster
  RolesKept
  UpdatesLawful
  HistoryTrue
