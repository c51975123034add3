\* Three accounts, two addresses and identities, two requests at a time; three categories, two administrators and two
\* processes; two calls of /health/ready; two sweeps of two reports, of which one a day is asked again, two hours to a day.
SPECIFICATION MCSpec
CONSTANTS
  Account = {u1, u2, u3}
  Address = {ann, bea}
  Subject = {g1, g2}
  Request = {r1, r2}
  ann = ann
  g1 = g1
  Kinds = {"signup", "login", "google", "password", "reset", "logout", "suspend", "retire", "move"}
  MaxSessions = 4
  MaxStates = 2
  MaxPasswords = 2
  CategoryId = {c1, c2, c3}
  Admin = {a1, a2}
  Server = {s1, s2}
  Report = {p1}
  Staff = {t1}
  Timeout = 1
  CacheMs = 1
  Failing = {1, 2}
  Day = 2
  Limit = 1
  MaxRequests = 3
  MaxErrors = 1
  None = none
SYMMETRY Interchangeable
CHECK_DEADLOCK FALSE
INVARIANTS
  IdentitiesKept
  GoogleSessionsEnd
  SpentIsSpent
  ReadinessTrue
PROPERTIES
  CategoriesKept
  SweepsOnce
