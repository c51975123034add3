SPECIFICATION MCSpec
CONSTANTS
  \* Three photos and two tries at a code for the upload.
  Photo = {p1, p2, p3}
  MaxAttempts = 2
  \* Two email jobs and one AI job, one change by others; three loads.
  Email = {1, 2}
  Ai = {3}
  MaxJobLoads = 3
  MaxJobChanges = 1
  \* One text and one role to filter by, two pages, two loads.
  Everyone = "all"
  UserText = {"all", "text"}
  Role = {"all", "role"}
  MaxUserLoads = 2
  MaxAccount = 1
  UserPages = 2
  \* One filter and one text, two pages, two changes of the address.
  Unset = "unset"
  Filter = {"unset", "pending"}
  ListText = {"unset", "road"}
  ListPages = 2
  MaxMoves = 2
  \* Two refreshes fit into the limit; three changes of the classification, two requests together.
  IntervalMs = 1
  LimitMs = 3
  MaxRequests = 2
  MaxPolled = 3
  \* Two requests at once; for the owner two descriptions and one change, for the staff two changes.
  OwnerText = {"before", "after"}
  StaffText = {"before"}
  Staff = {"one"}
  Nobody = "nobody"
  MaxOwned = 1
  MaxVersion = 2
  MaxFlight = 2
  \* Two texts, one of which may be typed over the other; photos of three sizes.
  Text = {"market", "marker"}
  Size = {5, 9, 12}
  MaxPhotos = 3
  MaxPhotoSize = 10
  MaxTotal = 20
  MaxTyped = 2
  MaxLookups = 2
  MaxSearches = 1
CHECK_DEADLOCK FALSE
INVARIANTS
  UploadOrderly
  PhotosBelong
  FormsFit
PROPERTIES
  ListsFit
  UploadEnds
  NothingWaits
