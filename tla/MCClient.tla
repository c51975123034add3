------------------------------- MODULE MCClient -------------------------------
(* Small instances of ReportUpload and of the modules of the reference client, *)
(* for TLC, in one run: one page of one browser is open, or one report is sent;*)
(* the rest stays in its initial state.                                        *)
EXTENDS ReportUpload, TLC

CONSTANTS
  Email, Ai, MaxJobLoads, MaxJobChanges,                                     \* of JobsPage
  Everyone, UserText, Role, MaxUserLoads, MaxAccount, UserPages,             \* of UsersPage
  Unset, Filter, ListText, ListPages, MaxMoves,                              \* of ReportsList
  IntervalMs, LimitMs, MaxRequests, MaxPolled,                               \* of Polling
  OwnerText, StaffText, Staff, Nobody, MaxOwned, MaxVersion, MaxFlight,      \* of ReportPage
  Text, Size, MaxPhotos, MaxPhotoSize, MaxTotal, MaxTyped, MaxLookups, MaxSearches  \* of ReportForm

VARIABLES
  instance,
  failedJobs, queue, jobList, dismissing, act, requestId, jobFlight, jobTimer, own,
  account, filters, userList, userTimer, dialog, action, saving, userFlight, userAsked,
  history, box, searchTimer, listFlight, listAsked, reports, order, chosen,
  pendingThere, pending, visible, effect, stalled, pollFlight,
  report, current, pageFlight, editor, draft, target, flags, stale,
  location, shown, lookupTimer, lookups, search, typed, searches, discarded, photos, createStatus

upload == vars
jobs == <<failedJobs, queue, jobList, dismissing, act, requestId, jobFlight, jobTimer, own>>
users == <<account, filters, userList, userTimer, dialog, action, saving, userFlight, userAsked>>
listed == <<history, box, searchTimer, listFlight, listAsked, reports, order, chosen>>
polling == <<pendingThere, pending, visible, effect, stalled, pollFlight>>
page == <<report, current, pageFlight, editor, draft, target, flags, stale>>
form == <<location, shown, lookupTimer, lookups, search, typed, searches, discarded, photos, createStatus>>
all == <<instance, upload, jobs, users, listed, polling, page, form>>

-----------------------------------------------------------------------------
Jobs == INSTANCE JobsPage WITH
  server <- failedJobs, list <- jobList, flight <- jobFlight, timer <- jobTimer,
  MaxLoads <- MaxJobLoads, MaxChanges <- MaxJobChanges

Users == INSTANCE UsersPage WITH
  list <- userList, timer <- userTimer, flight <- userFlight, asked <- userAsked,
  Text <- UserText, MaxLoads <- MaxUserLoads, MaxVersion <- MaxAccount, Pages <- UserPages

Listed == INSTANCE ReportsList WITH
  timer <- searchTimer, flight <- listFlight, asked <- listAsked, list <- reports,
  Text <- ListText, Pages <- ListPages

Poll == INSTANCE Polling WITH server <- pendingThere, flight <- pollFlight, MaxChanges <- MaxPolled

\* The page of a report, as its owner and as the staff see it.
Owner == INSTANCE ReportPage WITH
  flight <- pageFlight, Viewer <- "owner", Text <- OwnerText, MaxVersion <- MaxOwned
StaffPage == INSTANCE ReportPage WITH
  flight <- pageFlight, Viewer <- "staff", Text <- StaffText

Form == INSTANCE ReportForm WITH timer <- lookupTimer

ASSUME JobsAssumption == Jobs!JobsAssumption /\ Jobs!BoundAssumption
ASSUME UsersAssumption == Users!FilterAssumption /\ Users!BoundAssumption
ASSUME ListAssumption == Listed!FilterAssumption /\ Listed!BoundAssumption
ASSUME PollingAssumption == Poll!TimeAssumption /\ Poll!BoundAssumption
ASSUME PageAssumption == Owner!ViewerAssumption /\ Owner!BoundAssumption /\ StaffPage!BoundAssumption
ASSUME FormAssumption == Form!NamesAssumption /\ Form!SizesAssumption

-----------------------------------------------------------------------------
MCInit ==
  /\ instance \in {"upload", "jobs", "users", "listed", "polling", "owner", "staff", "form"}
  /\ Init /\ Jobs!Init /\ Users!Init /\ Listed!Init /\ Poll!Init /\ Form!Init
  /\ IF instance = "owner" THEN Owner!Init ELSE StaffPage!Init
  /\ instance # "jobs" => failedJobs.failed = {}

\* Module m moves, and no other.
Only(m) ==
  /\ instance = m /\ UNCHANGED instance
  /\ m # "upload" => UNCHANGED upload
  /\ m # "jobs" => UNCHANGED jobs
  /\ m # "users" => UNCHANGED users
  /\ m # "listed" => UNCHANGED listed
  /\ m # "polling" => UNCHANGED polling
  /\ m \notin {"owner", "staff"} => UNCHANGED page
  /\ m # "form" => UNCHANGED form

MCNext ==
  \/ Only("upload") /\ Next
  \/ Only("jobs") /\ Jobs!Next
  \/ Only("users") /\ Users!Next
  \/ Only("listed") /\ Listed!Next
  \/ Only("polling") /\ Poll!Next
  \/ Only("owner") /\ Owner!Next
  \/ Only("staff") /\ StaffPage!Next
  \/ Only("form") /\ Form!Next

\* The fairness of each module, asked of the one that moves: the request that matters is served and
\* answered, what is under way goes on, and then the browser does.
Answered(n) ==
  \/ Only("jobs") /\ n \in DOMAIN jobFlight /\ (Jobs!Serve(n) \/ Jobs!Answered(n))
  \/ Only("users") /\ n \in DOMAIN userFlight /\ (Users!Serve(n) \/ Users!Answered(n))
  \/ Only("owner") /\ n \in DOMAIN pageFlight /\ (Owner!Serve(n) \/ Owner!Answered(n))
  \/ Only("staff") /\ n \in DOMAIN pageFlight /\ (StaffPage!Serve(n) \/ StaffPage!Answered(n))
GoesOn ==
  \/ Only("upload") /\ Progress
  \/ Only("jobs") /\ (Jobs!ServeAct \/ Jobs!ActRefused)
  \/ Only("users") /\ (Users!ServeAction \/ Users!ActionRefused)
  \/ Only("listed") /\ Listed!Answers
  \/ Only("polling") /\ (Poll!Tick \/ Poll!TimerFires \/ Poll!DeadlineFires)
  \/ Only("form") /\ (Form!Positioned \/ Form!NotPositioned)
Afterwards ==
  \/ Only("upload") /\ (SendAll \/ ClientAborts)
  \/ Only("jobs") /\ Jobs!ActDone
  \/ Only("users") /\ Users!ActionDone
  \/ Only("form") /\ \E found \in BOOLEAN : Form!Located(found)

MCSpec ==
  /\ MCInit /\ [][MCNext]_all
  /\ \A n \in 1..MaxJobLoads \cup 1..MaxUserLoads \cup 1..MaxFlight : WF_all(Answered(n))
  /\ WF_all(GoesOn) /\ WF_all(Afterwards)

-----------------------------------------------------------------------------
(* The properties of the modules; those of ReportUpload are its own.           *)

\* The jobs listed are those of the selected queue (JobsPage.jsx:62, 73, 106).
JobsOfQueue == Jobs!JobsOfQueue

\* The list never goes back to before an own action it has shown (JobsPage.jsx:62, 91-92).
SeesOwnAction == Jobs!SeesOwnAction

\* With no search waiting, the newest load has the filters on screen (UsersPage.jsx:77, 131).
LastLoadHasFilters == Users!LastLoadHasFilters

\* An account action is not sent before the last one has answered (UsersPage.jsx:42).
OneActionAtATime == Users!OneActionAtATime

\* The accounts are hidden as loading only while a load is under way or due (UsersPage.jsx:162).
LoadingIsLoading == Users!LoadingIsLoading

\* What is listed is what the address names (ReportsListPage.jsx:61-73).
ListFollowsAddress == instance = "listed" => Listed!ListFollowsAddress

\* A later page is only of the filters it was turned to in (ReportsListPage.jsx:75-80).
PageBelongsToFilters == [][Listed!TurnsWithinFilters]_listed

\* A polling effect awaits one refresh at most (useClassificationPolling.js:28-39).
OneRefreshPerRound == Poll!OneRefreshPerRound

\* After the time limit nothing is asked any more (useClassificationPolling.js:20-25, 33).
StalledIsQuiet == Poll!StalledIsQuiet

\* The Refresh button belongs to the classification shown (useClassificationPolling.js:8-11).
StallOfThisRound == Poll!StallOfThisRound

\* A staff update is accepted only with the version it replaces on screen (StaffActionsPanel.jsx:28-35).
NotDecidedBlind == StaffPage!NotDecidedBlind

\* A choice made during an assignment is there after it (ResponsibilityPanel.jsx:37-38).
ChoiceKept == StaffPage!ChoiceKept

\* A description its owner did not touch stays as it was shown (OwnerActionsPanel.jsx:26-31).
UntouchedTextKept == Owner!UntouchedTextKept

\* The coordinates of a suggestion go with its address (LocationField.jsx, handleTyping).
PairDescribesAddress == Form!PairDescribesAddress

\* Several selections of photos stay within the limits together (ReportIssuePage.jsx, handleImageChange).
PhotosWithinLimits == Form!PhotosWithinLimits

\* Every request that files a report is answered, unless its client left (multipartUpload.js:65-73).
RequestPassed == (instance = "upload") ~> (parser.next = 1 \/ parser.disconnected)

\* Files on disk go and the request is answered, however it ends (multipartUpload.js:60-73).
UploadEnds == FilesGo /\ RequestPassed

\* While answers come late and in any order, the lists of jobs, accounts and reports stay those of the
\* queue, filters and address on screen, and one action is under way at a time (JobsPage.jsx:62-106,
\* UsersPage.jsx:42-162, ReportsListPage.jsx:61-80).
ListsFit ==
  /\ [](JobsOfQueue /\ SeesOwnAction /\ LastLoadHasFilters /\ OneActionAtATime /\ LoadingIsLoading)
  /\ []ListFollowsAddress /\ PageBelongsToFilters

\* Polling asks as often and as long as it should, and says so of the classification shown
\* (useClassificationPolling.js:8-39).
PollingFits == OneRefreshPerRound /\ StalledIsQuiet /\ StallOfThisRound

\* Forms on the report page and the page that files a report keep what was typed, chosen and seen
\* together, while reloads and answers come late (StaffActionsPanel.jsx:28-35, ResponsibilityPanel.jsx:37,
\* OwnerActionsPanel.jsx:26, LocationField.jsx, ReportIssuePage.jsx).
FormsFit ==
  PollingFits /\ NotDecidedBlind /\ ChoiceKept /\ UntouchedTextKept /\ PairDescribesAddress /\ PhotosWithinLimits

\* No button, placeholder or notice of a page waits for ever: the ActionEnds, LoadingEnds, PendingEnds,
\* ConflictReloads and SearchEnds of the pages at once, since one page is open (JobsPage.jsx:86-98, UsersPage.jsx:134-136,
\* ReportsListPage.jsx:201, useClassificationPolling.js:20-24, StaffActionsPanel.jsx:44-46, LocationField.jsx).
Waits ==
  \/ Jobs!Acting \/ Users!Acting \/ stale > 0 \/ search # "idle"
  \/ instance = "listed" /\ reports.status = "loading"
  \/ instance = "polling" /\ pending /\ ~stalled
NothingWaits == Waits ~> ~Waits
==============================================================================
