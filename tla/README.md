# CCIR-SYSTEM in TLA+

CCIR is a citizen-report service: an Express API over MongoDB, a relay that moves jobs saved in
MongoDB into BullMQ queues in Redis, workers that call an AI provider and an email provider, and a
reference client in React. Several API and worker processes may run at once, and any of them may stop
at any point; browsers send what they like in any order; operators run scripts beside all of it. This
directory specifies the parts where that matters, checks them with TLC on small instances, and proves
the most important results for every instance with TLAPS. Paths below are relative to the repository
root (`src/` in PROJECT.json).

## 1. Inventory

| Component | State it keeps | Operations | What is hard, and what makes it correct |
|---|---|---|---|
| **Job pipeline** (`services/jobs/outbox, relay, jobId, queues, workers, execute, adminJobsService`, `models/OutboxEntry`) | outbox entries in MongoDB; jobs, locks and stalled counters in Redis; the pass of each relay timer; the delivery of each worker slot | enqueue, relay pass, re-offer, deliver, claim, run, record, retry, dismiss, expire | relays and slots interleave; crashes, stalls, Redis flushes; takeover of a claim whose holder may be alive. Each attempt is counted once, a retry waits, no job is lost, an ended job stays ended. |
| **Report classification** (`aiJobs`, `classificationRequests`, `classificationPolicy`, `complaintRecategoriseService`) | the `ai` fields, category, priority and their sources of a report; its classify_report entries; the running handlers | create, material edit, reclassify, sweep, retry, claim report, load, decide, write, final failure | an answer arrives seconds after the report was read. It never overrides people, never describes another text, and every request is answered. |
| **Report workflow** (`complaintController`, `complaintEditService`, the transition, authority and edit policies, `complaintVersionGuard`, `complaintDeletionService`) | status, `__v`, history, edit count | status and priority changes, edit, withdraw, delete | optimistic writes of several people. No write from a stale view, history agrees with the state, WITHDRAWN is final. |
| **Assignment and account lifecycle** (`complaintAssignmentService`, `assignmentPolicy`, `accountRetirementService`, `accountLifecycleGuard`, `userController`) | users (role, isActive, retiredAt), the assignee of each report, the guard document | assign, change role, suspend, retire, bootstrap | transactions conflict only through the guard document. There is always an active administrator; work is given to accounts that may do it. |
| **Email change, links and email jobs** (`emailChangeService`, `emailChangeState`, `accountTokenService`, `emailJobs`, verification and reset services) | EmailChange, AccountToken, the address, email entries | request, notice, link, confirm, cancel, fail, retry, verify, reset | at-least-once sends, takeovers, crashes between send and record. One open change, notice before link, a link fits its account. |
| **Sessions and sign-in** (`middleware/auth`, `authController`, `sessionService`, Google sign-in) | accounts, RefreshToken, OAuthState | sign up, sign in, Google, change and reset of the password, sign out, suspend, retire | a check and the use of its result are apart. Identities stay unique, sessions end with what they rest on. |
| **Throttles** (`authThrottleService`, `accountThrottle`, `currentPasswordService`, `apiRateLimit`) | count and resetAt per key | consume, peek, clear | a fixed window under concurrent attempts and late clocks. |
| **Categories** (`categoryController`, `seedCategories`, `categoryName`) | rows with name, key, slug and isActive; the unique indexes | create, rename, switch off, delete, seed | against each other and against reports being filed and moved. |
| **Daily sweep** (`aiSweep`) | SchedulerLease | claim the day, ask again | several instances, a sweep that fails half-way. |
| **Readiness, heartbeat, process lifecycle** (`readinessService`, `heartbeat`, `background`, `worker`, `server`) | the shared probes, heartbeats, the parts of a process that are up | probe, beat, start, stop | shared and cached answers; signals during the start; what hangs during the stop. |
| **Report images** (`multipartUpload`, `imageInspectionService`, `uploadService`, `complaintImageService`) | the temporary directory and photos at the provider of one request | stream, abort, inspect, upload, file, clean up | events of request, parser, streams and response in any order, some twice. |
| **AI provider adapter** (`services/ai`, `config/ai`) | waits and the pause of the queue | read the photo, ask, map the failure, wait | absent or absurd answers; every job ends all the same. |
| **Database scripts** (`scripts/migratePhase1, 2, 4c`, `scripts/db/backup, restore, indexes`) | what they read before they write | analyse, apply, verify; drop and build; dump and restore | run beside the program, stopped half-way and run again. |
| **Reference client** (`client/src`) | what a page shows, its forms, its timers and the requests under way | load, search, turn, act, poll, edit, file a report | answers come late and in any order. Pages show what they were asked for, and nothing waits for ever. |
| Location lookup, HTTP surface (routes, validators, presenters, OpenAPI), CI scripts | none | | not modelled (section 7) |

How they interact: every change that causes work writes its outbox entry in the same transaction
(`outbox.js`); the relay and the workers know an entry only by id, run and attempt; a handler reads
and writes the report or account it is about; handlers tell the outcome by returning or throwing, and
`execute.js` records it. Staff and citizens write the same reports meanwhile, with `__v` guarding
their own writes but not the classifier's, which do not increment it. Transactions on accounts exclude
each other through one guard document. The client knows the server by answers that are old when they
arrive, and sends the version it has shown with what it asks for.

## 2. Modules

| Module | Models | Status |
|---|---|---|
| `JobLifecycle` | what callers are promised about one job | implemented by JobPipeline: checked, proved |
| `JobPipeline`, `JobPipelineProofs` | the pipeline, step by step | checked, proved |
| `Classification`, `ClassificationProofs` | one report and its classification jobs | checked, proved but for liveness |
| `Roster` | what the account lifecycle promises | implemented by Workflow: checked, proved |
| `Workflow`, `WorkflowProofs` | one report, the accounts, and the requests that change them | checked, proved |
| `AddressChange` | what a change of an address promises its holder | implemented by EmailChange: checked, proved |
| `EmailChange`, `EmailChangeProofs` | one account, its address changes, links and email jobs | checked, proved but for liveness |
| `SignIn` | accounts, sign-in and sessions | checked, proved (in `RequestsProofs`) |
| `Lockout` | the failure count of one address | checked, proved but for liveness (in `ServicesProofs`) |
| `Categories` | the categories, and reports filed in them | checked, proved (in `RequestsProofs`) |
| `DailySweep` | the lease, its processes and the sweep | checked, proved but for liveness (in `RequestsProofs`) |
| `Readiness` | `/health/ready` | checked, proved (in `RequestsProofs`) |
| `ProcessLife` | one process from start to end | checked, its orderly stop and its heartbeat proved (in `ProcessesProofs`) |
| `ReportUpload` | one request that files a report with photos | checked, proved but for liveness (in `ClientProofs`) |
| `AiProvider` | the services a classification job calls, and its waits | checked, proved but for liveness (in `ServicesProofs`) |
| `PhaseOne`, `PhaseTwo` | the migrations of a report beside the program | checked, proved but for liveness (in `ProcessesProofs`) |
| `UniqueIndexes`, `Backup` | the index script; backup and restore | checked, proved but for liveness (in `ProcessesProofs`) |
| `JobsPage`, `UsersPage`, `ReportsList`, `ReportPage`, `Polling`, `ReportForm` | pages of the client, one browser each | checked, proved but for liveness (in `ClientProofs`) |
| `RequestsProofs`, `ServicesProofs`, `ClientProofs`, `ProcessesProofs` | theorems about the modules that `MCRequests`, `MCServices`, `MCClient` and `MCProcesses` instantiate | |
| `MCJobPipeline`, `MCClassification`, `MCWorkflow`, `MCEmailChange`, `MCRequests`, `MCServices`, `MCClient`, `MCProcesses` | the instances TLC runs | |

In all of them an `await`, a callback or a commit of the code is a step boundary, and what happens between
two of them is one action. MongoDB documents are written one at a time; a transaction whose reads matter is
a snapshot and a commit, which fails when a document it writes was written since; one that writes all it
reads takes effect at one instant. Inputs are chosen where the code first uses them.

### JobPipeline

| Variable | Code |
|---|---|
| `entry` | the documents of `models/OutboxEntry.js`; clock fields are replaced by what they are compared with (`cooling`: notBefore is ahead; `aged`: queuedAt is ten minutes old; `claimAged`: processingAt is) |
| `waiting`, `active`, `stalled`, `paused` | what BullMQ holds: waiting ids, ids with the slot that locked them, ids whose stalledCounter is positive, the rate limit |
| `pass` | what `runOnce` and `reofferOnce` of each relay hold between their awaits: entries still to offer, the entry added and not yet marked |
| `slot` | one unit of a worker's concurrency inside `executeEntry`, with the job it was given, `takeOver` and the outcome |
| `faults` | how many failures the environment has caused; a bound, not code |

`RelayRead`, `RelayOffer`, `RelayMark` are the three awaits of a pass; `Load`, `UnknownType`, `Claim`,
`HandlerSucceeds` or `HandlerFails`, `PauseQueue`, `Record...` and `Ack` those of a delivery. Redis holds a
job once per id, so an `add` of an id it holds does nothing. The environment may kill a worker
(`WorkerDies`) or a relay pass (`RelayFails`), fail a database call (`RunError`), stall a live worker
(`StallAlive`) or flush Redis (`Flush`). A slot of `OldSlot` is a worker of another version that lacks the
handler.

`JobLifecycle` sees of an entry its stage, its attempts and its run: `Submit`, `FailAttempt`, `Finish`,
`Retry`, `Dismiss`, `Forget`. `ImplementsLifecycle` maps PENDING and QUEUED to one stage and everything
in Redis and the workers to nothing.

### Classification

Reports share nothing but the queue, so the module has one report and its jobs. Of the job system it keeps
what `JobLifecycle` promises, with claims that may be taken over. `report` holds the fields classification
reads or writes; `analysisCount`, which every material edit increments, doubles as the name of the
description, and `classified` is history: the description the stored answer is about. Every request
(`CreateComplaint`, `EditComplaint`, `Reclassify`, `SweepFailed`, `RetryJob`) is one transaction in the code
and one step here. A delivery is the sequence `ClaimReport`, `Load`, `WriteResult`, `Reload`, `Record...`;
the provider's answer is any category, confident or not, and any failure. `Withdraw`, `ChangePriority` and
`Recategorise` are what people do in between. Statuses other than WITHDRAWN are one value, because no
classification filter tells them apart.

### Workflow

| Variable | Code |
|---|---|
| `user` | role, isActive and retiredAt of each account |
| `report` | status (DELETED when the document is gone), assignedTo, `__v`, the length of editHistory, priority and its source |
| `entry` | what the newest history entry claims of a priority (`priorityChange`) or an assignee (`previous`, `next`) |
| `guard` | the open transaction that wrote the AdminControl document |
| `request` | the handlers under way: who sent it, the role authentication found (kept to the end of the request), the report as first read, and the snapshot of an open transaction |

`Arrive` is authentication with `restrictTo`; `Load` is the read and the checks on it. A status, priority or category
change, an edit and a withdrawal are then one filtered write. Lifecycle transactions go through `Begin`, whose first
operation writes the guard document, and commit in `AssignComplaint`, `MutateAdministrator`, `RetireAccount` or
`BootstrapFirstAdministrator`; `Retry` is `withTransaction` starting again and `Drop` any refusal, missed filter or
crash. What a transaction merely reads may change before it commits, and that is where the properties look. The
optional `expectedVersion` of a client is left out: it only refuses more. `ClassifierSetsPriority` is what
`Classification` does to the fields of this module.

`Roster` has the accounts alone and no transactions: a change has the authority it needs at the instant it
happens. Its guards show that the count of administrators in the code is a second safeguard: an
administrator can only be removed by another one, who remains.

### EmailChange

One account (`user`: its address, standing and password) among others that take addresses; `change`, `link` and `job`
are the documents of EmailChange, AccountToken and the outbox; `delivery` is a claimed delivery inside `emailJobs.js`,
`mail` what the provider accepted under which idempotency key, `asking` a request for a change between its checks and
its transaction, and `guard` the delivery whose open transaction wrote the AdminControl document. `RequestEmailChange`, `ConfirmEmailChange`, password changes and
resets, suspension, retirement and verification each end the changes and links the code ends. A delivery is `Load`,
the transaction that makes a link (a snapshot, then the commit), `Send`, the stage that `Advance` gives the change,
and the record; `RecordFailed` and the final-failure step are apart, as in the code. `AddressChange` is
the promise: one change at a time, notice, link, move; `ImplementsPromise` keeps of all the above the address and
the stage of the change.

### SignIn and Lockout

`SignIn` has accounts (address, provider, Google subject, password number, standing), sessions, OAuth states and requests.
A password is the number of its change, and `kept` the session that changed it. `Signup`, `Login`, Google sign-in, password change and
reset, sign-out, suspension, retirement and moves of an address are read steps and write steps as the handlers
have them; a request that reached its handler keeps what authentication found. `Lockout` is one throttle document:
`left` is what remains of its window, a request has the clock it read, and `late` is how old that is by the time of its
write. Sign-in peeks, compares and counts; the pages that ask for the current password again count first.

### Categories, DailySweep, Readiness

`Categories`: rows with their `nameKey` and slug, the indexes (which seeding needs and start-up may lack), an
administrator's edit from its read to its write, and filing or moving a report from the read of its category to the
insert. `DailySweep`: the lease as the hours until its next run, a process from its check (`Claim`, with the insert that
may collide) through the list of candidates to the last of them. `Readiness`: each probe with its timeout, its cache and
the calls that joined it; a check is its commands in a row, each of which may be answered late or never.

### ProcessLife

`main` is the start of a process (configuration, connection, seeding, listening, first beat, background parts), `stopper`
the handler of its signal, `part` the background parts that are up, `work` what is under way, `beat` the heartbeat
document, a beat being written, and whether a first write or a removal failed (the stop goes on after a failed removal), `deadline` the timer that ends a stop. `Kind` is the API, the API with background
work of its own, or the worker.

### ReportUpload

`client`, `parser`, `write` (one file stream for each photo), `dir` (the temporary directory and who watches it), `handler`
(inspection, uploads, insert, retraction, answer) and `cloud` (photos at the provider). Each event callback of
`multipartUpload.js` is an action and comes in every order Node allows; every `catch` and `finally` of the handler is a
step.

### AiProvider

Jobs and AI slots with waits counted in units; `Answer` is every form a provider's answer may have (a status, a
body that is good, unusable, cut off or a refusal, a Retry-After that may be absent or huge), `CodeOf` and
`WaitOf` what `kimi.js` makes of it, `Record` the retry policy, and `Pause` the limit on the queue.

### Scripts

`PhaseOne` and `PhaseTwo` have one report, since the scripts treat each alone, what the script read of it, and the
program beside it: assignments, resolutions, staff edits, requests and answers of the classification.
`UniqueIndexes` has one key with the number of documents that hold each value, and the script from the drop of the old index
to the new one or its return. `Backup` has the content of each collection as a number, the two comparisons around
a dump, and restoring into a target that may hold something else.

### Pages

Each page is what it shows, its forms and timers, and `flight`, the requests under way: served at one moment,
answered at another, in any order. `JobsPage`: two queues and one action at a time; `UsersPage`: search with a pause, role,
dialogs, and the first load on a timer of its own; `ReportsList`: filters in the address, the history of the browser and a search that writes it late;
`ReportPage`: the panels of owner and staff over a report that reloads; `Polling`: the timer, the deadline and the
visibility of a page that waits for its classification; `ReportForm`: location lookups, the device's position, and
photos chosen in rounds.

## 3. Runs

Ten runs must find nothing, two show a disagreement (section 6). A run of a composite module has several
instances, chosen in the initial state: the components of `MCRequests`, `MCServices`, `MCClient` and
`MCProcesses` share no variable, so while one moves the others rest, and a behaviour of the run is one of
that component alone. A property of such a run joins what is asked of the parts it names; each conjunct is
stated and commented in the module of its part.

| Run | Instances | Shows |
|---|---|---|
| `pipeline_safety` | 2 relays and 2 slots, no failure; 1 relay, 1 slot and 1 slot without the handler, 1 failure, 1 retry by an administrator; 1 relay, 2 slots, 2 failures | `FencedWritesFindOpenEntry`, `RetriesKept`, `PlainRunsOnce` (without failures the re-offer is never needed and handlers do not overlap), `ImplementsLifecycle` |
| `pipeline_liveness` | 1 relay, 2 slots, 2 failures, fair | `EveryJobEnds` |
| `classification_faults` | 2 entries, 2 tokens, 2 categories, 2 requests, 2 descriptions, 1 failure of any kind | `AnswersFit`, `DecisionsKept`, `WriteTriesSuffice` |
| `classification_answers` | 2 entries, 3 tokens, 1 category, 2 requests, 1 crash or overlong delivery, fair | `PendingHasJob`, `EveryRequestAnswered` |
| `workflow` | 3 accounts, all citizens, 2 requests among bootstrap, change, retire, leave, assign; then, with an administrator and an agency appointed, 2 requests about a report, 2 priorities, 1 edit, 3 versions | `ImplementsRoster`, `RolesKept`, `ReportKept`, `UpdatesLawful`, `HistoryTrue` |
| `email` | `moving`: 2 changes and all their jobs over 3 addresses, a slow delivery; `retried`: 2 changes and a retry by an administrator, a refusal of the provider; `links`: 1 change, a reset, and all that ends links, a slow delivery; `verified`: 1 change, a verification, a retirement and an address taken by somebody else, a crash or a failed call; 2 deliveries and 1 failure in each | `LinksFit`, `NoticeFirst`, `ImplementsPromise` |
| `requests` | `identities`, `sessions`: 3 accounts, 2 addresses, 2 Google identities, 2 requests; `editing`: 3 rows of which 2 are made, 3 names, 2 administrators, 2 processes, with the indexes; `seeding`: 3 rows, 4 names, 1 administrator, 1 process, without; `readiness`: 2 calls; `sweep`: 2 processes | `IdentitiesKept`, `GoogleSessionsEnd`, `SpentIsSpent`, `CategoriesKept`, `ReadinessTrue`, `SweepsOnce` |
| `services` | `lockout`: 2 attempts, a limit of 2, a window of 3; `sweep`: 1 process, 2 reports, 1 failed sweep; `provider`: 2 jobs, 2 slots, waits of 1 and 3; `email`: 1 change, 2 attempts, 2 failures; fair | `GuessesLimited`, `LimitsHold`, `JobsWaitAndEnd`, `EveryChangeSettles`, `TriedAgain` |
| `client` | `upload`: 3 photos, 2 tries at a code; `jobs`, `users`, `listed`, `polling`, `owner`, `staff`, `form`: one page each, two or three loads, one to three changes by others; fair | `UploadOrderly`, `PhotosBelong`, `UploadEnds`, `ListsFit`, `FormsFit`, `NothingWaits` |
| `processes` | `both`, `api`, `worker`: 3 requests and jobs; `phase one`: 4 changes; `phase two`: 4 changes, 2 runs; `indexes`: 2 values, 5 documents, 2 faults; `copies`: 3 collections, 3 writes, 1 fault; fair | `StopCutsNothing`, `HeartbeatGone`, `ProcessEnds`, `ScriptsSpare`, `ScriptsFinish` |
| `classification_versions` | `classification_answers` with a worker of another version | `PendingHasJob` fails |
| `workflow_openwork` | an administrator, an agency, a reporter, 2 requests of any kind | `AgencyLeavesNoOpenWork` fails |

### Bounds

Pipeline: entries never read or write each other and ids name their entry, so one entry exercises the whole
protocol; two relay timers (four with a second relay) and two slots give every pair of concurrent actors,
and the protocol has no rule about three. Two attempts give a first, a retried and a last attempt; one
retry by an administrator gives an old and a new run. Two failures are enough for a stalled delivery that is
alive and a crash or a failed call of its successor. Classification: two requests are one and the edit,
reclassification or retry that replaces it; two tokens give a holder and the delivery that takes over,
a third one a second takeover. WRITE_TRIES keeps its value 3. Workflow: a hazard needs two requests, of
which the first is overtaken between its read and its write; the third actor, where there is one, finishes
before. Three versions let a report be assigned or moved, read, and changed again before a stale write arrives.

Email: two changes are a change and the one that replaces it, two deliveries a holder and its successor;
`moving` has every job of both, `retried` gives one up for the retry, and `links` and `verified` have one change
beside what ends it. Sign-in: two accounts contend for an
address or an identity and a third holds one; four sessions are one of each way in and one more. Categories:
names differ in case only (one key) or in a mark only (one slug), which are the two ways rows collide; three rows
are the fallback and two that contend. Lockout: a limit of two lets two attempts pass it together, a window of
three has a beginning, a middle and an end, and a clock may be late by one. Provider: 2 attempts, and a spent balance
waits longer than any backoff; a photo is larger than the limit after two pieces. Uploads: three photos have one that
fails, one before and one after it. Pages: two answers can change places, and a third load follows them. Scripts: a
stop, a run after it, and changes of the program before, between and after.

Deadlock is not checked where the system may come to rest: all work has ended and all bounds are used up.

Symmetry: relays, the slots of one version, requests, and (in `email`) the addresses other than the first are
interchangeable; it is used in runs without a liveness property only.

### Fairness

- `JobPipeline`: clocks advance; each timer of a live relay fires and its pass goes on; each slot goes on with
  what it runs; BullMQ delivers some waiting job while a slot is idle, and its stalled check finds some lock of a
  dead worker. These are the event loop, `setInterval`, BullMQ and the supervisor that restarts processes. Nothing
  is assumed of administrators, of new work, or of failures; the handler is assumed to return or throw (each
  provider call has a timeout).
- `Classification`, `EmailChange`: a delivery under way goes on and an entry that may run is delivered again,
  which is `EveryJobEnds`; a request for a change goes on to its transaction. People owe nothing. The liveness
  instance of `EmailChange` has no crash: after one in the final step of a failed job the change stays as it was
  (section 6).
- `Lockout`: the clock ticks and the database makes the updates asked of it. `DailySweep`: hours pass, a check that
  began goes on, workers answer; a sweep may fail, so often.
- `AiProvider`: time passes and every step of a delivery ends; what the services answer is free.
- `ReportUpload`: the server goes on, and a client sends its form or is cut off (Node's request timeout).
- `ProcessLife`: the start goes on, the deadline fires, and an event loop with nothing left runs out. Of requests,
  jobs and provider calls nothing is assumed.
- Pages: requests are served and answered and the browser goes on; `Polling` assumes only that time does. `ReportForm`:
  the device and the lookup answer, with whatever result.
- `PhaseOne`: the operator runs the script again while it does not verify, and a run is at some time not stopped
  (strong fairness of its update). `UniqueIndexes`: the script is run until it reports nothing and its operator
  removes what is repeated. `Backup`: likewise.

In the composite runs one fairness condition stands for the corresponding ones of several modules; as only one
module moves in a behaviour, and which one never changes, it is the condition of that module.

## 4. Proofs

All theorems hold for every value of the constants that the named assumptions of the module allow; the few that assume
more (`TriesSuffice`, `PendingHasAJob`, `RunsOnce`) say so in their statement.

| Module | Theorems | Carried by |
|---|---|---|
| `JobPipelineProofs` | `TypeCorrect`, `FencedWritesSafe`, `BackoffIsRespected`, `AttemptBudgetHolds`, `RetriesAreKept`, `PipelineImplementsLifecycle`, `RunsOnce`, `PlainRunsEachOnce` | `IInv`, `QuietInv` |
| `ClassificationProofs` | `TypeCorrect`, `ResultIsOfCurrentText`, `CitizenChoiceIsKept`, `DisagreementsAreOpen`, `StaffDecisionsAreKept`, `WithdrawnIsKept`, `DoneJobsAnswered`, `AnswersAlwaysFit`, `DecisionsAreKept`, `TriesSuffice`, `PendingHasAJob` | `ReportInv`, `JobInv`, `TriesInv`, `FailsWithReport` |
| `WorkflowProofs` | `TypeCorrect`, `WorkflowImplementsRoster`, `AdministratorAlwaysRemains`, `AssigneeIsEligible`, `StatusesFollowPolicy`, `AssignmentsAreRecorded`, `PrioritiesAreRecorded`, `AgencyOnlyActsOnOwn`, `WithdrawnIsUnassigned`, `EditsStayWithinLimit`, `ReportIsKept`, `RolesAreKept`, `UpdatesAreLawful`, `HistoryIsTrue` | `SnapshotIsCurrent`, `SeenIsPast` |
| `RequestsProofs` | `TypeCorrect`, `NoSecondAccount`, `NoSessionOutlives`, `PasswordAccountsAreKept`, `IdentitiesAreKept`, `SpentGivesNothing` (all of `SignIn`); `ReadinessIsTrue`; `CategoriesAreKept`; `SweepsAreOnce` | `Inv`, `StateInv`, `LiveInv`; `ReadyInv`; `EditingInv`, `SeedingInv`; `SweepInv` |
| `EmailChangeProofs` | `InvIsKept`, `LinksAlwaysFit`, `NoticeComesFirst`, `PromiseIsKept`, `NoticesAreOnce` | `Inv`, `NoticeInv` |
| `ServicesProofs` | `GuessesAreLimited`, `TriesAreBounded` (of `Lockout`); `QuotaIsWaitedFor`; `LimitsAreKept` | `GuessesCounted`, `TriesInv`; `ProviderInv` |
| `ClientProofs` | `PassedOnOnce`, `NothingWritesIntoRemoved`, `UploadIsOrderly`, `PhotosAlwaysBelong` (of `ReportUpload`); `ListsAlwaysFit`, `ListsFitInTheRun`, `FormsAlwaysFit` (of the pages) | `UploadInv`, `PhotoInv`; `JobsInv`, `UsersInv`, `ListInv`; `PollInv`, `PageInv`, `FormInv` |
| `ProcessesProofs` | `NothingIsCut`, `HeartbeatIsGone` (of `ProcessLife`); `ScriptsAreSparing` | `StopInv`, `BeatInv`; `ImportInv`, `PhaseTwoInv`, `IndexInv`, `CopyInv` |

**Pipeline.** None of the properties is inductive; `IInv` is

- `NoFutureJob`: every id held by Redis, a relay pass or a slot names a run and an attempt its entry has
  reached. Ids are made only from entries as they are read, and entries only move on in (run, attempt)
  order, so one write that moves an entry on makes every id in flight stale. This is the reason for the
  attempt in `jobIdFor` and in every filter;
- `CoolingIsAlone`: while a retry waits, the entry is PENDING with `notBefore` set and nobody holds the id of
  its next attempt; it is kept because the recorded failure just made all ids stale, and because a relay
  reads a waiting entry only when the wait is over;
- `BudgetKept`: an open entry has an attempt left, and a slot that decided on a retry knows of another one;
- `SeenOpen`: a worker without the handler goes on to fail only an entry it read as open;
- `FencedWritesFindOpenEntry` itself: as long as an entry carries a slot's token and the slot's run and attempt, no
  other step has closed it, because every step that closes it moves the attempt on.

For the refinement, a step that writes no entry is a stuttering step, `RelayMark`, `Claim` and the clock steps keep
`JobOf(e)`, and each remaining action is matched with one of `JobLifecycle`; `BudgetKept` supplies the guard of
`FailAttempt`, and `FencedWritesFindOpenEntry` and `SeenOpen` supply the guard of `Finish`.

`RunsOnce` is about the system as it is meant to run: as long as nothing has failed and no worker of another version
holds a delivery (`Quiet`), an entry that says QUEUED has its job in Redis and no two handlers of an entry overlap,
for any number of relays, slots, retries by an administrator, and claims however old. `QuietInv` is what makes it inductive: an
id is in one place (`Delivered`); a claim stays with the delivery that made it until that records, and the entry stays open
(`ClaimHeld`); a delivery drops its job only when nobody wants it (`EndsUnwanted`); and the job a relay has added is
still there when it marks the entry (`MarksHeld`), since whoever took and ended it has moved the entry on.
`PlainRunsEachOnce` is the same of the instance of `MCJobPipeline` that has no failures.

**Classification.** `ReportInv` says that nothing but its creation touches a report not yet filed (`Unfiled`), that a delivery
whose token the report holds has sent the present text (`SentIsCurrent`), and that the result, choices and disagreements
agree with their sources (`ResultOfCurrentText`, `CitizenChoiceKept`, `DisagreementIsOpen`); `ReportSteps` reduces every action to
one of a few changes of the report. `JobInv` relates entries and deliveries to the request numbers of the report: numbers are
past ones and no two jobs share one (`SeqsPast`, `SeqsDistinct`), a delivery is of a job and its token at the report stands for its
request (`OfAJob`, `TokenKept`), one that means to record success has its request answered (`OkIsAnswered`), and so has a job that is done
(`DoneJobAnswered`).

`TriesSuffice` assumes `WriteTries >= 3`, the value in the code. Of the fields in the filter of the answer only the
sources of category and priority change under a request that still waits, each only to STAFF and so once: a delivery has
lost no more writes than sources it has seen decided, and one that has just lost a write sees another one (`LostToStaff`).
`PendingHasAJob` assumes that of the failures only crashes and overlong deliveries happen, any number of them. It is what
fails in `classification_versions`, and a database that fails while the report is claimed breaks it too (section 6), so
neither can be allowed. Its invariant: a delivery that records a failure, and whose claim of the entry still stands, holds the
report as well (`FailsWithReport`), so that the two fail together.

**Workflow.** `SnapshotIsCurrent`: a request whose transaction is open holds the guard and its snapshot of the accounts is
what they are; it holds because only such transactions change accounts and only one is open. With it each of them is a
step of `Roster` (`RosterStep`), and `RosterKeepsAdministrator` is an argument about `Roster` alone. `SeenIsPast`: what a
request has read is a past of the report, and while the version is the one it read, so are status, assignee and number of
edits (`ReportAdvances`: every step counts a version or leaves them alone). It turns the version in a filter into facts
about the report as it is, which is what a limit checked on an old read (`EditsWithinLimit`), a status checked before a
transaction (`WithdrawnUnassigned`) and an authority checked before a write (`AgencyActsOnOwn`) rest on. Statuses and
histories need no invariant: their filters pin what the write is built from, the priority included.

**SignIn.** `Inv` is `TypeOK`, `RequestInv` (what each request knows between its read and its write fits the accounts),
`SessionInv` (opened sessions are of accounts that were made, Google opens Google accounts only, and its sessions end with what
they rest on) and `AccountInv` (only Google accounts have a subject; addresses and subjects are unique). The lemma `Steps` reduces
the actions to a few changes of accounts and sessions. For `SpentIsSpent`, `StateInv` says that a stored state of a Google sign-in
goes to one request, the only one that can open a session with it, and `LiveInv` that a session which is live now, or was when
the request looked, was live when the request came.

**EmailChange.** All theorems are of any number of changes, links, entries, deliveries and failures. `Inv` has, besides types
and the order in which documents are made:

- `PlaceFits`: where a delivery stands fits its entry, and what it remembers exists;
- `Guarded`, `SnapshotHolds`: between the snapshot and the commit of the transaction that makes a link, the delivery has
  the guard, and everything that could end what it saw (a move of the address, a suspension, a newer change) needs the
  guard. Without it a link could be made for an address the account no longer has, or for a change that is over;
- `LinkFitsAccount`, `LinkFitsChange`: the links that are there fit, which those actions keep by removing links;
- `ResumableIsLatest`: of the changes only the latest is under way or may come back, although an administrator may
  retry the job of any;
- `ToldIsNotified`: whatever says that a notice was sent (the stage of the change, an entry that is delivered or
  queues the link, a delivery on its way to record it) is right: the provider accepted one for the address the account
  still has. It needs `NoticeAddressed`, as a notice goes to the address the delivery read.

`NoticeComesFirst` follows from `ToldIsNotified`, as only a change whose stage says so can be confirmed. For `PromiseIsKept`,
`LatestSeen` shows that the change the promise speaks of is the latest one and no other is open, and `StepKeepsPromise` matches
each action with a step of the promise or shows that it is none. For `NoticesAreOnce`, `NoticeInv` says that a key stands for one
notice (`KeysStand`: the provider takes no other under the key that is made of entry and run) and that notices and deliveries are
of runs their entry has reached (`RunsPast`). So an entry has one notice for each of its runs at most, however many
attempts and deliveries a run had.

**Lockout.** `GuessesCounted`: wrong passwords let through by the pages that count first are at most the count of the
window they fell in, whatever the clocks. `TriesCounted`: as long as the count that sign-in reads is within the limit, wrong
passwords it let through are counted there or their requests are still to be (`Owed`); a request that read its clock in a
window that has closed since is no longer owed a count in the present one. The requests that are owed are below the limit
when one more is let through, and are others than it, hence the bound `Limit + Cardinality(Request) - 1`.

**AiProvider.** `QuotaIsWaitedFor` is of any number of jobs, slots and attempts, any backoff and any answers. A job is run by
one slot at a time (`RunsItsJob`), so what a delivery met is known to it alone: one that met a spent balance carries a wait of an hour or
what is left of it, whatever it does to the pause of the queue meanwhile (`CarriesWait`), and leaves that wait
with the job (`WaitsOutQuota`). `LimitsAreKept` puts together the limits of the three modules, each as it runs by itself: the tries of
`Lockout`, the bytes held of a photo (part of the types of `ProviderInv`), and `NoticesAreOnce`.

**ReportUpload.** `UploadInv` has `Types`, `NotOpen` (before the parser exists nothing happened, or its failure was passed on),
`Failures` (a failure is handled once, and owed or passed on once), `HandedOn` (a request handed on was read to its end with
every write settled) and `Removal` (storage is removed only after a failure or the hand-over, with no write open). `PhotoInv`
adds that the handler runs once, after the hand-over, and what is at the provider at each point of it (`Stored`): exactly
the photos uploaded so far, all of them when the report is inserted, and afterwards those that could not be deleted.

**Pages.** `ListsAlwaysFit` and `FormsAlwaysFit` are of any data, and of any number of requests under way answered in any order;
pages are taken together as they share no state. `ListsFitInTheRun` adds that the run of `client` is such a system.
One invariant for each page:

- `JobsInv`: the newest load is of the queue on screen, and an action holds the tabs until it has ended (`act.queue`); loads
  sent after the last own action are answered with what that made, however late (`JobAnswer`);
- `UsersInv`: a search that waits has the filters on screen, and a dialog covers them from the moment its action is sent to
  its answer, so neither a late search nor the load after an action asks with other ones. One action is sent since the
  dialog stays;
- `ListInv`: the newest request is of the address, and once it is answered, neither overtaken nor failed, it is what is shown;
- `PollInv`: one request at most is of the running effect, and an effect that asked, or was stopped, sets no timer;
- `PageInv`, for either viewer: what the staff chose was chosen at the version shown, a status request carries that version,
  and an open form that was not touched, and under which no other text was shown, holds the text shown;
- `FormInv`: the pair goes with its address. For the photos `Count` and `Total` have to be sums (`PhotosAdd`). They are
  defined by a fold over the sizes, so this is an induction over finite sets, made without an induction rule: the least
  cardinality at which a fold does not exist, or is not additive, exists (`LeastNumber`, from the well-foundedness of finite sets) and
  leads to a contradiction (`FoldExists`, `FoldAdds`).

**ProcessLife.** `StopInv` has `Types`, `Serving` (only a serving process listens, and once), `Background` (background parts run
only where they belong, and whole until the stop comes to them) and `Order` (parts stop one after the other, each with nothing
of its own left). `BeatInv` adds where the heartbeat document may come from: from the beat of a running part or a first beat that failed, and
once its removal was tried only from a beat that was under way then, unless the removal failed (`Removed`).

**Scripts.** `ScriptsAreSparing` is of the four scripts, each beside the running program, stopped anywhere and run again. `ImportInv`: a
run of phase 1 that goes on to write has read the report without an import, and nobody but a run adds one. `PhaseTwoInv`:
versions count the entries of the timeline, so as long as the version is the one that was read, the timeline is the one that was read, and a
priority of the staff was theirs then; and only the step of phase 4c with a job writes an answer (`JobsAnswer`). `IndexInv`: a run that goes on
after it took an old index away has built the unique one. `CopyInv`: since no content comes back,
what a collection holds only grows, and before the dump it is no more than at the moment of the archive, after it no less
(`Grows`); snapshots that are equal before and after make the archive the database at that moment. With contents that come back this is
false (section 6, `ManifestMatches`).

**Readiness.** `ReadinessIsTrue` is of any number of calls, any timeout of a command and any time results
are kept. `ChecksTimed`: a check that runs has taken no longer than its finished commands may and what the present one
has, and a result in use is no older than its check may be and the time it is kept. `CallsTimed`: a call that waits for
the second check, which others may have begun, is older than that check by the first result at most.

**Categories.** `CategoriesAreKept` is of the two instances of `MCRequests` without the bound of the run on rows: of any
rows, administrators, processes, reports and staff requests. `EditingInv`: either there is a fallback that no
request under way will rename, switch off or delete (`Safe`: an edit that read it has read it as it is and asks for nothing of
the kind, as such an edit is refused), or nobody serves yet, nobody edits, and whoever seeds has it before them (`NotYet`).
For deletes, what the transaction read still holds, apart from reports put there since (`ReadsHold`): any write of the category
ends it. `SeedingInv`, of one process at a time: while a start has a default to add that is not the fallback, only defaults exist,
as it began with an empty collection and nobody could edit meanwhile.

**DailySweep.** `SweepInv`: the wait of the lease and the time since the last sweep make a day between them
(`lease.wait + age >= Day`), so whoever takes the lease when its wait is over comes a day later. That a report under way is not
asked for again needs no invariant: the update filters on the status and the request that were listed.

Only model-checked: liveness (`EveryJobEnds`, `EveryRequestAnswered`, `JobsWaitAndEnd`, `EveryChangeSettles`, `TriedAgain`,
`UploadEnds`, `NothingWaits`, `ProcessEnds`, `ScriptsFinish`: fairness and ENABLED are outside the prover's reach; the first half of
`JobsWaitAndEnd`, an action property, is `QuotaIsWaitedFor`). No module that is proved about declares a RECURSIVE operator.

## 5. Plan

Every safety property of the passing runs is a theorem, under the assumptions section 4 names. Next: the
remaining pages of the client (profile, categories, sign-in) in the form of `UsersPage`.

## 6. Findings

### Shown by the two runs

`classification_versions`: `errors/domainErrors.js:9` refuses a request with "This report is already being
classified". When a worker of another version gets the job (`execute.js:37-51`), the entry fails and the step
that would fail the report with it is never reached; the report says PENDING and nothing is classifying
it. An administrator may still retry the failed job, but after dismissing it, reclassifying is refused with
that message and the sweep looks for FAILED only, so nothing but a material edit by the citizen asks again.

`workflow_openwork`: `accountRetirementService.js:200` refuses to change an agency account with "Unassign open
complaints before changing this agency account". Its transaction counts the open reports of the account and writes
none of them, and a staff status update writes neither the guard nor an account. So a rejected or resolved report that
is reopened between the snapshot and the commit conflicts with nothing, and the account is suspended or demoted while
an open report is assigned to it. Without any race, a report reopened later has the same end: nothing on that path
looks at the standing of the assignee.

### Formulas that do not hold

Each of these formulas states a sentence of the repository. None is part of a run: TLC found a counterexample
to each with the constants of its MC module (or those the last column names), and the property that a run checks instead is what the code does keep.
To see one, state it of the instance of its module in the MC module.

| Formula | The repository says | What happens |
|---|---|---|
| `EmailChange!SentLinkWorks` | `emailJobs.js:15`: "Each is safe to run twice" | A delivery makes a new link before it sends and removes the unused one. When a slow delivery is taken over and both go on, the mail of the first may be the one accepted, with the link the second removed; the change is LINK_SENT and nothing sends another. |
| `EmailChange!FailedKeepsNoLink` | `emailJobs.js:134`: "no link may outlive it" | The change is ended in one write and its link removed in another; after a crash between them the link stays. It confirms nothing, as the change is not active. |
| `EmailChange!RetiredKeepsNoAddress` | `accountRetirementService.js:129` removes every record that holds an address of a retired account | `requestEmailChange` looks at the account before its transaction and not in it: one that waited for the guard of the retirement records the new address afterwards. |
| `SignIn!OtherSessionsEnd` | `passwordChangeService.js:13`: "This session stays signed in; every other one ends" | Sign-in compares the password and writes its session later, outside a transaction. A change of the password between the two does not end that session. |
| `Categories!FallbackEnsured` | `seedCategories.js:34`: "`Other` ... is always ensured" | The upsert takes any row with that name or normalised name. An inactive Other, or one named OTHER, made while seeding is put off for want of indexes, counts as the fallback; filing and classification look for an active row with the exact name. |
| `Categories!NameOnce` | `categoryController.js:11`: "concurrent creates and renames cannot both succeed" | An update saves the fields it changed. A rename between its read and its write, and a name that differs from the one read in case only: the name is written and the key is not, so they part, and a second row may take the name. |
| `Categories!FiledCategoryExists` | `categoryController.js:72`: requiring deactivation first "closes the race where a complaint being filed picks an active category that is then removed" | Filing reads the category, uploads photos and inserts: deactivation, the count of references and the deletion fit in between. |
| `Categories!NothingRevived` with two processes | `seedCategories.js:34-36`: a default that an administrator has renamed or deleted does not come back with the next restart | Two processes start on an empty collection (or `db:indexes` seeds beside one that serves). The first has seeded and serves, an administrator renames a default, and the slower one, whose list was made before, adds it again. Shown with `Server <- Server` in `Seeding`; the run checks one process at a time. |
| `DailySweep!NextCheckTriesAgain` | `aiSweep.js:52`: "the next check tries again" | The lease was moved a day ahead before the sweep and is not moved back. |
| `ProcessLife!HeartbeatGoneAlways` | `worker.js:9`: a stop during start-up "removes the heartbeat" | The document is deleted without waiting for a beat under way, whose upsert may make it again; a deletion that fails is ignored (`heartbeat.js:23`); and a first beat that failed may have been written, in which case nothing deletes it. |
| `ReportUpload!FilesGoAlways` | `multipartUpload.test.js:29`: "removes request storage when the client disconnects before parsing finishes" | The response is watched only once all writes have settled; a client that disconnects between the end of parsing and that moment closes it before, and the event does not come again. |
| `JobsPage!NoneMeansNone` | `JobsPage.test.jsx:49`: "says ... when nothing failed" | When the only job of the last page is dealt with, that page is loaded again, is empty, and the page says that no job failed. |
| `UsersPage!InStep` | `UsersPage.jsx:129`: "so the page stays in step with the server" | Answers are shown as they come; one sent before the action may replace the list loaded after it. |
| `UsersPage!LastLoadHasFiltersAlways` | `UsersPage.jsx:77`: "A search still waiting to run would reload the list without this role", so it is cleared | The first load waits on a timer of its own, which no handler clears: a filter chosen before it goes out is followed by a load of everyone. The time is that of one `setTimeout(0)`. |
| `ReportsList!FilterKept` | `ReportsListPage.jsx:24`: filters are kept in the address | The timer of the search writes the parameters of the time the text was typed: a filter chosen within its 400 ms is gone. |
| `ReportsList!SameList` | `ReportsListPage.jsx:24`: "a reload or the back button returns to the same list" | The late answer of an earlier address is shown under the present one. |
| `Polling!NeverOverlap` | `useClassificationPolling.js:3`: "Never overlap requests" | `inFlight` belongs to one run of the effect; the next run does not know of the request the last one has under way. |
| `ReportPage!SendsOnlyChanges` | `OwnerActionsPanel.jsx:10`: "Edits send only what changed plus the loaded version" | The draft is compared with the report now shown, not with the one the form was opened on: after a reload in between, an old description goes out with the new version, and is taken. |
| `ReportForm!DiscardedStays` | `LocationField.test.jsx:74`: "lets the reporter discard a device position" | Discarding an earlier position does not cancel a search under way, whose answer puts one back. |
| `PhaseOne!ImportIsCurrent` | `migratePhase1.js:73` records "Imported current assignment" | The update finds the report by id alone, so an assignment made since the analysis is followed by an import of the one before. |
| `PhaseTwo!SnapshotIsCategory` | `migratePhase2.js:141`: "changed during migration; re-run after it settles" | Only `__v` is compared, and classification does not increment it (`complaintController.js:257`). |
| `PhaseTwo!QueuedIsPending` | `classificationRequests.js:39`: request and job go "atomically with the status change" | Where `ai` is null the migration writes the whole object, over a request made since; the queued job finds nothing to answer. |
| `Backup!ManifestMatches` | `README.md:207`: "its manifest always matches its archive" | A category created and deleted while the dump reads may be in the archive, and both comparisons agree. |
| `AiProvider!UnusableRetriedOnce` | `openapi.yaml:233`: "INVALID_OUTPUT is retried once" | Only the last failure counts: unusable, timed out, unusable is tried again (shown with 4 attempts; the code has 6). |
| `AiProvider!QueueHeld` | `execute.js:30`: "holds the whole queue when the provider asks everyone to wait" | Not when the attempt is the last of its job. |

### Noticed while reading

The models contain these steps or leave them out as said; no formula is about them.

- `changePassword`'s transaction does not look again at whether the account is active or retired, and a sign-in under way
  may leave a session of an account that was suspended meanwhile. Authentication refuses both.
- When the transaction in which a delivery claims its report fails on the last attempt of the job (`aiJobs.js:58`), the
  job fails under a token the report does not have, so the filter of the report's failure (`classificationRequests.js:64`)
  misses it: the report stays PENDING with no job that may run, as in `classification_versions`.
- After a failure of, or a crash before, the last step of a failed email job (`emailJobs.js:143`), the change stays open until
  it is cancelled, replaced or retried by an administrator.
- When the outcome of the commit that files a report is unknown, its photos are removed (`complaintController.js:110`),
  though the report may exist.
- When background work fails to start in the API, the workers that did start keep running (`server.js:59-65`).
- Removing a temporary directory may race with the cleaned copy of a photo and leave the directory.
- A crash during the first seeding leaves the remaining defaults out: later starts find rows and add only the fallback.
- `UsersPage` sends the role with every edit, and its dialog can be closed while it saves; the search timer of
  `ReportsListPage` is not cleared on unmount; a report page may show the late answer of another report
  (`complaintSlice.jsx:115`); previews on `ReportIssuePage` are not revoked; a late profile answer may come after sign-out.
- A shorter pause of the AI queue replaces a longer one.
- The first migration's race may replace a recorded time of resolution, and its verification asks for an import also where the
  new code recorded the assignment. A null `ai` makes an owner's edit fail until the second migration has run.

## 7. Not modelled, and why

Whole components: the location lookup (one call with a timeout, no state); routes, validators, presenters and the
OpenAPI contract (no state: what they let through is the set of inputs of the models); scripts of CI and deployment.

Parts of components that are modelled:

- Pipeline: ordering within a queue, batch sizes and intervals (they change when, not whether), log fields, and the
  address kept in an email entry.
- Classification: tags, summary and provenance fields (written and removed together with `classified`), the attempt budget of
  INVALID_OUTPUT (`AiProvider` has it), and deletion of a report, after which every filter matches nothing, as after a
  withdrawal.
- Workflow: resolvedAt, notes and category (they follow the status write, or are Classification's), the status email
  (an entry of the pipeline, written in the same transaction), sessions ended by a change of role (`SignIn` has them), names and their
  scrubbing, and mutateUserDetails, which changes no field of the model.
- EmailChange: the lifetime of a link, hourly limits, the mails password_changed, report_filed and status_update (a send and
  nothing else), and Google accounts, whose address does not change.
- SignIn: email verification as a condition (`EmailChange` has it), cookies and token encodings.
- Lockout: the limits per network address, which count requests and never look at their outcome.
- Categories: rows of older versions without a `nameKey`.
- DailySweep: the failures it leaves alone; every failed report of the model is one it asks about again.
- AiProvider: prompts and the wording of answers.
- ReportUpload: the content of photos beyond good or bad, and a file system that refuses to remove a file: the code ignores that
  (`multipartUpload.js:62`, `complaintImageService.js:77`), and the file stays.
- PhaseOne: dangling users and `isActive`. PhaseTwo: name keys of categories, edit histories, withdrawn reports, and what
  `migratePhase4c` does to Google accounts and links of older versions.
- Backup: the comparison of indexes, the checksum of the archive, and errors of the tools other than failing.
- Client: `ReportPage` without the withdrawal, recategorise and unassign dialogs and the list of candidates; the profile, category and
  authentication pages and `authSlice` (one request at a time and no state that outlives it, except as noted above).
