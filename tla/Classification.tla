---------------------------- MODULE Classification ----------------------------
(* How one report is classified: the requests that ask for a classification,   *)
(* the classify_report jobs that answer them, the deliveries of those jobs,    *)
(* and what citizens and staff change meanwhile.  Sources: aiJobs.js,          *)
(* classificationRequests.js, classificationPolicy.js, aiSweep.js,             *)
(* complaintEditService.js, complaintRecategoriseService.js, execute.js,       *)
(* adminJobsService.js and complaintController.js.                             *)
(*                                                                             *)
(* Of the job system it keeps what JobLifecycle promises: an entry may run     *)
(* (OPEN), has ended (DONE, FAILED) or was dismissed, and a claim can be taken *)
(* over.  Relays and Redis are in JobPipeline.  Reports share nothing, so one  *)
(* report stands for all.  A Delivery is the processingToken of one claimed    *)
(* delivery; a value is used again only when no record holds it any more.      *)
EXTENDS Integers, FiniteSets

CONSTANTS Entry,        \* classify_report outbox entries: bounds the jobs written
          Delivery,     \* processing tokens: bounds the deliveries under way at once
          Category,     \* active categories
          Other,        \* the fallback category
          MaxAttempts,  \* policy.attempts of the ai queue
          MaxAnalyses,  \* MAX_ANALYSES
          WriteTries,   \* WRITE_TRIES
          MaxSeq,       \* bound: classification requests of the report
          Faults,       \* the kinds of failure that may happen
          MaxFaults,    \* bound: failures in a behaviour
          None          \* no token, no citizen category, no entry

ASSUME BoundsAssumption ==
  /\ {MaxAttempts, MaxAnalyses, WriteTries, MaxSeq} \subseteq Nat \ {0}
  /\ MaxFaults \in Nat

ASSUME NamesAssumption ==
  /\ Other \in Category
  /\ None \notin Delivery \cup Category \cup Entry
  /\ Faults \subseteq {"crash", "slow", "error", "version"}

VARIABLES report,    \* MongoDB: the report
          entry,     \* MongoDB: its classify_report entries
          delivery,  \* worker processes: the deliveries of those entries
          faults     \* how many failures have happened

vars == <<report, entry, delivery, faults>>

-------------------------------------------------------------------------------
\* FILED stands for every status but WITHDRAWN: editing and withdrawing, which need PENDING, are
\* the only steps of this module the difference matters to, and nobody has to take them.
Status == {"NONE", "FILED", "WITHDRAWN"}
Source == {"PENDING", "CITIZEN", "AI", "FALLBACK", "STAFF"}
PrioritySource == {"CATEGORY_DEFAULT", "AI", "STAFF"}

\* analysisCount also numbers the descriptions: a material edit increments it.  classified is the
\* description the stored result is about, 0 without a result.  failure: failureCode is one the
\* sweep retries (passing), or another (lasting).
Report == [status: Status, aiStatus: {"PENDING", "DONE", "FAILED"}, requestSeq: Nat,
           token: Delivery \cup {None}, analysisCount: Nat, classified: Nat,
           category: Category, source: Source, citizen: Category \cup {None},
           prioritySource: PrioritySource, disagreement: BOOLEAN,
           failure: {"none", "passing", "lasting"}]

\* OPEN is PENDING or QUEUED.
EntryRecord == [state: {"NEW", "OPEN", "DONE", "FAILED", "DISMISSED"}, requestSeq: Nat,
                runKey: Nat, attempts: Nat, token: Delivery \cup {None}]

\* What a delivery remembers: its entry as loaded, the report as last loaded, the description it
\* sent to the provider, and its writes so far.
DeliveryRecord == [pc: {"free", "claimReport", "load", "write", "reload", "record"},
                   entry: Entry \cup {None}, requestSeq: Nat, runKey: Nat, attempts: Nat,
                   source: Source, prioritySource: PrioritySource,
                   description: Nat, tries: Nat,
                   outcome: {"ok", "retryable", "lasting"}]

Free == [pc |-> "free", entry |-> None, requestSeq |-> 0, runKey |-> 0,
         attempts |-> 0, source |-> "PENDING", prioritySource |-> "CATEGORY_DEFAULT",
         description |-> 0, tries |-> 0, outcome |-> "ok"]

Init ==
  /\ report = [status |-> "NONE", aiStatus |-> "PENDING", requestSeq |-> 0, token |-> None,
               analysisCount |-> 0, classified |-> 0, category |-> Other, source |-> "PENDING",
               citizen |-> None, prioritySource |-> "CATEGORY_DEFAULT", disagreement |-> FALSE,
               failure |-> "none"]
  /\ entry = [e \in Entry |-> [state |-> "NEW", requestSeq |-> 0, runKey |-> 0, attempts |-> 0,
                               token |-> None]]
  /\ delivery = [d \in Delivery |-> Free]
  /\ faults = 0

Fault(kind) == kind \in Faults /\ faults < MaxFaults /\ faults' = faults + 1

\* The report exists and is not withdrawn: every classification filter begins with this.
Live == report.status = "FILED"

-------------------------------------------------------------------------------
(* Requests: each writes the report and its job in one transaction.            *)

\* The next request: PENDING, with STALE_AI_RESULT_FIELDS removed.
Asked(r) == [r EXCEPT !.aiStatus = "PENDING", !.requestSeq = r.requestSeq + 1, !.token = None,
                      !.classified = 0, !.disagreement = FALSE, !.failure = "none"]

Dismissed(r) == IF r.state = "FAILED" THEN [r EXCEPT !.state = "DISMISSED"] ELSE r

\* enqueueClassification without reuseEntry: failed jobs of the report go, a new one is written.
\* Which name the new one gets does not matter.
EnqueueClassification(seq) ==
  LET new == {e \in Entry : entry[e].state = "NEW"} IN
  /\ new # {}
  /\ entry' = [e \in Entry |->
       IF e = CHOOSE f \in new : TRUE THEN [entry[e] EXCEPT !.state = "OPEN", !.requestSeq = seq]
                                      ELSE Dismissed(entry[e])]

\* requestClassification
RequestClassification ==
  /\ Live
  /\ report.requestSeq < MaxSeq
  /\ report' = Asked(report)
  /\ EnqueueClassification(report.requestSeq + 1)
  /\ UNCHANGED <<delivery, faults>>

\* createComplaint; hint is the category the citizen chose, None when they chose none.
CreateComplaint(hint) ==
  /\ report.status = "NONE"
  /\ report' = [report EXCEPT !.status = "FILED", !.requestSeq = 1, !.analysisCount = 1,
                              !.category = IF hint = None THEN Other ELSE hint,
                              !.source = IF hint = None THEN "PENDING" ELSE "CITIZEN",
                              !.citizen = hint]
  /\ EnqueueClassification(1)
  /\ UNCHANGED <<delivery, faults>>

\* editComplaint with a material change; its __v filter makes the read and the write one step.
EditComplaint ==
  /\ Live
  /\ report.analysisCount < MaxAnalyses
  /\ report.requestSeq < MaxSeq
  /\ report' = [Asked(report) EXCEPT !.analysisCount = report.analysisCount + 1]
  /\ EnqueueClassification(report.requestSeq + 1)
  /\ UNCHANGED <<delivery, faults>>

\* reclassifyComplaint: refused with CLASSIFICATION_PENDING while the report says PENDING.
Reclassify == report.aiStatus # "PENDING" /\ RequestClassification

\* sweepFailedClassifications: the where of the write repeats what the read looked for.
SweepFailed == report.aiStatus = "FAILED" /\ report.failure = "passing" /\ RequestClassification

\* retryJob with classificationRetry: the same entry runs again for the next request, if the report
\* has not moved on; enqueueClassification dismisses the report's other failed jobs.
RetryJob(e) ==
  /\ Live
  /\ entry[e].state = "FAILED"
  /\ entry[e].requestSeq = report.requestSeq
  /\ report.requestSeq < MaxSeq
  /\ report' = Asked(report)
  /\ entry' = [f \in Entry |->
       IF f = e THEN [entry[e] EXCEPT !.state = "OPEN", !.requestSeq = report.requestSeq + 1,
                                      !.attempts = 0, !.runKey = entry[e].runKey + 1]
                ELSE Dismissed(entry[f])]
  /\ UNCHANGED <<delivery, faults>>

DismissJob(e) ==
  /\ entry[e].state = "FAILED"
  /\ entry' = [entry EXCEPT ![e] = Dismissed(@)]
  /\ UNCHANGED <<report, delivery, faults>>

-------------------------------------------------------------------------------
(* What citizens and staff change without asking for a classification.         *)

\* withdrawComplaint
Withdraw ==
  /\ Live
  /\ report' = [report EXCEPT !.status = "WITHDRAWN"]
  /\ UNCHANGED <<entry, delivery, faults>>

\* updateComplaintStatus with another priority.
ChangePriority ==
  /\ Live
  /\ report' = [report EXCEPT !.prioritySource = "STAFF"]
  /\ UNCHANGED <<entry, delivery, faults>>

\* recategorise
Recategorise(c) ==
  /\ Live
  /\ c # report.category \/ report.disagreement
  /\ report' = [report EXCEPT !.category = c, !.source = "STAFF", !.disagreement = FALSE]
  /\ UNCHANGED <<entry, delivery, faults>>

-------------------------------------------------------------------------------
(* One delivery: executeEntry and the classify_report handler.                 *)

Goto(d, pc) == delivery' = [delivery EXCEPT ![d].pc = pc]

Ends(d, outcome) == delivery' = [delivery EXCEPT ![d].pc = "record", ![d].outcome = outcome]

\* randomUUID gives any token that no record holds.
Fresh == {d \in Delivery : /\ delivery[d] = Free
                           /\ report.token # d
                           /\ \A e \in Entry : entry[e].token # d}

\* Mutant of MayTakeOver: a claim never gets too old.
MayTakeOverNever(e) == entry[e].token = None /\ UNCHANGED faults

\* The delivery that claimed the entry is dead; if it is alive, it has held its claim too long.
MayTakeOver(e) ==
  LET holder == entry[e].token IN
  IF holder = None \/ delivery[holder].pc = "free" THEN UNCHANGED faults ELSE Fault("slow")

\* executeEntry up to the claim.
Claim(e) ==
  LET d == CHOOSE f \in Fresh : TRUE IN
  /\ Fresh # {}
  /\ entry[e].state = "OPEN"
  /\ MayTakeOver(e)
  /\ entry' = [entry EXCEPT ![e].token = d]
  /\ delivery' = [delivery EXCEPT ![d] =
       [Free EXCEPT !.pc = "claimReport", !.entry = e, !.requestSeq = entry[e].requestSeq,
                    !.runKey = entry[e].runKey, !.attempts = entry[e].attempts]]
  /\ UNCHANGED report

\* A worker of another version has no handler: the job fails, and onFinalFailure is never reached.
UnknownType(e) ==
  /\ Fault("version")
  /\ entry[e].state = "OPEN"
  /\ entry' = [entry EXCEPT ![e].state = "FAILED", ![e].attempts = entry[e].attempts + 1]
  /\ UNCHANGED <<report, delivery>>

\* The first filter of the transaction: the attempt was not taken over.
HoldsEntry(d) ==
  LET e == delivery[d].entry IN entry[e].runKey = delivery[d].runKey /\ entry[e].token = d

\* The second: the request is still the current one, and unanswered.
Awaited(d) == Live /\ report.aiStatus = "PENDING" /\ report.requestSeq = delivery[d].requestSeq

ClaimReport(d) ==
  /\ delivery[d].pc = "claimReport"
  /\ IF HoldsEntry(d) /\ Awaited(d)
     THEN report' = [report EXCEPT !.token = d] /\ Goto(d, "load")
     ELSE UNCHANGED report /\ Ends(d, "ok")
  /\ UNCHANGED <<entry, faults>>

\* isCurrentPending
IsCurrentPending(d) == Awaited(d) /\ report.token = d

\* The photo is read between two loads; the first only finds earlier what the second finds.
Load(d) ==
  /\ delivery[d].pc = "load"
  /\ IF IsCurrentPending(d)
     THEN delivery' = [delivery EXCEPT ![d] =
            [@ EXCEPT !.pc = "write", !.source = report.source,
                      !.prioritySource = report.prioritySource,
                      !.description = report.analysisCount]]
     ELSE Ends(d, "ok")
  /\ UNCHANGED <<report, entry, faults>>

\* The photo or the provider fails: retryable for a passing failure, an unexpected one and the first
\* INVALID_OUTPUT, final for any other.
HandlerFails(d, failure) ==
  /\ \/ delivery[d].pc = "load"
     \/ delivery[d].pc = "write" /\ delivery[d].tries = 0
  /\ Ends(d, failure)
  /\ UNCHANGED <<report, entry, faults>>

\* The sources of a category the AI may replace.
AI_MAY_SET == {"PENDING", "FALLBACK", "AI"}

\* The update of decideClassification, decided from the report as loaded; the provider chose c, and
\* confident means at or above the threshold.
Decided(r, d, c, confident) ==
  LET seen == delivery[d] IN
  [r EXCEPT !.aiStatus = "DONE", !.token = None, !.failure = "none", !.classified = seen.description,
            !.category = IF seen.source \in AI_MAY_SET THEN c ELSE @,
            !.source = IF seen.source \in AI_MAY_SET THEN "AI" ELSE @,
            !.disagreement = seen.source = "CITIZEN" /\ c # report.category /\ confident,
            !.prioritySource = IF seen.prioritySource = "STAFF" THEN @ ELSE "AI"]

\* Mutants of Unchanged: any request of the report will do; the sources are not compared.
UnchangedSources(d) ==
  /\ Live /\ report.aiStatus = "PENDING"
  /\ report.source = delivery[d].source
  /\ report.prioritySource = delivery[d].prioritySource
UnchangedRequest(d) == IsCurrentPending(d)

\* The filter of decideClassification.
Unchanged(d) ==
  /\ IsCurrentPending(d)
  /\ report.source = delivery[d].source
  /\ report.prioritySource = delivery[d].prioritySource

WriteResult(d, c, confident) ==
  /\ delivery[d].pc = "write"
  /\ IF Unchanged(d)
     THEN report' = Decided(report, d, c, confident) /\ Ends(d, "ok")
     ELSE UNCHANGED report /\ Goto(d, "reload")
  /\ UNCHANGED <<entry, faults>>

\* Mutant of Exhausted: one write fewer.
ExhaustedEarly(d) == delivery[d].tries + 2 >= WriteTries

\* The loop has made all its writes.
Exhausted(d) == delivery[d].tries + 1 >= WriteTries

\* A write found another report: it is loaded and decided again, or the handler gives up.
Reload(d) ==
  /\ delivery[d].pc = "reload"
  /\ IF ~IsCurrentPending(d) THEN Ends(d, "ok")
     ELSE IF Exhausted(d) THEN Ends(d, "retryable")
     ELSE delivery' = [delivery EXCEPT ![d] =
            [@ EXCEPT !.pc = "write", !.source = report.source,
                      !.prioritySource = report.prioritySource, !.tries = delivery[d].tries + 1]]
  /\ UNCHANGED <<report, entry, faults>>

\* MongoDB fails a call of the handler, a write perhaps after it was made: INTERNAL, which is retryable.
DatabaseFails(d) ==
  /\ delivery[d].pc \in {"claimReport", "load", "write", "reload"}
  /\ Fault("error")
  /\ Ends(d, "retryable")
  /\ report' \in {report} \cup (IF delivery[d].pc = "write" /\ Unchanged(d)
                                THEN {Decided(report, d, c, confident) : c \in Category, confident \in BOOLEAN}
                                ELSE {})
  /\ UNCHANGED entry

\* The filter of every terminal write of executeEntry.
Fenced(d) == HoldsEntry(d) /\ entry[delivery[d].entry].attempts = delivery[d].attempts

\* jobError.final
Final(d) == delivery[d].outcome = "lasting" \/ delivery[d].attempts + 1 >= MaxAttempts

\* The report as recordClassificationFailure leaves it: a provisional Other becomes the fallback.
FailedReport(code) ==
  [report EXCEPT !.aiStatus = "FAILED", !.token = None, !.failure = code,
                 !.source = IF report.source = "PENDING" THEN "FALLBACK" ELSE report.source]

Record(d, state) ==
  /\ delivery[d].pc = "record"
  /\ Fenced(d)
  /\ entry' = [entry EXCEPT ![delivery[d].entry] =
       [@ EXCEPT !.state = state, !.attempts = delivery[d].attempts + 1, !.token = None]]
  /\ delivery' = [delivery EXCEPT ![d] = Free]
  /\ UNCHANGED faults

RecordDone(d) == delivery[d].outcome = "ok" /\ Record(d, "DONE") /\ UNCHANGED report

RecordRetry(d) ==
  delivery[d].outcome # "ok" /\ ~Final(d) /\ Record(d, "OPEN") /\ UNCHANGED report

\* Mutant of RecordFailed: only the job fails.
RecordFailedJobOnly(d, code) ==
  /\ delivery[d].outcome # "ok" /\ Final(d)
  /\ Record(d, "FAILED")
  /\ UNCHANGED report

\* atomicFinalFailure: the job and its report fail in one transaction.
RecordFailed(d, code) ==
  /\ delivery[d].outcome # "ok" /\ Final(d)
  /\ delivery[d].outcome = "lasting" => code = "lasting"
  /\ Record(d, "FAILED")
  /\ report' = IF IsCurrentPending(d) THEN FailedReport(code) ELSE report

RecordStale(d) ==
  /\ delivery[d].pc = "record"
  /\ ~Fenced(d)
  /\ delivery' = [delivery EXCEPT ![d] = Free]
  /\ UNCHANGED <<report, entry, faults>>

\* The process dies, or the terminal write fails: nothing more comes of the delivery.
Dies(d) ==
  /\ delivery[d].pc # "free"
  /\ Fault("crash")
  /\ delivery' = [delivery EXCEPT ![d] = Free]
  /\ UNCHANGED <<report, entry>>

-------------------------------------------------------------------------------
People ==
  \/ \E hint \in Category \cup {None} : CreateComplaint(hint)
  \/ EditComplaint \/ Withdraw
  \/ ChangePriority
  \/ \E c \in Category : Recategorise(c)
  \/ Reclassify
  \/ \E e \in Entry : RetryJob(e) \/ DismissJob(e)

DeliveryNext(d) ==
  \/ ClaimReport(d) \/ Load(d)
  \/ \E failure \in {"retryable", "lasting"} : HandlerFails(d, failure)
  \/ \E c \in Category, confident \in BOOLEAN : WriteResult(d, c, confident)
  \/ Reload(d)
  \/ RecordDone(d) \/ RecordRetry(d) \/ RecordStale(d)
  \/ \E code \in {"passing", "lasting"} : RecordFailed(d, code)

Next ==
  \/ People
  \/ SweepFailed
  \/ \E d \in Delivery : DeliveryNext(d) \/ DatabaseFails(d) \/ Dies(d)
  \/ \E e \in Entry : Claim(e) \/ UnknownType(e)

Spec == Init /\ [][Next]_vars

\* A delivery under way goes on, and an entry that may run is delivered again: EveryJobEnds of
\* JobPipeline.  Nobody has to ask for anything, and nothing has to fail.
Fairness ==
  /\ \A d \in Delivery : WF_vars(DeliveryNext(d))
  /\ \A e \in Entry : WF_vars(Claim(e) /\ UNCHANGED faults)

FairSpec == Spec /\ Fairness

-------------------------------------------------------------------------------
(* Properties.                                                                 *)

TypeOK ==
  /\ report \in Report
  /\ entry \in [Entry -> EntryRecord]
  /\ delivery \in [Delivery -> DeliveryRecord]
  /\ faults \in Nat

\* A stored classification is of the description the report has now: a material edit that lands while
\* the photo is read, the provider answers or a write is decided again drops the older answer.
ResultOfCurrentText == report.aiStatus = "DONE" => report.classified = report.analysisCount

\* What staff decided, the AI never changes (Complaint.js, categorySource and prioritySource),
\* however long ago the delivery loaded the report.
StaffDecisionKept == [][
  /\ report.source = "STAFF" /\ report'.category # report.category => \E c \in Category : Recategorise(c)
  /\ report.source = "STAFF" => report'.source = "STAFF"
  /\ report.prioritySource = "STAFF" => report'.prioritySource = "STAFF"]_vars

\* The category a citizen chose stays until staff change it (README.md, AI classification).
CitizenChoiceKept ==
  report.citizen # None =>
    report.source = "STAFF" \/ (report.source = "CITIZEN" /\ report.category = report.citizen)

\* A withdrawn report is not touched again: not by a delivery that is still classifying it, not by a
\* final failure, a retried job or the sweep.
WithdrawnKept == [][report.status = "WITHDRAWN" => UNCHANGED report]_vars

\* The "AI disagrees" list shows only reports whose citizen's choice is still open: no answer decided
\* before staff settled the category, or before a new request, leaves a disagreement behind.
DisagreementIsOpen == report.disagreement => report.source = "CITIZEN" /\ report.aiStatus = "DONE"

\* A job recorded as done answered its request, across takeovers, duplicate deliveries and stale
\* exits, which also count as success.
DoneJobAnswered == \A e \in Entry :
  entry[e].state = "DONE" /\ entry[e].requestSeq = report.requestSeq /\ Live => report.aiStatus # "PENDING"

\* WRITE_TRIES is enough (aiJobs.js:98 is never reached): the category and the priority can each
\* become a staff decision once, so a third write finds the report as it was loaded.
WriteTriesSuffice == \A d \in Delivery :
  delivery[d].pc = "reload" /\ Exhausted(d) => ~IsCurrentPending(d)

\* A report that says it is being classified (domainErrors.js:9) has a job that may still run.
PendingHasJob ==
  Live /\ report.aiStatus = "PENDING" =>
    \E e \in Entry : entry[e].state = "OPEN" /\ entry[e].requestSeq = report.requestSeq

\* Every request is answered, with a result or with a failure, unless the report is withdrawn.
EveryRequestAnswered == (Live /\ report.aiStatus = "PENDING") ~> (~Live \/ report.aiStatus # "PENDING")

\* What the report says of its classification fits the latest request and what people chose, on a state
\* of the right types, however late an answer comes (aiJobs.js:86-98).
AnswersFit == TypeOK /\ ResultOfCurrentText /\ CitizenChoiceKept /\ DisagreementIsOpen /\ DoneJobAnswered

\* No late answer touches what staff decided, or a report that was withdrawn (aiJobs.js:52-66, 90).
DecisionsKept == StaffDecisionKept /\ WithdrawnKept
===============================================================================
