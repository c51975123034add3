------------------------- MODULE ClassificationProofs -------------------------
(* Proofs about Classification, for every number of jobs, deliveries,          *)
(* categories, requests and failures, and whichever kinds of failure happen.   *)
EXTENDS Classification, TLAPS

-------------------------------------------------------------------------------
(* What a step may do to the report, to the jobs and to the deliveries.        *)

\* A new request: the answer of the one before it is dropped, and a material edit has a new text.
Asks ==
  /\ Live
  /\ \/ report' = Asked(report)
     \/ report' = [Asked(report) EXCEPT !.analysisCount = report.analysisCount + 1]

\* An answer reaches the report, whatever its delivery learns of it.
Answers(d) ==
  /\ delivery[d].pc = "write" /\ Unchanged(d)
  /\ \E c \in Category, confident \in BOOLEAN : report' = Decided(report, d, c, confident)
  /\ UNCHANGED entry

\* The report fails with its job.
FailsWith(d) ==
  /\ delivery[d].pc = "record" /\ IsCurrentPending(d)
  /\ \E code \in {"passing", "lasting"} : report' = FailedReport(code)

\* Every step that changes the report is one of these.
LEMMA ReportSteps ==
  [Next]_vars =>
    \/ UNCHANGED report
    \/ \E hint \in Category \cup {None} : CreateComplaint(hint)
    \/ Asks
    \/ Withdraw \/ ChangePriority \/ \E c \in Category : Recategorise(c)
    \/ \E d \in Delivery : ClaimReport(d) \/ Answers(d) \/ FailsWith(d)
<1> SUFFICES ASSUME Next PROVE
    \/ UNCHANGED report
    \/ \E hint \in Category \cup {None} : CreateComplaint(hint)
    \/ Asks
    \/ Withdraw \/ ChangePriority \/ \E c \in Category : Recategorise(c)
    \/ \E d \in Delivery : ClaimReport(d) \/ Answers(d) \/ FailsWith(d)
  BY DEF vars
<1>1. CASE People \/ SweepFailed
  BY <1>1 DEF People, SweepFailed, Asks, EditComplaint, Reclassify, RequestClassification, RetryJob, DismissJob
<1>2. ASSUME NEW d \in Delivery, DeliveryNext(d)
      PROVE  UNCHANGED report \/ ClaimReport(d) \/ Answers(d) \/ FailsWith(d)
  BY <1>2 DEF DeliveryNext, Load, HandlerFails, WriteResult, Reload, RecordDone, RecordRetry, RecordStale,
              RecordFailed, Record, Answers, FailsWith
<1>3. ASSUME NEW d \in Delivery, DatabaseFails(d) PROVE UNCHANGED report \/ Answers(d)
  BY <1>3 DEF DatabaseFails, Answers
<1>4. ASSUME NEW d \in Delivery, Dies(d) PROVE UNCHANGED report
  BY <1>4 DEF Dies
<1>5. ASSUME NEW e \in Entry, Claim(e) \/ UnknownType(e) PROVE UNCHANGED report
  BY <1>5 DEF Claim, UnknownType
<1> QED BY <1>1, <1>2, <1>3, <1>4, <1>5 DEF Next

-------------------------------------------------------------------------------
(* Types.                                                                      *)

\* The fields a new request, an answer and a failure write are well-formed.
LEMMA ReportType == TypeOK /\ [Next]_vars => report' \in Report
<1> SUFFICES ASSUME TypeOK, [Next]_vars PROVE report' \in Report
  OBVIOUS
<1>0. report \in Report /\ Other \in Category
  BY NamesAssumption DEF TypeOK
<1>1. ASSUME NEW hint \in Category \cup {None}, CreateComplaint(hint) PROVE report' \in Report
  BY <1>0, <1>1 DEF CreateComplaint, Report, Status, Source
<1>2. CASE Asks
  <2>0. report.requestSeq + 1 \in Nat
    BY <1>0 DEF Report
  <2>1. Asked(report) \in Report
    BY <1>0, <2>0 DEF Asked, Report
  <2>2. report.analysisCount + 1 \in Nat
    BY <1>0 DEF Report
  <2>3. [Asked(report) EXCEPT !.analysisCount = report.analysisCount + 1] \in Report
    BY <2>1, <2>2 DEF Report
  <2> QED BY <1>2, <2>1, <2>3 DEF Asks
<1>3. CASE Withdraw \/ ChangePriority
  BY <1>0, <1>3 DEF Withdraw, ChangePriority, Report, Status, PrioritySource
<1>4. ASSUME NEW c \in Category, Recategorise(c) PROVE report' \in Report
  BY <1>0, <1>4 DEF Recategorise, Report, Source
<1>5. ASSUME NEW d \in Delivery, ClaimReport(d) PROVE report' \in Report
  BY <1>0, <1>5 DEF ClaimReport, Report
<1>6. ASSUME NEW d \in Delivery, Answers(d) PROVE report' \in Report
  <2>1. PICK c \in Category, confident \in BOOLEAN : report' = Decided(report, d, c, confident)
    BY <1>6 DEF Answers
  <2>2. delivery[d].description \in Nat
    BY DEF TypeOK, DeliveryRecord
  <2> DEFINE seen == delivery[d]
             category == IF seen.source \in AI_MAY_SET THEN c ELSE report.category
             source == IF seen.source \in AI_MAY_SET THEN "AI" ELSE report.source
             priority == IF seen.prioritySource = "STAFF" THEN report.prioritySource ELSE "AI"
             differs == seen.source = "CITIZEN" /\ c # report.category /\ confident
  <2>3. /\ category \in Category /\ source \in Source /\ priority \in PrioritySource
        /\ differs \in BOOLEAN
    BY <1>0 DEF Report, Source, PrioritySource
  <2>4. report' = [report EXCEPT !.aiStatus = "DONE", !.token = None, !.failure = "none",
                     !.classified = seen.description, !.category = category, !.source = source,
                     !.disagreement = differs, !.prioritySource = priority]
    BY <2>1 DEF Decided
  <2> HIDE DEF category, source, priority, differs
  <2> QED BY <1>0, <2>2, <2>3, <2>4 DEF Report
<1>7. ASSUME NEW d \in Delivery, FailsWith(d) PROVE report' \in Report
  BY <1>0, <1>7 DEF FailsWith, FailedReport, Report, Source
<1> QED BY <1>0, <1>1, <1>2, <1>3, <1>4, <1>5, <1>6, <1>7, ReportSteps

\* A request dismisses failed jobs and opens a new one; nothing else of the jobs changes with it.
LEMMA EnqueueType ==
  ASSUME TypeOK, NEW seq \in Nat, EnqueueClassification(seq)
  PROVE  entry' \in [Entry -> EntryRecord]
<1>1. \A r \in EntryRecord : [r EXCEPT !.state = "OPEN", !.requestSeq = seq] \in EntryRecord
                             /\ Dismissed(r) \in EntryRecord
  BY DEF EntryRecord, Dismissed
<1> DEFINE first == CHOOSE f \in {e \in Entry : entry[e].state = "NEW"} : TRUE
<1>2. entry' = [e \in Entry |-> IF e = first THEN [entry[e] EXCEPT !.state = "OPEN", !.requestSeq = seq]
                                            ELSE Dismissed(entry[e])]
  BY DEF EnqueueClassification
<1> HIDE DEF first
<1> QED BY <1>1, <1>2 DEF TypeOK

\* Every step leaves the jobs well-formed.
LEMMA EntryType == TypeOK /\ [Next]_vars => entry' \in [Entry -> EntryRecord]
<1> SUFFICES ASSUME TypeOK, [Next]_vars PROVE entry' \in [Entry -> EntryRecord]
  OBVIOUS
<1>0. /\ entry \in [Entry -> EntryRecord] /\ report.requestSeq + 1 \in Nat /\ 1 \in Nat
      /\ delivery \in [Delivery -> DeliveryRecord]
  BY DEF TypeOK, Report
<1>1. ASSUME NEW e \in Entry PROVE Dismissed(entry[e]) \in EntryRecord
  BY <1>0 DEF Dismissed, EntryRecord
<1>2. ASSUME \/ \E hint \in Category \cup {None} : CreateComplaint(hint)
             \/ RequestClassification \/ EditComplaint
      PROVE  entry' \in [Entry -> EntryRecord]
  BY <1>0, <1>2, EnqueueType DEF CreateComplaint, RequestClassification, EditComplaint
<1>3. ASSUME NEW e \in Entry, RetryJob(e) PROVE entry' \in [Entry -> EntryRecord]
  <2>1. [entry[e] EXCEPT !.state = "OPEN", !.requestSeq = report.requestSeq + 1,
                         !.attempts = 0, !.runKey = entry[e].runKey + 1] \in EntryRecord
    <3>1. entry[e].runKey + 1 \in Nat
      BY <1>0 DEF EntryRecord
    <3> QED BY <1>0, <3>1 DEF EntryRecord
  <2> QED BY <1>1, <1>3, <2>1 DEF RetryJob
<1>4. ASSUME NEW e \in Entry, DismissJob(e) PROVE entry' \in [Entry -> EntryRecord]
  BY <1>0, <1>1, <1>4 DEF DismissJob
<1>5. ASSUME NEW e \in Entry, Claim(e) PROVE entry' \in [Entry -> EntryRecord]
  <2>1. PICK d \in Delivery : entry' = [entry EXCEPT ![e].token = d]
    BY <1>5 DEF Claim, Fresh
  <2> QED BY <1>0, <2>1 DEF EntryRecord
<1>6. ASSUME NEW e \in Entry, UnknownType(e) PROVE entry' \in [Entry -> EntryRecord]
  <2>1. entry[e].attempts + 1 \in Nat
    BY <1>0 DEF EntryRecord
  <2> QED BY <1>0, <1>6, <2>1 DEF UnknownType, EntryRecord
<1>7. ASSUME NEW d \in Delivery, NEW state \in {"OPEN", "DONE", "FAILED"}, Record(d, state)
      PROVE  entry' \in [Entry -> EntryRecord]
  <2>1. delivery[d].attempts + 1 \in Nat
    BY <1>0 DEF DeliveryRecord
  <2>2. CASE delivery[d].entry \in Entry
    <3> DEFINE e == delivery[d].entry
    <3>1. [entry[e] EXCEPT !.state = state, !.attempts = delivery[d].attempts + 1, !.token = None] \in EntryRecord
      BY <1>0, <2>1, <2>2 DEF EntryRecord
    <3> QED BY <1>0, <1>7, <2>2, <3>1 DEF Record
  <2>3. CASE delivery[d].entry \notin Entry
    BY <1>0, <1>7, <2>3 DEF Record
  <2> QED BY <2>2, <2>3
<1>8. ASSUME NEW d \in Delivery, DeliveryNext(d) \/ DatabaseFails(d) \/ Dies(d)
      PROVE  entry' \in [Entry -> EntryRecord]
  BY <1>0, <1>7, <1>8 DEF DeliveryNext, ClaimReport, Load, HandlerFails, WriteResult, Reload, RecordDone,
              RecordRetry, RecordFailed, RecordStale, DatabaseFails, Dies
<1>9. CASE People \/ SweepFailed
  BY <1>0, <1>2, <1>3, <1>4, <1>9 DEF People, SweepFailed, Reclassify, Withdraw, ChangePriority, Recategorise
<1>10. CASE UNCHANGED vars
  BY <1>0, <1>10 DEF vars
<1> QED BY <1>4, <1>5, <1>6, <1>8, <1>9, <1>10 DEF Next

\* A delivery changes only by a claim and by its own steps.
LEMMA DeliverySteps ==
  [Next]_vars => \/ UNCHANGED delivery
                 \/ \E d \in Delivery : DeliveryNext(d) \/ DatabaseFails(d) \/ Dies(d)
                 \/ \E e \in Entry : Claim(e)
BY DEF Next, vars, People, SweepFailed, CreateComplaint, EditComplaint, Reclassify, RequestClassification,
       RetryJob, DismissJob, Withdraw, ChangePriority, Recategorise, UnknownType

\* A delivery that remembers nothing is well-formed.
LEMMA FreeType == Free \in DeliveryRecord
BY DEF Free, DeliveryRecord, Source, PrioritySource

\* Every step leaves the deliveries well-formed.
LEMMA DeliveryType == TypeOK /\ [Next]_vars => delivery' \in [Delivery -> DeliveryRecord]
<1> SUFFICES ASSUME TypeOK, [Next]_vars PROVE delivery' \in [Delivery -> DeliveryRecord]
  OBVIOUS
<1>0. /\ delivery \in [Delivery -> DeliveryRecord] /\ entry \in [Entry -> EntryRecord]
      /\ report.source \in Source /\ report.prioritySource \in PrioritySource
      /\ report.analysisCount \in Nat
  BY DEF TypeOK, Report
<1>1. ASSUME NEW d \in Delivery, NEW outcome \in {"ok", "retryable", "lasting"}, Ends(d, outcome)
      PROVE  delivery' \in [Delivery -> DeliveryRecord]
  <2>1. [delivery[d] EXCEPT !.pc = "record", !.outcome = outcome] \in DeliveryRecord
    BY <1>0 DEF DeliveryRecord
  <2>2. delivery' = [delivery EXCEPT ![d] = [delivery[d] EXCEPT !.pc = "record", !.outcome = outcome]]
    BY <1>0, <1>1 DEF Ends
  <2> QED BY <1>0, <2>1, <2>2
<1>2. ASSUME NEW d \in Delivery, NEW pc \in {"load", "reload"}, Goto(d, pc)
      PROVE  delivery' \in [Delivery -> DeliveryRecord]
  BY <1>0, <1>2 DEF Goto, DeliveryRecord
<1>3. ASSUME NEW d \in Delivery, delivery' = [delivery EXCEPT ![d] = Free]
      PROVE  delivery' \in [Delivery -> DeliveryRecord]
  BY <1>0, <1>3, FreeType
<1>4. ASSUME NEW d \in Delivery, Load(d) PROVE delivery' \in [Delivery -> DeliveryRecord]
  <2>1. [delivery[d] EXCEPT !.pc = "write", !.source = report.source, !.prioritySource = report.prioritySource,
                            !.description = report.analysisCount] \in DeliveryRecord
    BY <1>0 DEF DeliveryRecord
  <2> QED BY <1>0, <1>1, <1>4, <2>1 DEF Load
<1>5. ASSUME NEW d \in Delivery, Reload(d) PROVE delivery' \in [Delivery -> DeliveryRecord]
  <2>1. delivery[d].tries + 1 \in Nat
    BY <1>0 DEF DeliveryRecord
  <2>2. [delivery[d] EXCEPT !.pc = "write", !.source = report.source, !.prioritySource = report.prioritySource,
                            !.tries = delivery[d].tries + 1] \in DeliveryRecord
    BY <1>0, <2>1 DEF DeliveryRecord
  <2> QED BY <1>0, <1>1, <1>5, <2>2 DEF Reload
<1>6. ASSUME NEW e \in Entry, Claim(e) PROVE delivery' \in [Delivery -> DeliveryRecord]
  <2> DEFINE r == [Free EXCEPT !.pc = "claimReport", !.entry = e, !.requestSeq = entry[e].requestSeq,
                               !.runKey = entry[e].runKey, !.attempts = entry[e].attempts]
  <2>1. r \in DeliveryRecord
    BY <1>0, FreeType DEF EntryRecord, DeliveryRecord
  <2>2. PICK d \in Delivery : delivery' = [delivery EXCEPT ![d] = r]
    BY <1>6 DEF Claim, Fresh
  <2> QED BY <1>0, <2>1, <2>2
<1>7. ASSUME NEW d \in Delivery, DeliveryNext(d) \/ DatabaseFails(d) \/ Dies(d)
      PROVE  delivery' \in [Delivery -> DeliveryRecord]
  <2>1. \/ Load(d) \/ Reload(d)
        \/ \E pc \in {"load", "reload"} : Goto(d, pc)
        \/ \E outcome \in {"ok", "retryable", "lasting"} : Ends(d, outcome)
        \/ delivery' = [delivery EXCEPT ![d] = Free]
    BY <1>7 DEF DeliveryNext, ClaimReport, HandlerFails, WriteResult, RecordDone, RecordRetry, RecordFailed,
                RecordStale, Record, DatabaseFails, Dies
  <2> QED BY <1>1, <1>2, <1>3, <1>4, <1>5, <2>1
<1> QED BY <1>0, <1>6, <1>7, DeliverySteps

\* The report, its jobs and the deliveries keep their types.
THEOREM TypeCorrect == Spec => []TypeOK
<1>1. Init => TypeOK
  <2> SUFFICES ASSUME Init PROVE TypeOK
    OBVIOUS
  <2>1. report \in Report
    BY NamesAssumption DEF Init, Report, Status, Source, PrioritySource
  <2> QED BY <2>1, FreeType DEF Init, TypeOK, EntryRecord
<1>2. TypeOK /\ [Next]_vars => TypeOK'
  <2>1. ASSUME TypeOK, [Next]_vars PROVE faults' \in Nat
    <3>1. CASE People \/ SweepFailed
      BY <2>1, <3>1 DEF People, SweepFailed, CreateComplaint, EditComplaint, Reclassify, RequestClassification,
                        RetryJob, DismissJob, Withdraw, ChangePriority, Recategorise, TypeOK
    <3>2. ASSUME NEW d \in Delivery, DeliveryNext(d) \/ DatabaseFails(d) \/ Dies(d) PROVE faults' \in Nat
      BY <2>1, <3>2 DEF DeliveryNext, ClaimReport, Load, HandlerFails, WriteResult, Reload, RecordDone, RecordRetry,
                        RecordFailed, RecordStale, Record, DatabaseFails, Dies, Fault, TypeOK
    <3>3. ASSUME NEW e \in Entry, Claim(e) \/ UnknownType(e) PROVE faults' \in Nat
      BY <2>1, <3>3 DEF Claim, UnknownType, MayTakeOver, Fault, TypeOK
    <3>4. CASE UNCHANGED vars
      BY <2>1, <3>4 DEF vars, TypeOK
    <3> QED BY <2>1, <3>1, <3>2, <3>3, <3>4 DEF Next
  <2> QED BY <2>1, ReportType, EntryType, DeliveryType DEF TypeOK
<1> QED BY <1>1, <1>2, PTL DEF Spec

-------------------------------------------------------------------------------
(* The report.                                                                 *)

\* A report that is not filed yet has no request, no answer, no jobs and no deliveries.
Unfiled ==
  report.status = "NONE" =>
    /\ report.aiStatus = "PENDING" /\ report.source = "PENDING" /\ report.requestSeq = 0
    /\ report.token = None
    /\ \A e \in Entry : entry[e].state = "NEW"
    /\ \A d \in Delivery : delivery[d].pc = "free"

\* The text a delivery sent to the provider is the report's, as long as the report carries its token.
SentIsCurrent ==
  \A d \in Delivery : delivery[d].pc \in {"write", "reload"} /\ report.token = d =>
                       delivery[d].description = report.analysisCount

ReportInv == Unfiled /\ SentIsCurrent /\ ResultOfCurrentText /\ CitizenChoiceKept /\ DisagreementIsOpen

\* The jobs of an unfiled report are all unwritten; nothing but its creation changes it or them.
LEMMA UnfiledStep == TypeOK /\ Unfiled /\ [Next]_vars => Unfiled'
<1> SUFFICES ASSUME TypeOK, Unfiled, [Next]_vars, report'.status = "NONE"
             PROVE UNCHANGED <<report, entry, delivery>> /\ Unfiled
  BY DEF Unfiled
<1>0. report \in Report
  BY DEF TypeOK
<1>1. report.status = "NONE" /\ UNCHANGED report
  <2>1. ASSUME NEW d \in Delivery, FailsWith(d) PROVE FALSE
    BY <1>0, <2>1 DEF FailsWith, IsCurrentPending, Awaited, Live, FailedReport, Report
  <2>2. ASSUME NEW d \in Delivery, Answers(d) PROVE FALSE
    BY <1>0, <2>2 DEF Answers, Unchanged, IsCurrentPending, Awaited, Live, Decided, Report
  <2>3. ASSUME NEW d \in Delivery, ClaimReport(d) PROVE UNCHANGED report
    BY <1>0, <2>3 DEF ClaimReport, Awaited, Live, Report
  <2>4. CASE Asks \/ Withdraw \/ ChangePriority \/ \E c \in Category : Recategorise(c)
    BY <1>0, <2>4 DEF Asks, Asked, Withdraw, ChangePriority, Recategorise, Live, Report
  <2>5. ASSUME NEW hint \in Category \cup {None}, CreateComplaint(hint) PROVE FALSE
    BY <1>0, <2>5 DEF CreateComplaint, Report
  <2> QED BY <2>1, <2>2, <2>3, <2>4, <2>5, ReportSteps
<1>2. /\ ~Live /\ \A e \in Entry : entry[e].state = "NEW"
      /\ \A d \in Delivery : delivery[d].pc = "free"
  BY <1>1 DEF Live, Unfiled
<1>3. CASE People \/ SweepFailed
  <2>1. ASSUME NEW hint \in Category \cup {None}, CreateComplaint(hint) PROVE FALSE
    BY <1>0, <1>1, <2>1 DEF CreateComplaint, Report
  <2>2. ASSUME NEW e \in Entry, RetryJob(e) \/ DismissJob(e) PROVE FALSE
    BY <1>2, <2>2 DEF RetryJob, DismissJob
  <2> QED BY <1>2, <1>3, <2>1, <2>2 DEF People, SweepFailed, EditComplaint, Reclassify, RequestClassification,
                                        Withdraw, ChangePriority, Recategorise
<1>4. ASSUME NEW d \in Delivery, DeliveryNext(d) \/ DatabaseFails(d) \/ Dies(d) PROVE FALSE
  BY <1>2, <1>4 DEF DeliveryNext, ClaimReport, Load, HandlerFails, WriteResult, Reload, RecordDone, RecordRetry,
                    RecordFailed, RecordStale, Record, DatabaseFails, Dies
<1>5. ASSUME NEW e \in Entry, Claim(e) \/ UnknownType(e) PROVE FALSE
  BY <1>2, <1>5 DEF Claim, UnknownType
<1> QED BY <1>1, <1>3, <1>4, <1>5 DEF Next, vars

\* A delivery keeps the text it sent until it is free again, and a report its token until a new request.
LEMMA SentStep == TypeOK /\ Unfiled /\ SentIsCurrent /\ [Next]_vars => SentIsCurrent'
<1> SUFFICES ASSUME TypeOK, Unfiled, SentIsCurrent, [Next]_vars,
                    NEW d \in Delivery, delivery'[d].pc \in {"write", "reload"}, report'.token = d
             PROVE  delivery'[d].description = report'.analysisCount
  BY DEF SentIsCurrent
<1>0. report \in Report /\ delivery \in [Delivery -> DeliveryRecord] /\ None \notin Delivery
  BY NamesAssumption DEF TypeOK
<1>4. \A outcome : ~Ends(d, outcome)
  BY <1>0 DEF Ends, DeliveryRecord
<1>5. ASSUME NEW pc, Goto(d, pc) PROVE pc = delivery'[d].pc /\ delivery'[d].description = delivery[d].description
  BY <1>0, <1>5 DEF Goto, DeliveryRecord
<1>6. delivery' # [delivery EXCEPT ![d] = Free]
  BY <1>0 DEF Free
<1>1. \/ delivery[d].pc \in {"write", "reload"} /\ delivery'[d].description = delivery[d].description
      \/ Load(d) /\ report.token = d /\ delivery'[d].description = report.analysisCount /\ UNCHANGED report
  <2>1. ASSUME NEW f \in Delivery, DeliveryNext(f) \/ DatabaseFails(f) \/ Dies(f), f # d
        PROVE  UNCHANGED delivery[d]
    BY <1>0, <2>1 DEF DeliveryNext, ClaimReport, Load, HandlerFails, WriteResult, Reload, RecordDone, RecordRetry,
                      RecordFailed, RecordStale, Record, DatabaseFails, Dies, Ends, Goto
  <2>2. ASSUME Load(d) PROVE report.token = d /\ delivery'[d].description = report.analysisCount /\ UNCHANGED report
    <3>1. IsCurrentPending(d) /\ delivery'[d] = [delivery[d] EXCEPT !.pc = "write", !.source = report.source,
                                 !.prioritySource = report.prioritySource, !.description = report.analysisCount]
      BY <1>0, <1>4, <2>2 DEF Load
    <3>2. delivery[d] \in DeliveryRecord
      BY <1>0
    <3> QED BY <2>2, <3>1, <3>2 DEF Load, IsCurrentPending, DeliveryRecord
  <2>3. ASSUME ClaimReport(d) \/ (\E failure \in {"retryable", "lasting"} : HandlerFails(d, failure))
               \/ DatabaseFails(d) \/ Dies(d) \/ (\E state \in {"DONE", "OPEN", "FAILED"} : Record(d, state))
               \/ RecordStale(d)
        PROVE  FALSE
    BY <1>4, <1>5, <1>6, <2>3 DEF ClaimReport, HandlerFails, DatabaseFails, Dies, Record, RecordStale
  <2>4. ASSUME Reload(d) \/ \E c \in Category, confident \in BOOLEAN : WriteResult(d, c, confident)
        PROVE  delivery[d].pc \in {"write", "reload"} /\ delivery'[d].description = delivery[d].description
    <3>1. ASSUME Reload(d) PROVE delivery[d].pc = "reload" /\ delivery'[d] = [delivery[d] EXCEPT !.pc = "write",
            !.source = report.source, !.prioritySource = report.prioritySource, !.tries = delivery[d].tries + 1]
      BY <1>0, <1>4, <3>1 DEF Reload
    <3>2. delivery[d] \in DeliveryRecord
      BY <1>0
    <3>3. ASSUME Reload(d) PROVE delivery'[d].description = delivery[d].description
      BY <3>1, <3>2, <3>3 DEF DeliveryRecord
    <3> QED BY <1>4, <1>5, <2>4, <3>1, <3>3 DEF WriteResult
  <2>5. ASSUME NEW e \in Entry, Claim(e) PROVE UNCHANGED delivery[d]
    <3>1. PICK f \in Delivery : \E r : r.pc = "claimReport" /\ delivery' = [delivery EXCEPT ![f] = r]
      BY <2>5 DEF Claim, Fresh, Free
    <3> QED BY <1>0, <3>1
  <2> QED BY <2>1, <2>2, <2>3, <2>4, <2>5, DeliverySteps
          DEF DeliveryNext, RecordDone, RecordRetry, RecordFailed
<1>2. (report.token = d /\ UNCHANGED report.analysisCount) \/ ClaimReport(d)
  <2>1. ASSUME Asks PROVE FALSE
    BY <1>0, <2>1 DEF Asks, Asked, Report
  <2>2. ASSUME NEW hint \in Category \cup {None}, CreateComplaint(hint) PROVE FALSE
    BY <1>0, <2>2 DEF CreateComplaint, Report, Unfiled
  <2>3. CASE Withdraw \/ ChangePriority \/ \E c \in Category : Recategorise(c)
    BY <1>0, <2>3 DEF Withdraw, ChangePriority, Recategorise, Report
  <2>4. ASSUME NEW f \in Delivery, Answers(f) \/ FailsWith(f) PROVE FALSE
    BY <1>0, <2>4 DEF Answers, FailsWith, Decided, FailedReport, Report
  <2>5. ASSUME NEW f \in Delivery, ClaimReport(f)
        PROVE  (report.token = d /\ UNCHANGED report.analysisCount) \/ ClaimReport(d)
    BY <1>0, <2>5 DEF ClaimReport, Report
  <2> QED BY <2>1, <2>2, <2>3, <2>4, <2>5, ReportSteps
<1>3. ~ClaimReport(d)
  BY <1>4, <1>5 DEF ClaimReport
<1> QED BY <1>1, <1>2, <1>3 DEF SentIsCurrent

\* An answer is of the text its delivery sent, which is the report's while it carries the token.
LEMMA ResultStep ==
  TypeOK /\ Unfiled /\ SentIsCurrent /\ ResultOfCurrentText /\ [Next]_vars => ResultOfCurrentText'
<1> SUFFICES ASSUME TypeOK, Unfiled, SentIsCurrent, ResultOfCurrentText, [Next]_vars PROVE ResultOfCurrentText'
  OBVIOUS
<1>0. report \in Report
  BY DEF TypeOK
<1>1. CASE Asks
  BY <1>0, <1>1 DEF Asks, Asked, Report, ResultOfCurrentText
<1>2. ASSUME NEW hint \in Category \cup {None}, CreateComplaint(hint) PROVE ResultOfCurrentText'
  BY <1>0, <1>2 DEF CreateComplaint, Unfiled, Report, ResultOfCurrentText
<1>3. CASE Withdraw \/ ChangePriority \/ \E c \in Category : Recategorise(c)
  BY <1>0, <1>3 DEF Withdraw, ChangePriority, Recategorise, Report, ResultOfCurrentText
<1>4. ASSUME NEW d \in Delivery, ClaimReport(d) PROVE ResultOfCurrentText'
  BY <1>0, <1>4 DEF ClaimReport, Report, ResultOfCurrentText
<1>5. ASSUME NEW d \in Delivery, Answers(d) PROVE ResultOfCurrentText'
  <2>1. report.token = d /\ delivery[d].pc = "write"
    BY <1>5 DEF Answers, Unchanged, IsCurrentPending
  <2>2. delivery[d].description = report.analysisCount
    BY <2>1 DEF SentIsCurrent
  <2> QED BY <1>0, <1>5, <2>2 DEF Answers, Decided, Report, ResultOfCurrentText
<1>6. ASSUME NEW d \in Delivery, FailsWith(d) PROVE ResultOfCurrentText'
  BY <1>0, <1>6 DEF FailsWith, FailedReport, Report, ResultOfCurrentText
<1> QED BY <1>1, <1>2, <1>3, <1>4, <1>5, <1>6, ReportSteps DEF ResultOfCurrentText

\* An answer is written over the sources it was decided from only.
LEMMA AnswerKeepsSources ==
  ASSUME TypeOK, NEW d \in Delivery, Answers(d)
  PROVE  /\ report.source \notin AI_MAY_SET => UNCHANGED <<report.source, report.category>>
         /\ report.prioritySource = "STAFF" => UNCHANGED report.prioritySource
         /\ report'.disagreement => report.source = "CITIZEN"
         /\ report'.citizen = report.citizen /\ report'.aiStatus = "DONE" /\ Live
BY ZenonT(60) DEF Answers, Unchanged, IsCurrentPending, Awaited, Decided, TypeOK, Report

\* A category the citizen chose is replaced by nothing but staff.
LEMMA ChoiceStep ==
  TypeOK /\ CitizenChoiceKept /\ [Next]_vars => CitizenChoiceKept'
<1> SUFFICES ASSUME TypeOK, CitizenChoiceKept, [Next]_vars PROVE CitizenChoiceKept'
  OBVIOUS
<1>0. report \in Report /\ None \notin Category
  BY NamesAssumption DEF TypeOK
<1>1. CASE Asks
  BY <1>0, <1>1 DEF Asks, Asked, Report, CitizenChoiceKept
<1>2. ASSUME NEW hint \in Category \cup {None}, CreateComplaint(hint) PROVE CitizenChoiceKept'
  BY <1>0, <1>2 DEF CreateComplaint, Report, CitizenChoiceKept
<1>3. CASE Withdraw \/ ChangePriority \/ \E c \in Category : Recategorise(c)
  BY <1>0, <1>3 DEF Withdraw, ChangePriority, Recategorise, Report, CitizenChoiceKept
<1>4. ASSUME NEW d \in Delivery, ClaimReport(d) PROVE CitizenChoiceKept'
  BY <1>0, <1>4 DEF ClaimReport, Report, CitizenChoiceKept
<1>5. ASSUME NEW d \in Delivery, Answers(d) PROVE CitizenChoiceKept'
  BY <1>5, AnswerKeepsSources DEF CitizenChoiceKept, AI_MAY_SET
<1>6. ASSUME NEW d \in Delivery, FailsWith(d) PROVE CitizenChoiceKept'
  BY <1>0, <1>6 DEF FailsWith, FailedReport, Report, CitizenChoiceKept
<1> QED BY <1>1, <1>2, <1>3, <1>4, <1>5, <1>6, ReportSteps DEF CitizenChoiceKept

\* A disagreement is written with an answer only, over the citizen's own choice, and every step that
\* settles the category or asks again removes it.
LEMMA DisagreementStep ==
  TypeOK /\ Unfiled /\ DisagreementIsOpen /\ [Next]_vars => DisagreementIsOpen'
<1> SUFFICES ASSUME TypeOK, Unfiled, DisagreementIsOpen, [Next]_vars PROVE DisagreementIsOpen'
  OBVIOUS
<1>0. report \in Report
  BY DEF TypeOK
<1>1. CASE Asks
  BY <1>0, <1>1 DEF Asks, Asked, Report, DisagreementIsOpen
<1>2. ASSUME NEW hint \in Category \cup {None}, CreateComplaint(hint) PROVE DisagreementIsOpen'
  BY <1>0, <1>2 DEF CreateComplaint, Unfiled, Report, DisagreementIsOpen
<1>3. CASE Withdraw \/ ChangePriority \/ \E c \in Category : Recategorise(c)
  BY <1>0, <1>3 DEF Withdraw, ChangePriority, Recategorise, Report, DisagreementIsOpen
<1>4. ASSUME NEW d \in Delivery, ClaimReport(d) PROVE DisagreementIsOpen'
  BY <1>0, <1>4 DEF ClaimReport, Report, DisagreementIsOpen
<1>5. ASSUME NEW d \in Delivery, Answers(d) PROVE DisagreementIsOpen'
  BY <1>5, AnswerKeepsSources DEF DisagreementIsOpen, AI_MAY_SET
<1>6. ASSUME NEW d \in Delivery, FailsWith(d) PROVE DisagreementIsOpen'
  BY <1>0, <1>6 DEF FailsWith, IsCurrentPending, Awaited, FailedReport, Report, DisagreementIsOpen
<1> QED BY <1>1, <1>2, <1>3, <1>4, <1>5, <1>6, ReportSteps DEF DisagreementIsOpen

\* The invariant of the report holds.
LEMMA ReportInvariant == Spec => [](TypeOK /\ ReportInv)
<1>1. Init => ReportInv
  BY DEF Init, Free, ReportInv, Unfiled, SentIsCurrent, ResultOfCurrentText, CitizenChoiceKept, DisagreementIsOpen
<1>2. TypeOK /\ ReportInv /\ [Next]_vars => ReportInv'
  BY UnfiledStep, SentStep, ResultStep, ChoiceStep, DisagreementStep DEF ReportInv
<1> QED BY <1>1, <1>2, TypeCorrect, PTL DEF Spec

\* A stored classification is of the description the report has now.
THEOREM ResultIsOfCurrentText == Spec => []ResultOfCurrentText
<1>1. ReportInv => ResultOfCurrentText
  BY DEF ReportInv
<1> QED BY <1>1, ReportInvariant, PTL

\* The category a citizen chose stays until staff change it.
THEOREM CitizenChoiceIsKept == Spec => []CitizenChoiceKept
<1>1. ReportInv => CitizenChoiceKept
  BY DEF ReportInv
<1> QED BY <1>1, ReportInvariant, PTL

\* The "AI disagrees" list shows only reports whose citizen's choice is still open.
THEOREM DisagreementsAreOpen == Spec => []DisagreementIsOpen
<1>1. ReportInv => DisagreementIsOpen
  BY DEF ReportInv
<1> QED BY <1>1, ReportInvariant, PTL

\* What staff decided, the AI never changes.
THEOREM StaffDecisionsAreKept == Spec => StaffDecisionKept
<1> DEFINE Kept ==
      /\ report.source = "STAFF" /\ report'.category # report.category => \E c \in Category : Recategorise(c)
      /\ report.source = "STAFF" => report'.source = "STAFF"
      /\ report.prioritySource = "STAFF" => report'.prioritySource = "STAFF"
<1>1. TypeOK /\ ReportInv /\ [Next]_vars => [Kept]_vars
  <2> SUFFICES ASSUME TypeOK, Unfiled, [Next]_vars PROVE Kept
    BY DEF ReportInv
  <2>0. report \in Report
    BY DEF TypeOK
  <2>1. CASE Asks
    BY <2>0, <2>1 DEF Asks, Asked, Report
  <2>2. ASSUME NEW hint \in Category \cup {None}, CreateComplaint(hint) PROVE Kept
    BY <2>0, <2>2 DEF CreateComplaint, Unfiled, Report
  <2>3. CASE Withdraw \/ ChangePriority
    BY <2>0, <2>3 DEF Withdraw, ChangePriority, Report
  <2>4. ASSUME NEW c \in Category, Recategorise(c) PROVE Kept
    BY <2>0, <2>4 DEF Recategorise, Report
  <2>5. ASSUME NEW d \in Delivery, ClaimReport(d) PROVE Kept
    BY <2>0, <2>5 DEF ClaimReport, Report
  <2>6. ASSUME NEW d \in Delivery, Answers(d) PROVE Kept
    BY <2>6, AnswerKeepsSources DEF AI_MAY_SET
  <2>7. ASSUME NEW d \in Delivery, FailsWith(d) PROVE Kept
    BY <2>0, <2>7 DEF FailsWith, FailedReport, Report
  <2> QED BY <2>1, <2>2, <2>3, <2>4, <2>5, <2>6, <2>7, ReportSteps
<1> QED BY <1>1, ReportInvariant, PTL DEF Spec, StaffDecisionKept

\* A withdrawn report is not touched again.
THEOREM WithdrawnIsKept == Spec => WithdrawnKept
<1> DEFINE Kept == report.status = "WITHDRAWN" => UNCHANGED report
<1>1. [Next]_vars => [Kept]_vars
  <2> SUFFICES ASSUME [Next]_vars, report.status = "WITHDRAWN" PROVE UNCHANGED report
    OBVIOUS
  <2>1. ASSUME NEW d \in Delivery, ClaimReport(d) \/ Answers(d) \/ FailsWith(d) PROVE UNCHANGED report
    BY <2>1 DEF ClaimReport, Answers, FailsWith, Unchanged, IsCurrentPending, Awaited, Live
  <2> QED BY <2>1, ReportSteps DEF CreateComplaint, Asks, Withdraw, ChangePriority, Recategorise, Live
<1> QED BY <1>1, PTL DEF Spec, WithdrawnKept

-------------------------------------------------------------------------------
(* The jobs.                                                                   *)

\* Jobs that were written are for requests made so far, each for its own.
SeqsPast == \A e \in Entry : entry[e].requestSeq <= report.requestSeq
SeqsDistinct ==
  \A e, f \in Entry : e # f /\ entry[e].state # "NEW" /\ entry[f].state # "NEW" =>
                       entry[e].requestSeq # entry[f].requestSeq

\* A delivery under way is of a written job, and of its present request while it holds the job.
OfAJob ==
  \A d \in Delivery : delivery[d].pc # "free" =>
    /\ delivery[d].entry \in Entry
    /\ entry[delivery[d].entry].state # "NEW"
    /\ delivery[d].runKey <= entry[delivery[d].entry].runKey
    /\ HoldsEntry(d) => entry[delivery[d].entry].requestSeq = delivery[d].requestSeq

\* The delivery that holds the job also holds the report, until the request is answered.
TokenKept ==
  \A d \in Delivery : delivery[d].pc \in {"load", "write", "reload"} /\ HoldsEntry(d) /\ Awaited(d) =>
                       report.token = d

\* The delivery that holds the job succeeds only once the request is answered, or given up.
OkIsAnswered ==
  \A d \in Delivery : delivery[d].pc = "record" /\ delivery[d].outcome = "ok" /\ HoldsEntry(d) => ~Awaited(d)

JobInv == SeqsPast /\ SeqsDistinct /\ OfAJob /\ TokenKept /\ OkIsAnswered /\ DoneJobAnswered

\* A step that asks anew, with a new job or with one that runs again.
Requests ==
  /\ UNCHANGED delivery
  /\ report'.requestSeq = report.requestSeq + 1
  /\ \/ EnqueueClassification(report.requestSeq + 1)
     \/ \E e \in Entry : RetryJob(e)

\* Any other step leaves requests as they are, and begins no wait for an answer.
SameRequests ==
  /\ report'.requestSeq = report.requestSeq
  /\ report'.status = "FILED" /\ report'.aiStatus = "PENDING" =>
       report.status = "FILED" /\ report.aiStatus = "PENDING"
  /\ \A e \in Entry :
       /\ entry'[e].requestSeq = entry[e].requestSeq /\ entry'[e].runKey = entry[e].runKey
       /\ entry'[e].state = "NEW" <=> entry[e].state = "NEW"

\* The delivery d comes of this claim.
ClaimedBy(d) ==
  \E e \in Entry :
    /\ entry[e].state = "OPEN" /\ entry' = [entry EXCEPT ![e].token = d]
    /\ delivery[d] = Free
    /\ delivery' = [delivery EXCEPT ![d] =
         [Free EXCEPT !.pc = "claimReport", !.entry = e, !.requestSeq = entry[e].requestSeq,
                      !.runKey = entry[e].runKey, !.attempts = entry[e].attempts]]

SameJob(d) ==
  /\ delivery[d].pc # "free"
  /\ delivery'[d].entry = delivery[d].entry /\ delivery'[d].requestSeq = delivery[d].requestSeq
  /\ delivery'[d].runKey = delivery[d].runKey

\* Only a claim starts a delivery.
LEMMA ClaimStep == ASSUME NEW e \in Entry, Claim(e) PROVE \E d \in Delivery : ClaimedBy(d) /\ UNCHANGED report
<1>1. (CHOOSE f \in Fresh : TRUE) \in Fresh
  BY DEF Claim
<1> QED BY <1>1 DEF Claim, Fresh, ClaimedBy

\* A terminal write leaves a job written, and of the same request and run.
LEMMA RecordKeeps ==
  ASSUME TypeOK, OfAJob, NEW d \in Delivery, NEW state \in {"OPEN", "DONE", "FAILED"}, Record(d, state)
  PROVE  \A e \in Entry : /\ entry'[e].requestSeq = entry[e].requestSeq /\ entry'[e].runKey = entry[e].runKey
                          /\ entry'[e].state = "NEW" <=> entry[e].state = "NEW"
                          /\ entry'[e].token \in {entry[e].token, None}
                          /\ entry'[e].state = "DONE" => entry[e].state = "DONE" \/ (e = delivery[d].entry /\ state = "DONE")
<1>1. delivery[d].entry \in Entry /\ entry[delivery[d].entry].state # "NEW"
  BY DEF OfAJob, Record
<1>2. entry \in [Entry -> EntryRecord]
  BY DEF TypeOK
<1>3. entry' = [entry EXCEPT ![delivery[d].entry] = [entry[delivery[d].entry] EXCEPT !.state = state,
                  !.attempts = delivery[d].attempts + 1, !.token = None]]
  BY DEF Record
<1> QED BY <1>1, <1>2, <1>3 DEF EntryRecord

\* Every step is one or the other.
LEMMA RequestSteps == TypeOK /\ Unfiled /\ OfAJob /\ [Next]_vars => Requests \/ SameRequests
<1> SUFFICES ASSUME TypeOK, Unfiled, OfAJob, [Next]_vars PROVE Requests \/ SameRequests
  OBVIOUS
<1>0. report \in Report /\ entry \in [Entry -> EntryRecord]
  BY DEF TypeOK
<1>1. CASE RequestClassification \/ EditComplaint \/ \E e \in Entry : RetryJob(e)
  BY <1>0, <1>1 DEF RequestClassification, EditComplaint, RetryJob, Asked, Requests, Report
<1>2. ASSUME NEW hint \in Category \cup {None}, CreateComplaint(hint) PROVE Requests
  BY <1>0, <1>2 DEF CreateComplaint, Unfiled, Requests, Report
<1>3. CASE Withdraw \/ ChangePriority \/ \E c \in Category : Recategorise(c)
  BY <1>0, <1>3 DEF Withdraw, ChangePriority, Recategorise, SameRequests, Report
<1>4. ASSUME NEW e \in Entry, DismissJob(e) \/ UnknownType(e) PROVE SameRequests
  BY <1>0, <1>4 DEF DismissJob, UnknownType, Dismissed, SameRequests, EntryRecord
<1>5. ASSUME NEW e \in Entry, Claim(e) PROVE SameRequests
  <2>1. PICK d \in Delivery : ClaimedBy(d) /\ UNCHANGED report
    BY <1>5, ClaimStep
  <2> QED BY <1>0, <2>1 DEF ClaimedBy, SameRequests, EntryRecord
<1>6. ASSUME NEW d \in Delivery, DeliveryNext(d) \/ DatabaseFails(d) \/ Dies(d) PROVE SameRequests
  <2>1. /\ report'.requestSeq = report.requestSeq
        /\ report'.status = "FILED" /\ report'.aiStatus = "PENDING" =>
             report.status = "FILED" /\ report.aiStatus = "PENDING"
    <3>1. UNCHANGED report \/ ClaimReport(d) \/ Answers(d) \/ FailsWith(d)
      BY <1>6 DEF DeliveryNext, Load, HandlerFails, WriteResult, Reload, RecordDone, RecordRetry, RecordStale,
                  RecordFailed, Record, Answers, FailsWith, DatabaseFails, Dies
    <3> QED BY <1>0, <3>1 DEF ClaimReport, Answers, FailsWith, Decided, FailedReport, Report
  <2>2. UNCHANGED entry \/ \E state \in {"OPEN", "DONE", "FAILED"} : Record(d, state)
    BY <1>6 DEF DeliveryNext, ClaimReport, Load, HandlerFails, WriteResult, Reload, RecordDone, RecordRetry,
                RecordStale, RecordFailed, DatabaseFails, Dies
  <2> QED BY <2>1, <2>2, RecordKeeps DEF SameRequests
<1>7. CASE UNCHANGED vars
  BY <1>7 DEF vars, SameRequests
<1> QED BY <1>1, <1>2, <1>3, <1>4, <1>5, <1>6, <1>7 DEF Next, People, SweepFailed, Reclassify

\* What a delivery's own step makes of it.
LEMMA DeliveryChange ==
  ASSUME TypeOK, NEW f \in Delivery, DeliveryNext(f) \/ DatabaseFails(f) \/ Dies(f)
  PROVE  \/ delivery' = [delivery EXCEPT ![f] = Free]
         \/ /\ delivery[f].pc # "free"
            /\ \E r : /\ r.entry = delivery[f].entry /\ r.requestSeq = delivery[f].requestSeq
                      /\ r.runKey = delivery[f].runKey
                      /\ delivery' = [delivery EXCEPT ![f] = r]
<1>0. delivery \in [Delivery -> DeliveryRecord] /\ delivery[f] \in DeliveryRecord
  BY DEF TypeOK
<1> DEFINE Same(r) == /\ r.entry = delivery[f].entry /\ r.requestSeq = delivery[f].requestSeq
                      /\ r.runKey = delivery[f].runKey
<1>1. ASSUME NEW outcome, Ends(f, outcome)
      PROVE  \E r : Same(r) /\ delivery' = [delivery EXCEPT ![f] = r]
  <2>1. Same([delivery[f] EXCEPT !.pc = "record", !.outcome = outcome])
    BY <1>0 DEF DeliveryRecord
  <2>2. delivery' = [delivery EXCEPT ![f] = [delivery[f] EXCEPT !.pc = "record", !.outcome = outcome]]
    BY <1>0, <1>1 DEF Ends
  <2> QED BY <2>1, <2>2
<1>2. ASSUME NEW pc, Goto(f, pc) PROVE \E r : Same(r) /\ delivery' = [delivery EXCEPT ![f] = r]
  <2>1. Same([delivery[f] EXCEPT !.pc = pc])
    BY <1>0 DEF DeliveryRecord
  <2>2. delivery' = [delivery EXCEPT ![f] = [delivery[f] EXCEPT !.pc = pc]]
    BY <1>0, <1>2 DEF Goto
  <2> QED BY <2>1, <2>2
<1>3. CASE Load(f) \/ Reload(f)
  <2> DEFINE loaded == [delivery[f] EXCEPT !.pc = "write", !.source = report.source,
                          !.prioritySource = report.prioritySource, !.description = report.analysisCount]
             again == [delivery[f] EXCEPT !.pc = "write", !.source = report.source,
                          !.prioritySource = report.prioritySource, !.tries = delivery[f].tries + 1]
  <2>1. Same(loaded) /\ Same(again)
    BY <1>0 DEF DeliveryRecord
  <2>2. \/ \E outcome : Ends(f, outcome)
        \/ delivery' = [delivery EXCEPT ![f] = loaded] \/ delivery' = [delivery EXCEPT ![f] = again]
    BY <1>0, <1>3 DEF Load, Reload
  <2> HIDE DEF loaded, again, Same
  <2>3. delivery[f].pc # "free"
    BY <1>3 DEF Load, Reload
  <2> QED BY <1>1, <2>1, <2>2, <2>3 DEF Same
<1>4. \/ Load(f) \/ Reload(f)
      \/ delivery[f].pc # "free" /\ \E outcome : Ends(f, outcome)
      \/ delivery[f].pc # "free" /\ \E pc : Goto(f, pc)
      \/ delivery' = [delivery EXCEPT ![f] = Free]
  BY DEF DeliveryNext, ClaimReport, HandlerFails, WriteResult, RecordDone, RecordRetry, RecordFailed,
         RecordStale, Record, DatabaseFails, Dies
<1> HIDE DEF Same
<1>5. CASE delivery[f].pc # "free" /\ \E outcome : Ends(f, outcome)
  BY <1>1, <1>5 DEF Same
<1>6. CASE delivery[f].pc # "free" /\ \E pc : Goto(f, pc)
  BY <1>2, <1>6 DEF Same
<1> QED BY <1>3, <1>4, <1>5, <1>6

\* A delivery goes on with the job it has, or comes of a claim.
LEMMA JobKept ==
  ASSUME TypeOK, [Next]_vars, NEW d \in Delivery, delivery'[d].pc # "free"
  PROVE  SameJob(d) \/ (ClaimedBy(d) /\ UNCHANGED report)
<1>0. delivery \in [Delivery -> DeliveryRecord]
  BY DEF TypeOK
<1>1. CASE UNCHANGED delivery
  BY <1>1 DEF SameJob
<1>2. ASSUME NEW e \in Entry, Claim(e) PROVE SameJob(d) \/ (ClaimedBy(d) /\ UNCHANGED report)
  <2>1. PICK f \in Delivery : ClaimedBy(f) /\ UNCHANGED report
    BY <1>2, ClaimStep
  <2>2. CASE f # d
    BY <1>0, <2>1, <2>2 DEF ClaimedBy, SameJob
  <2> QED BY <2>1, <2>2
<1>3. ASSUME NEW f \in Delivery, DeliveryNext(f) \/ DatabaseFails(f) \/ Dies(f) PROVE SameJob(d)
  <2>1. \/ delivery' = [delivery EXCEPT ![f] = Free]
        \/ /\ delivery[f].pc # "free"
           /\ \E r : /\ r.entry = delivery[f].entry /\ r.requestSeq = delivery[f].requestSeq
                     /\ r.runKey = delivery[f].runKey
                     /\ delivery' = [delivery EXCEPT ![f] = r]
    BY <1>0, <1>3, DeliveryChange
  <2> QED BY <1>0, <2>1 DEF SameJob, Free
<1> QED BY <1>1, <1>2, <1>3, DeliverySteps

\* A request leaves written jobs written; one that may run again gets a new run for the new request.
LEMMA RequestJobs ==
  ASSUME TypeOK, Requests, NEW e \in Entry
  PROVE  /\ entry[e].state # "NEW" => entry'[e].state # "NEW"
         /\ \/ /\ entry'[e].requestSeq = entry[e].requestSeq /\ entry'[e].runKey = entry[e].runKey
               /\ entry'[e].token = entry[e].token
               /\ entry'[e].state # "NEW" => entry[e].state # "NEW"
               /\ entry'[e].state = "DONE" => entry[e].state = "DONE"
            \/ /\ entry'[e].requestSeq = report.requestSeq + 1 /\ entry'[e].state = "OPEN"
               /\ entry[e].state # "NEW" => entry'[e].runKey = entry[e].runKey + 1
               /\ \A f \in Entry : f # e => entry'[f].requestSeq = entry[f].requestSeq
<1>0. entry \in [Entry -> EntryRecord] /\ entry[e] \in EntryRecord
  BY DEF TypeOK
<1>1. ASSUME NEW f \in Entry
      PROVE  /\ Dismissed(entry[f]).requestSeq = entry[f].requestSeq
             /\ Dismissed(entry[f]).runKey = entry[f].runKey
             /\ Dismissed(entry[f]).token = entry[f].token
             /\ Dismissed(entry[f]).state = "NEW" <=> entry[f].state = "NEW"
             /\ Dismissed(entry[f]).state = "DONE" => entry[f].state = "DONE"
  BY <1>0 DEF Dismissed, EntryRecord
<1>2. CASE EnqueueClassification(report.requestSeq + 1)
  <2> DEFINE first == CHOOSE f \in {f \in Entry : entry[f].state = "NEW"} : TRUE
  <2>1. first \in Entry /\ entry[first].state = "NEW"
    BY <1>2 DEF EnqueueClassification
  <2>2. entry' = [f \in Entry |-> IF f = first
                   THEN [entry[f] EXCEPT !.state = "OPEN", !.requestSeq = report.requestSeq + 1]
                   ELSE Dismissed(entry[f])]
    BY <1>2 DEF EnqueueClassification
  <2> HIDE DEF first
  <2>3. CASE e = first
    <3>1. \A f \in Entry : f # e => entry'[f].requestSeq = entry[f].requestSeq
      BY <1>1, <2>2, <2>3
    <3>2. entry'[e] = [entry[e] EXCEPT !.state = "OPEN", !.requestSeq = report.requestSeq + 1]
      BY <2>2, <2>3
    <3>3. entry'[e].requestSeq = report.requestSeq + 1 /\ entry'[e].state = "OPEN"
      BY <1>0, <3>2 DEF EntryRecord
    <3> QED BY <2>1, <2>3, <3>1, <3>3
  <2>4. CASE e # first
    <3>1. entry'[e] = Dismissed(entry[e])
      BY <2>2, <2>4
    <3> QED BY <1>1, <3>1
  <2> QED BY <2>3, <2>4
<1>3. ASSUME NEW g \in Entry, RetryJob(g)
      PROVE  \/ e # g /\ entry'[e] = Dismissed(entry[e])
             \/ /\ e = g /\ entry'[e].requestSeq = report.requestSeq + 1 /\ entry'[e].state = "OPEN"
                /\ entry'[e].runKey = entry[e].runKey + 1
                /\ \A f \in Entry : f # e => entry'[f].requestSeq = entry[f].requestSeq
  <2>1. CASE e = g
    <3>1. entry'[e] = [entry[e] EXCEPT !.state = "OPEN", !.requestSeq = report.requestSeq + 1,
                                       !.attempts = 0, !.runKey = entry[e].runKey + 1]
      BY <1>3, <2>1 DEF RetryJob
    <3>2. \A f \in Entry : f # e => entry'[f] = Dismissed(entry[f])
      BY <1>3, <2>1 DEF RetryJob
    <3> QED BY <1>0, <1>1, <2>1, <3>1, <3>2 DEF EntryRecord
  <2>2. CASE e # g
    BY <1>3, <2>2 DEF RetryJob
  <2> QED BY <2>1, <2>2
<1> QED BY <1>1, <1>2, <1>3 DEF Requests

\* A delivery that holds its job after a step held it before, unless it comes of a claim.
LEMMA HeldBefore ==
  ASSUME TypeOK, Unfiled, OfAJob, [Next]_vars, NEW d \in Delivery, SameJob(d), HoldsEntry(d)'
  PROVE  HoldsEntry(d) /\ entry'[delivery[d].entry].requestSeq = entry[delivery[d].entry].requestSeq
<1> DEFINE e == delivery[d].entry
<1>0. /\ e \in Entry /\ entry[e].state # "NEW" /\ entry[e].runKey \in Nat /\ delivery[d].runKey \in Nat
      /\ delivery[d].runKey <= entry[e].runKey /\ None \notin Delivery
      /\ delivery \in [Delivery -> DeliveryRecord] /\ entry \in [Entry -> EntryRecord]
  BY NamesAssumption DEF TypeOK, OfAJob, SameJob, EntryRecord, DeliveryRecord
<1>1. entry'[e].runKey = delivery[d].runKey /\ entry'[e].token = d
  BY DEF HoldsEntry, SameJob
<1> HIDE DEF e
<1>2. CASE Requests
  <2>1. entry'[e].runKey # entry[e].runKey + 1
    BY <1>0, <1>1
  <2> QED BY <1>0, <1>1, <1>2, <2>1, RequestJobs DEF HoldsEntry, e
<1>3. ASSUME NEW g \in Entry, DismissJob(g) \/ UnknownType(g) PROVE entry'[e].token = entry[e].token
  BY <1>0, <1>3 DEF DismissJob, UnknownType, Dismissed, EntryRecord
<1>4. ASSUME NEW g \in Entry, Claim(g) PROVE entry'[e].token = entry[e].token
  <2>1. PICK f \in Delivery : ClaimedBy(f)
    BY <1>4, ClaimStep
  <2>2. f # d
    BY <2>1 DEF ClaimedBy, SameJob, Free
  <2> QED BY <1>0, <1>1, <2>1, <2>2 DEF ClaimedBy, EntryRecord
<1>5. ASSUME NEW f \in Delivery, DeliveryNext(f) \/ DatabaseFails(f) \/ Dies(f)
      PROVE  entry'[e].token \in {entry[e].token, None}
  <2>1. UNCHANGED entry \/ \E state \in {"OPEN", "DONE", "FAILED"} : Record(f, state)
    BY <1>5 DEF DeliveryNext, ClaimReport, Load, HandlerFails, WriteResult, Reload, RecordDone, RecordRetry,
                RecordStale, RecordFailed, DatabaseFails, Dies
  <2> QED BY <1>0, <2>1, RecordKeeps
<1>6. CASE SameRequests
  <2>1. \/ entry'[e].token \in {entry[e].token, None} \/ UNCHANGED entry
        \/ RequestClassification \/ EditComplaint \/ (\E g \in Entry : RetryJob(g))
        \/ \E hint \in Category \cup {None} : CreateComplaint(hint)
    BY <1>0, <1>3, <1>4, <1>5 DEF Next, vars, People, SweepFailed, Reclassify, Withdraw, ChangePriority, Recategorise
  <2>2. report \in Report
    BY DEF TypeOK
  <2>3. ASSUME RequestClassification \/ EditComplaint \/ \E g \in Entry : RetryJob(g)
        PROVE  FALSE
    <3>1. report'.requestSeq = report.requestSeq + 1
      BY <2>2, <2>3 DEF RequestClassification, EditComplaint, RetryJob, Asked, Report
    <3> QED BY <1>6, <2>2, <3>1 DEF SameRequests, Report
  <2>4. ASSUME NEW hint \in Category \cup {None}, CreateComplaint(hint) PROVE FALSE
    BY <1>0, <2>4 DEF CreateComplaint, Unfiled
  <2> QED BY <1>0, <1>1, <1>6, <2>1, <2>3, <2>4 DEF SameRequests, HoldsEntry, e
<1> QED BY <1>2, <1>6, RequestSteps

\* A delivery that holds its job is awaited after a step only if it was before.
LEMMA AwaitedBefore ==
  ASSUME TypeOK, Unfiled, SeqsPast, OfAJob, [Next]_vars, NEW d \in Delivery, SameJob(d), HoldsEntry(d)', Awaited(d)'
  PROVE  HoldsEntry(d) /\ Awaited(d) /\ SameRequests
<1>1. /\ HoldsEntry(d) /\ delivery[d].entry \in Entry
      /\ entry[delivery[d].entry].requestSeq = delivery[d].requestSeq
  BY HeldBefore DEF OfAJob, SameJob
<1>2. delivery[d].requestSeq <= report.requestSeq /\ report.requestSeq \in Nat /\ delivery[d].requestSeq \in Nat
  BY <1>1 DEF SeqsPast, TypeOK, Report, EntryRecord
<1>3. ~Requests
  BY <1>2 DEF Requests, Awaited, SameJob
<1>4. SameRequests
  BY <1>3, RequestSteps
<1> QED BY <1>1, <1>4 DEF Awaited, Live, SameJob, SameRequests

\* Written jobs are for requests made so far, each for its own, after every step.
LEMMA SeqsStep ==
  TypeOK /\ Unfiled /\ OfAJob /\ SeqsPast /\ SeqsDistinct /\ [Next]_vars => SeqsPast' /\ SeqsDistinct'
<1> SUFFICES ASSUME TypeOK, Unfiled, OfAJob, SeqsPast, SeqsDistinct, [Next]_vars PROVE SeqsPast' /\ SeqsDistinct'
  OBVIOUS
<1>0. report.requestSeq \in Nat /\ \A e \in Entry : entry[e].requestSeq \in Nat
  BY DEF TypeOK, Report, EntryRecord
<1>1. CASE Requests
  <2>1. report'.requestSeq = report.requestSeq + 1
    BY <1>1 DEF Requests
  <2>2. ASSUME NEW e \in Entry PROVE entry'[e].requestSeq <= report'.requestSeq
    BY <1>0, <1>1, <2>1, RequestJobs DEF SeqsPast
  <2>3. ASSUME NEW e \in Entry, NEW f \in Entry, e # f, entry'[e].state # "NEW", entry'[f].state # "NEW"
        PROVE  entry'[e].requestSeq # entry'[f].requestSeq
    <3>1. CASE entry'[e].requestSeq = report.requestSeq + 1 /\ entry'[f].requestSeq = entry[f].requestSeq
      BY <1>0, <3>1 DEF SeqsPast
    <3>2. CASE entry'[f].requestSeq = report.requestSeq + 1 /\ entry'[e].requestSeq = entry[e].requestSeq
      BY <1>0, <3>2 DEF SeqsPast
    <3>3. CASE /\ entry'[e].requestSeq = entry[e].requestSeq /\ entry[e].state # "NEW"
               /\ entry'[f].requestSeq = entry[f].requestSeq /\ entry[f].state # "NEW"
      BY <2>3, <3>3 DEF SeqsDistinct
    <3> QED BY <1>1, <2>3, <3>1, <3>2, <3>3, RequestJobs
  <2> QED BY <2>2, <2>3 DEF SeqsPast, SeqsDistinct
<1>2. CASE SameRequests
  BY <1>2 DEF SameRequests, SeqsPast, SeqsDistinct
<1> QED BY <1>1, <1>2, RequestSteps

\* A delivery under way is of a written job after every step.
LEMMA OfAJobStep == TypeOK /\ Unfiled /\ OfAJob /\ [Next]_vars => OfAJob'
<1> SUFFICES ASSUME TypeOK, Unfiled, OfAJob, [Next]_vars, NEW d \in Delivery, delivery'[d].pc # "free"
             PROVE  /\ delivery'[d].entry \in Entry
                    /\ entry'[delivery'[d].entry].state # "NEW"
                    /\ delivery'[d].runKey <= entry'[delivery'[d].entry].runKey
                    /\ HoldsEntry(d)' => entry'[delivery'[d].entry].requestSeq = delivery'[d].requestSeq
  BY DEF OfAJob
<1>0. entry \in [Entry -> EntryRecord] /\ delivery \in [Delivery -> DeliveryRecord]
  BY DEF TypeOK
<1>1. CASE SameJob(d)
  <2> DEFINE e == delivery[d].entry
  <2>1. /\ e \in Entry /\ entry[e].state # "NEW" /\ delivery[d].runKey <= entry[e].runKey
        /\ HoldsEntry(d) => entry[e].requestSeq = delivery[d].requestSeq
        /\ delivery[d].runKey \in Nat /\ entry[e].runKey \in Nat
    BY <1>0, <1>1 DEF OfAJob, SameJob, EntryRecord, DeliveryRecord
  <2>2. entry'[e].state # "NEW" /\ (entry'[e].runKey = entry[e].runKey \/ entry'[e].runKey = entry[e].runKey + 1)
    <3>1. CASE Requests
      BY <2>1, <3>1, RequestJobs
    <3>2. CASE SameRequests
      BY <2>1, <3>2 DEF SameRequests
    <3> QED BY <3>1, <3>2, RequestSteps
  <2>3. HoldsEntry(d)' => entry'[e].requestSeq = delivery[d].requestSeq
    BY <1>1, <2>1, HeldBefore
  <2> QED BY <1>1, <2>1, <2>2, <2>3 DEF SameJob
<1>2. CASE ClaimedBy(d)
  <2>1. PICK e \in Entry :
          /\ entry[e].state = "OPEN" /\ entry' = [entry EXCEPT ![e].token = d]
          /\ delivery' = [delivery EXCEPT ![d] =
               [Free EXCEPT !.pc = "claimReport", !.entry = e, !.requestSeq = entry[e].requestSeq,
                            !.runKey = entry[e].runKey, !.attempts = entry[e].attempts]]
    BY <1>2 DEF ClaimedBy
  <2>2. /\ delivery'[d].entry = e /\ delivery'[d].requestSeq = entry[e].requestSeq
        /\ delivery'[d].runKey = entry[e].runKey
    BY <1>0, <2>1 DEF Free
  <2>3. /\ entry'[e].state = "OPEN" /\ entry'[e].requestSeq = entry[e].requestSeq
        /\ entry'[e].runKey = entry[e].runKey /\ entry[e].runKey \in Nat
    BY <1>0, <2>1 DEF EntryRecord
  <2> QED BY <2>2, <2>3
<1> QED BY <1>1, <1>2, JobKept

\* How a delivery that goes on came to where it is.
LEMMA StageBefore ==
  ASSUME TypeOK, [Next]_vars, NEW d \in Delivery, SameJob(d), delivery'[d].pc \in {"load", "write", "reload", "record"}
  PROVE  \/ delivery[d].pc \in {"load", "write", "reload"} /\ delivery'[d].pc # "record"
         \/ delivery[d].pc = "record" /\ delivery'[d] = delivery[d]
         \/ ClaimReport(d) /\ report'.token = d
         \/ ClaimReport(d) /\ ~(HoldsEntry(d) /\ Awaited(d))
         \/ delivery'[d].pc = "record" /\ delivery'[d].outcome # "ok"
         \/ delivery[d].pc \in {"load", "reload"} /\ ~IsCurrentPending(d)
         \/ report'.aiStatus = "DONE"
<1>0. delivery \in [Delivery -> DeliveryRecord] /\ delivery[d] \in DeliveryRecord /\ report \in Report
  BY DEF TypeOK
<1>1. CASE delivery'[d] = delivery[d]
  BY <1>1
<1>2. ASSUME NEW f \in Delivery, DeliveryNext(f) \/ DatabaseFails(f) \/ Dies(f), f # d PROVE delivery'[d] = delivery[d]
  <2>1. PICK r : delivery' = [delivery EXCEPT ![f] = r]
    BY <1>2, DeliveryChange
  <2> QED BY <1>0, <1>2, <2>1
<1>3. ASSUME NEW e \in Entry, Claim(e) PROVE delivery'[d] = delivery[d]
  <2>1. PICK f \in Delivery : ClaimedBy(f)
    BY <1>3, ClaimStep
  <2> QED BY <1>0, <2>1 DEF ClaimedBy, SameJob, Free
<1>4. ASSUME NEW outcome, Ends(d, outcome) PROVE delivery'[d].pc = "record" /\ delivery'[d].outcome = outcome
  BY <1>0, <1>4 DEF Ends, DeliveryRecord
<1>5. delivery' # [delivery EXCEPT ![d] = Free]
  BY <1>0 DEF Free
<1>6. CASE ClaimReport(d)
  BY <1>0, <1>6 DEF ClaimReport, Report
<1>7. CASE Load(d)
  <2>1. CASE ~IsCurrentPending(d)
    BY <1>7, <2>1 DEF Load
  <2>2. CASE IsCurrentPending(d)
    <3>1. delivery' = [delivery EXCEPT ![d] = [delivery[d] EXCEPT !.pc = "write", !.source = report.source,
                        !.prioritySource = report.prioritySource, !.description = report.analysisCount]]
      BY <1>0, <1>7, <2>2 DEF Load
    <3>2. delivery'[d].pc = "write"
      BY <1>0, <3>1 DEF DeliveryRecord
    <3> QED BY <1>7, <3>2 DEF Load
  <2> QED BY <2>1, <2>2
<1>8. CASE Reload(d)
  <2>1. CASE ~IsCurrentPending(d)
    BY <1>8, <2>1 DEF Reload
  <2>2. CASE IsCurrentPending(d) /\ Exhausted(d)
    <3>1. delivery'[d].pc = "record" /\ delivery'[d].outcome = "retryable"
      BY <1>4, <1>8, <2>2 DEF Reload
    <3> QED BY <3>1
  <2>3. CASE IsCurrentPending(d) /\ ~Exhausted(d)
    <3>1. delivery' = [delivery EXCEPT ![d] = [delivery[d] EXCEPT !.pc = "write", !.source = report.source,
                        !.prioritySource = report.prioritySource, !.tries = delivery[d].tries + 1]]
      BY <1>0, <1>8, <2>3 DEF Reload
    <3>2. delivery'[d].pc = "write"
      BY <1>0, <3>1 DEF DeliveryRecord
    <3> QED BY <1>8, <3>2 DEF Reload
  <2> QED BY <2>1, <2>2, <2>3
<1>9. ASSUME NEW c \in Category, NEW confident \in BOOLEAN, WriteResult(d, c, confident)
      PROVE  report'.aiStatus = "DONE" \/ (delivery[d].pc = "write" /\ delivery'[d].pc = "reload")
  <2>1. CASE Unchanged(d)
    <3>1. report' = Decided(report, d, c, confident)
      BY <1>9, <2>1 DEF WriteResult
    <3> QED BY <1>0, <3>1 DEF Decided, Report
  <2>2. CASE ~Unchanged(d)
    BY <1>0, <1>9, <2>2 DEF WriteResult, Goto, DeliveryRecord
  <2> QED BY <2>1, <2>2
<1>10. CASE (\E failure \in {"retryable", "lasting"} : HandlerFails(d, failure)) \/ DatabaseFails(d)
  BY <1>4, <1>10 DEF HandlerFails, DatabaseFails
<1>11. ~(RecordStale(d) \/ Dies(d) \/ \E state \in {"OPEN", "DONE", "FAILED"} : Record(d, state))
  BY <1>5 DEF RecordStale, Dies, Record
<1>12. CASE DeliveryNext(d) \/ DatabaseFails(d) \/ Dies(d)
  BY <1>6, <1>7, <1>8, <1>9, <1>10, <1>11, <1>12 DEF DeliveryNext, RecordDone, RecordRetry, RecordFailed
<1> QED BY <1>1, <1>2, <1>3, <1>12, DeliverySteps

\* A claim starts before the report is claimed: what has claimed it goes on with a job.
LEMMA PastTheClaim ==
  ASSUME TypeOK, [Next]_vars, NEW d \in Delivery, delivery'[d].pc \in {"load", "write", "reload", "record"}
  PROVE  SameJob(d)
<1>1. ASSUME ClaimedBy(d) PROVE FALSE
  <2>1. PICK e \in Entry : delivery' = [delivery EXCEPT ![d] =
           [Free EXCEPT !.pc = "claimReport", !.entry = e, !.requestSeq = entry[e].requestSeq,
                        !.runKey = entry[e].runKey, !.attempts = entry[e].attempts]]
    BY <1>1 DEF ClaimedBy
  <2>2. delivery \in [Delivery -> DeliveryRecord]
    BY DEF TypeOK
  <2> QED BY <2>1, <2>2 DEF Free
<1> QED BY <1>1, JobKept

\* The delivery that holds the job keeps the report until the request is answered: no other delivery
\* can hold the job of the same request.
LEMMA TokenStays ==
  ASSUME TypeOK, SeqsDistinct, OfAJob, [Next]_vars, SameRequests, NEW d \in Delivery, delivery[d].pc # "free",
         HoldsEntry(d), Awaited(d), Awaited(d)', report.token = d
  PROVE  report'.token = d
<1>0. report \in Report
  BY DEF TypeOK
<1>1. ASSUME Asks PROVE FALSE
  <2>1. report'.requestSeq = report.requestSeq + 1
    BY <1>0, <1>1 DEF Asks, Asked, Report
  <2> QED BY <1>0, <2>1 DEF SameRequests, Report
<1>2. ASSUME NEW hint \in Category \cup {None}, CreateComplaint(hint) PROVE FALSE
  BY <1>2 DEF CreateComplaint, Awaited, Live
<1>3. CASE ChangePriority \/ \E c \in Category : Recategorise(c)
  BY <1>0, <1>3 DEF ChangePriority, Recategorise, Report
<1>4. CASE Withdraw
  BY <1>0, <1>4 DEF Withdraw, Awaited, Live, Report
<1>5. ASSUME NEW f \in Delivery, ClaimReport(f) PROVE report'.token = d
  <2>1. CASE HoldsEntry(f) /\ Awaited(f)
    <3> DEFINE e == delivery[d].entry
               g == delivery[f].entry
    <3>1. /\ e \in Entry /\ g \in Entry /\ entry[e].state # "NEW" /\ entry[g].state # "NEW"
          /\ entry[e].requestSeq = report.requestSeq /\ entry[g].requestSeq = report.requestSeq
      BY <1>5, <2>1 DEF OfAJob, Awaited, ClaimReport
    <3>2. e = g
      BY <3>1 DEF SeqsDistinct
    <3>3. f = d
      BY <2>1, <3>2 DEF HoldsEntry
    <3> QED BY <1>0, <1>5, <2>1, <3>3 DEF ClaimReport, Report
  <2>2. CASE ~(HoldsEntry(f) /\ Awaited(f))
    BY <1>5, <2>2 DEF ClaimReport
  <2> QED BY <2>1, <2>2
<1>6. ASSUME NEW f \in Delivery, Answers(f) PROVE FALSE
  BY <1>0, <1>6 DEF Answers, Decided, Awaited, Report
<1>7. ASSUME NEW f \in Delivery, FailsWith(f) PROVE FALSE
  BY <1>0, <1>7 DEF FailsWith, FailedReport, Awaited, Report
<1> QED BY <1>1, <1>2, <1>3, <1>4, <1>5, <1>6, <1>7, ReportSteps

\* What a delivery claims for a job it holds stays its own after every step.
LEMMA TokenStep ==
  TypeOK /\ Unfiled /\ SeqsPast /\ SeqsDistinct /\ OfAJob /\ TokenKept /\ [Next]_vars => TokenKept'
<1> SUFFICES ASSUME TypeOK, Unfiled, SeqsPast, SeqsDistinct, OfAJob, TokenKept, [Next]_vars, NEW d \in Delivery,
                    delivery'[d].pc \in {"load", "write", "reload"}, HoldsEntry(d)', Awaited(d)'
             PROVE  report'.token = d
  BY DEF TokenKept
<1>1. SameJob(d)
  BY PastTheClaim
<1>2. HoldsEntry(d) /\ Awaited(d) /\ SameRequests
  BY <1>1, AwaitedBefore
<1>3. (ClaimReport(d) /\ report'.token = d) \/ (delivery[d].pc \in {"load", "write", "reload"} /\ report.token = d)
  <2>1. report'.aiStatus # "DONE"
    BY DEF Awaited
  <2>2. delivery[d].pc \in {"load", "write", "reload"} => report.token = d
    BY <1>2 DEF TokenKept
  <2>3. delivery'[d].pc \in {"load", "write", "reload", "record"} /\ delivery'[d].pc # "record"
    OBVIOUS
  <2> QED BY <1>1, <1>2, <2>1, <2>2, <2>3, StageBefore DEF IsCurrentPending
<1> QED BY <1>2, <1>3, TokenStays

\* A delivery that holds the job and succeeds leaves no request waiting.
LEMMA OkStep ==
  TypeOK /\ Unfiled /\ SeqsPast /\ OfAJob /\ TokenKept /\ OkIsAnswered /\ [Next]_vars => OkIsAnswered'
<1> SUFFICES ASSUME TypeOK, Unfiled, SeqsPast, OfAJob, TokenKept, OkIsAnswered, [Next]_vars, NEW d \in Delivery,
                    delivery'[d].pc = "record", delivery'[d].outcome = "ok", HoldsEntry(d)', Awaited(d)'
             PROVE  FALSE
  BY DEF OkIsAnswered
<1>0. delivery \in [Delivery -> DeliveryRecord]
  BY DEF TypeOK
<1>1. SameJob(d)
  BY PastTheClaim
<1>2. HoldsEntry(d) /\ Awaited(d) /\ SameRequests
  BY <1>1, AwaitedBefore
<1>3. ClaimReport(d) => ~(HoldsEntry(d) /\ Awaited(d))
  BY <1>0 DEF ClaimReport, Goto, DeliveryRecord
<1> QED BY <1>1, <1>2, <1>3, StageBefore DEF TokenKept, OkIsAnswered, IsCurrentPending, Awaited

\* A job becomes done only by a delivery that holds it and succeeds.
LEMMA DoneStep ==
  ASSUME TypeOK, OfAJob, [Next]_vars, SameRequests, NEW e \in Entry, entry'[e].state = "DONE", entry[e].state # "DONE"
  PROVE  \E d \in Delivery : /\ delivery[d].pc = "record" /\ delivery[d].outcome = "ok"
                             /\ delivery[d].entry = e /\ HoldsEntry(d)
<1>0. entry \in [Entry -> EntryRecord] /\ entry[e] \in EntryRecord
  BY DEF TypeOK
<1>1. ASSUME NEW g \in Entry, DismissJob(g) \/ UnknownType(g) PROVE FALSE
  BY <1>0, <1>1 DEF DismissJob, UnknownType, Dismissed, EntryRecord
<1>2. ASSUME NEW g \in Entry, Claim(g) PROVE FALSE
  <2>1. PICK f \in Delivery : ClaimedBy(f)
    BY <1>2, ClaimStep
  <2> QED BY <1>0, <2>1 DEF ClaimedBy, EntryRecord
<1>3. ASSUME Requests PROVE FALSE
  BY <1>0, <1>3, RequestJobs
<1>4. RequestClassification \/ EditComplaint \/ (\E g \in Entry : RetryJob(g)) => Requests
  BY DEF RequestClassification, EditComplaint, RetryJob, Asked, Requests, Report, TypeOK
<1>5. ASSUME NEW hint \in Category \cup {None}, CreateComplaint(hint) PROVE FALSE
  <2>1. CASE report.requestSeq = 0
    BY <1>3, <1>5, <2>1 DEF CreateComplaint, Requests, Report, TypeOK
  <2>2. CASE report.requestSeq # 0
    <3>1. report'.requestSeq = 1
      BY <1>5 DEF CreateComplaint, Report, TypeOK
    <3>2. report.requestSeq = 1 /\ 1 = 0 + 1
      BY <3>1 DEF SameRequests
    <3>3. entry[e].state = "NEW" \/ entry'[e].state # "DONE"
      BY <1>0, <1>5 DEF CreateComplaint, EnqueueClassification, Dismissed, EntryRecord
    <3> QED BY <1>0, <1>5, <3>3 DEF CreateComplaint, EnqueueClassification, Dismissed, EntryRecord
  <2> QED BY <2>1, <2>2
<1>6. PICK d \in Delivery : DeliveryNext(d) \/ DatabaseFails(d) \/ Dies(d)
  <2>1. entry' # entry
    OBVIOUS
  <2> QED BY <1>1, <1>2, <1>3, <1>4, <1>5, <2>1
          DEF Next, vars, People, SweepFailed, Reclassify, Withdraw, ChangePriority, Recategorise
<1>7. RecordDone(d) \/ \E state \in {"OPEN", "FAILED"} : Record(d, state)
  BY <1>6 DEF DeliveryNext, ClaimReport, Load, HandlerFails, WriteResult, Reload, RecordRetry,
              RecordStale, RecordFailed, DatabaseFails, Dies
<1>8. ~\E state \in {"OPEN", "FAILED"} : Record(d, state)
  BY RecordKeeps
<1>9. RecordDone(d) /\ e = delivery[d].entry
  BY <1>7, <1>8, RecordKeeps DEF RecordDone
<1> QED BY <1>9 DEF RecordDone, Record, Fenced

\* The invariant of the jobs holds.
LEMMA JobInvariant == Spec => []JobInv
<1>1. Init => JobInv
  BY DEF Init, Free, JobInv, SeqsPast, SeqsDistinct, OfAJob, TokenKept, OkIsAnswered, DoneJobAnswered
<1>2. TypeOK /\ ReportInv /\ JobInv /\ [Next]_vars => JobInv'
  <2> SUFFICES ASSUME TypeOK, ReportInv, JobInv, [Next]_vars PROVE JobInv'
    OBVIOUS
  <2>1. Unfiled /\ SeqsPast /\ SeqsDistinct /\ OfAJob /\ TokenKept /\ OkIsAnswered /\ DoneJobAnswered
    BY DEF ReportInv, JobInv
  <2>2. ASSUME NEW e \in Entry, entry'[e].state = "DONE", entry'[e].requestSeq = report'.requestSeq, Live',
               report'.aiStatus = "PENDING"
        PROVE  FALSE
    <3>0. report.requestSeq \in Nat /\ entry[e].requestSeq \in Nat
      BY DEF TypeOK, Report, EntryRecord
    <3>1. CASE Requests
      <4>1. report'.requestSeq = report.requestSeq + 1 /\ entry'[e].requestSeq = entry[e].requestSeq
        BY <2>2, <3>1, RequestJobs DEF Requests
      <4> QED BY <2>1, <2>2, <3>0, <4>1 DEF SeqsPast
    <3>2. CASE SameRequests
      <4>1. /\ Live /\ report.aiStatus = "PENDING" /\ entry[e].requestSeq = report.requestSeq
        BY <2>2, <3>2 DEF SameRequests, Live
      <4>2. CASE entry[e].state = "DONE"
        BY <2>1, <4>1, <4>2 DEF DoneJobAnswered
      <4>3. CASE entry[e].state # "DONE"
        <5>1. PICK d \in Delivery : /\ delivery[d].pc = "record" /\ delivery[d].outcome = "ok"
                                    /\ delivery[d].entry = e /\ HoldsEntry(d)
          BY <2>1, <2>2, <3>2, <4>3, DoneStep
        <5>2. Awaited(d)
          BY <2>1, <4>1, <5>1 DEF OfAJob, Awaited
        <5> QED BY <2>1, <5>1, <5>2 DEF OkIsAnswered
      <4> QED BY <4>2, <4>3
    <3> QED BY <2>1, <3>1, <3>2, RequestSteps
  <2>3. SeqsPast' /\ SeqsDistinct' /\ OfAJob' /\ TokenKept' /\ OkIsAnswered'
    BY <2>1, SeqsStep, OfAJobStep, TokenStep, OkStep
  <2>4. DoneJobAnswered'
    BY <2>2 DEF DoneJobAnswered
  <2> QED BY <2>3, <2>4 DEF JobInv
<1> QED BY <1>1, <1>2, TypeCorrect, ReportInvariant, PTL DEF Spec

\* A job recorded as done answered its request.
THEOREM DoneJobsAnswered == Spec => []DoneJobAnswered
<1>1. JobInv => DoneJobAnswered
  BY DEF JobInv
<1> QED BY <1>1, JobInvariant, PTL

\* What the report says of its classification always fits the latest request and people's choices
\* (aiJobs.js:86-98).
THEOREM AnswersAlwaysFit == Spec => []AnswersFit
<1>1. /\ TypeOK /\ ResultOfCurrentText /\ CitizenChoiceKept /\ DisagreementIsOpen /\ DoneJobAnswered
      => AnswersFit
  BY DEF AnswersFit
<1> QED
  BY <1>1, TypeCorrect, ResultIsOfCurrentText, CitizenChoiceIsKept, DisagreementsAreOpen, DoneJobsAnswered, PTL

\* No late answer touches what staff decided, or a report that was withdrawn (aiJobs.js:52-66, 90).
THEOREM DecisionsAreKept == Spec => DecisionsKept
<1> QED
  BY StaffDecisionsAreKept, WithdrawnIsKept DEF DecisionsKept

-------------------------------------------------------------------------------
(* A write is lost to staff twice at most.                                     *)

\* How many of the two sources are a decision of staff.
Staff(source) == IF source = "STAFF" THEN 1 ELSE 0
Settled(source, priority) == Staff(source) + Staff(priority)

\* A delivery that has not written yet has used none of its writes.
NotTried == \A d \in Delivery : delivery[d].pc \in {"claimReport", "load"} => delivery[d].tries = 0

\* While the delivery d may answer, a source changes to a decision of staff only, and every write it
\* lost, it lost to one more of them.
LostToStaff(d) ==
  IsCurrentPending(d) /\ delivery[d].pc \in {"write", "reload"} =>
    /\ report.source \in {delivery[d].source, "STAFF"}
    /\ report.prioritySource \in {delivery[d].prioritySource, "STAFF"}
    /\ delivery[d].tries <= Settled(delivery[d].source, delivery[d].prioritySource)
    /\ delivery[d].pc = "reload" =>
         report.source # delivery[d].source \/ report.prioritySource # delivery[d].prioritySource

TriesInv == NotTried /\ \A d \in Delivery : LostToStaff(d)

\* What the step of a delivery that may write next does to it.
LEMMA WriterSteps ==
  ASSUME TypeOK, [Next]_vars, NEW d \in Delivery, delivery'[d].pc \in {"claimReport", "load", "write", "reload"}
  PROVE  \/ UNCHANGED delivery[d]
         \/ delivery'[d].pc = "claimReport" /\ delivery'[d].tries = 0
         \/ /\ ClaimReport(d) /\ delivery'[d].pc = "load" /\ delivery'[d].tries = delivery[d].tries
         \/ /\ Load(d) /\ UNCHANGED report
            /\ delivery'[d].pc = "write" /\ delivery'[d].tries = delivery[d].tries
            /\ delivery'[d].source = report.source /\ delivery'[d].prioritySource = report.prioritySource
         \/ /\ delivery[d].pc = "write" /\ ~Unchanged(d) /\ UNCHANGED report
            /\ delivery'[d] = [delivery[d] EXCEPT !.pc = "reload"]
         \/ /\ Reload(d) /\ IsCurrentPending(d) /\ UNCHANGED report
            /\ delivery'[d].pc = "write" /\ delivery'[d].tries = delivery[d].tries + 1
            /\ delivery'[d].source = report.source /\ delivery'[d].prioritySource = report.prioritySource
<1>0. delivery \in [Delivery -> DeliveryRecord] /\ delivery[d] \in DeliveryRecord
  BY DEF TypeOK
<1>1. CASE UNCHANGED delivery
  BY <1>1
<1>2. ASSUME NEW f \in Delivery, DeliveryNext(f) \/ DatabaseFails(f) \/ Dies(f), f # d PROVE UNCHANGED delivery[d]
  <2>1. PICK r : delivery' = [delivery EXCEPT ![f] = r]
    BY <1>2, DeliveryChange
  <2> QED BY <1>0, <1>2, <2>1
<1>3. ASSUME NEW e \in Entry, Claim(e)
      PROVE  UNCHANGED delivery[d] \/ (delivery'[d].pc = "claimReport" /\ delivery'[d].tries = 0)
  <2>1. PICK f \in Delivery : ClaimedBy(f)
    BY <1>3, ClaimStep
  <2>2. PICK g \in Entry : delivery' = [delivery EXCEPT ![f] =
           [Free EXCEPT !.pc = "claimReport", !.entry = g, !.requestSeq = entry[g].requestSeq,
                        !.runKey = entry[g].runKey, !.attempts = entry[g].attempts]]
    BY <2>1 DEF ClaimedBy
  <2> QED BY <1>0, <2>2 DEF Free
<1>4. ASSUME NEW outcome, Ends(d, outcome) PROVE FALSE
  BY <1>0, <1>4 DEF Ends, DeliveryRecord
<1>5. delivery' # [delivery EXCEPT ![d] = Free]
  BY <1>0 DEF Free
<1>6. CASE ClaimReport(d)
  <2>1. Goto(d, "load")
    BY <1>4, <1>6 DEF ClaimReport
  <2>2. delivery'[d] = [delivery[d] EXCEPT !.pc = "load"]
    BY <1>0, <2>1 DEF Goto
  <2> QED BY <1>0, <1>6, <2>2 DEF DeliveryRecord
<1>7. CASE Load(d)
  <2>1. /\ UNCHANGED report
        /\ delivery' = [delivery EXCEPT ![d] = [delivery[d] EXCEPT !.pc = "write", !.source = report.source,
                        !.prioritySource = report.prioritySource, !.description = report.analysisCount]]
    BY <1>0, <1>4, <1>7 DEF Load
  <2>2. delivery'[d] = [delivery[d] EXCEPT !.pc = "write", !.source = report.source,
                          !.prioritySource = report.prioritySource, !.description = report.analysisCount]
    BY <1>0, <2>1
  <2>3. /\ delivery'[d].pc = "write" /\ delivery'[d].tries = delivery[d].tries
        /\ delivery'[d].source = report.source /\ delivery'[d].prioritySource = report.prioritySource
    BY <1>0, <2>2 DEF DeliveryRecord
  <2> QED BY <1>7, <2>1, <2>3
<1>8. CASE Reload(d)
  <2>1. /\ UNCHANGED report /\ IsCurrentPending(d)
        /\ delivery' = [delivery EXCEPT ![d] = [delivery[d] EXCEPT !.pc = "write", !.source = report.source,
                        !.prioritySource = report.prioritySource, !.tries = delivery[d].tries + 1]]
    BY <1>0, <1>4, <1>8 DEF Reload
  <2>2. delivery'[d] = [delivery[d] EXCEPT !.pc = "write", !.source = report.source,
                          !.prioritySource = report.prioritySource, !.tries = delivery[d].tries + 1]
    BY <1>0, <2>1
  <2>3. /\ delivery'[d].pc = "write" /\ delivery'[d].tries = delivery[d].tries + 1
        /\ delivery'[d].source = report.source /\ delivery'[d].prioritySource = report.prioritySource
    BY <1>0, <2>2 DEF DeliveryRecord
  <2> QED BY <1>8, <2>1, <2>3
<1>9. ASSUME NEW c \in Category, NEW confident \in BOOLEAN, WriteResult(d, c, confident)
      PROVE  /\ delivery[d].pc = "write" /\ ~Unchanged(d) /\ UNCHANGED report
             /\ delivery'[d] = [delivery[d] EXCEPT !.pc = "reload"]
  BY <1>0, <1>4, <1>9 DEF WriteResult, Goto
<1>10. ~((\E failure \in {"retryable", "lasting"} : HandlerFails(d, failure)) \/ DatabaseFails(d))
  BY <1>4 DEF HandlerFails, DatabaseFails
<1>11. ~(RecordStale(d) \/ Dies(d) \/ \E state \in {"OPEN", "DONE", "FAILED"} : Record(d, state))
  BY <1>5 DEF RecordStale, Dies, Record
<1>12. CASE DeliveryNext(d) \/ DatabaseFails(d) \/ Dies(d)
  BY <1>6, <1>7, <1>8, <1>9, <1>10, <1>11, <1>12 DEF DeliveryNext, RecordDone, RecordRetry, RecordFailed
<1> QED BY <1>1, <1>2, <1>3, <1>12, DeliverySteps

\* A delivery that may answer after a step could answer before it, or claims the report with it; and
\* meanwhile a source became a decision of staff, if it changed.
LEMMA CurrentBefore ==
  ASSUME TypeOK, Unfiled, [Next]_vars, NEW d \in Delivery, delivery'[d].pc \in {"write", "reload"},
         delivery'[d].requestSeq = delivery[d].requestSeq, delivery[d].pc \notin {"free", "claimReport"},
         IsCurrentPending(d)'
  PROVE  /\ IsCurrentPending(d)
         /\ report'.source \in {report.source, "STAFF"}
         /\ report'.prioritySource \in {report.prioritySource, "STAFF"}
<1>0. report \in Report /\ None \notin Delivery
  BY NamesAssumption DEF TypeOK
<1>1. ~Asks
  BY <1>0 DEF Asks, Asked, IsCurrentPending, Report
<1>2. ASSUME NEW hint \in Category \cup {None}, CreateComplaint(hint) PROVE FALSE
  BY <1>2 DEF CreateComplaint, Unfiled
<1>3. CASE ChangePriority \/ \E c \in Category : Recategorise(c)
  BY <1>0, <1>3 DEF ChangePriority, Recategorise, IsCurrentPending, Awaited, Live, Report
<1>4. ~Withdraw
  BY <1>0 DEF Withdraw, IsCurrentPending, Awaited, Live, Report
<1>5. ASSUME NEW f \in Delivery, ClaimReport(f) PROVE UNCHANGED report
  BY <1>0, <1>5 DEF ClaimReport, IsCurrentPending, Report
<1>6. ASSUME NEW f \in Delivery, Answers(f) \/ FailsWith(f) PROVE FALSE
  BY <1>0, <1>6 DEF Answers, Decided, FailsWith, FailedReport, IsCurrentPending, Awaited, Report
<1>7. CASE UNCHANGED report
  BY <1>7 DEF IsCurrentPending, Awaited, Live
<1> QED BY <1>1, <1>2, <1>3, <1>4, <1>5, <1>6, <1>7, ReportSteps

\* A write that is lost finds one more decision of staff than it knew of.
LEMMA TriesStep == TypeOK /\ Unfiled /\ TriesInv /\ [Next]_vars => TriesInv'
<1> SUFFICES ASSUME TypeOK, Unfiled, TriesInv, [Next]_vars PROVE TriesInv'
  OBVIOUS
<1>0. delivery \in [Delivery -> DeliveryRecord] /\ report \in Report
  BY DEF TypeOK
<1>1. ASSUME NEW d \in Delivery, delivery'[d].pc \in {"claimReport", "load"} PROVE delivery'[d].tries = 0
  <2>1. delivery[d].pc \in {"claimReport", "load"} => delivery[d].tries = 0
    BY DEF TriesInv, NotTried
  <2>2. \/ UNCHANGED delivery[d]
        \/ delivery'[d].pc = "claimReport" /\ delivery'[d].tries = 0
        \/ ClaimReport(d) /\ delivery'[d].tries = delivery[d].tries
        \/ delivery'[d] = [delivery[d] EXCEPT !.pc = "reload"]
    BY <1>1, WriterSteps
  <2> QED BY <1>0, <1>1, <2>1, <2>2 DEF ClaimReport, DeliveryRecord
<1>2. ASSUME NEW d \in Delivery, delivery'[d].pc \in {"write", "reload"}, IsCurrentPending(d)'
      PROVE  /\ report'.source \in {delivery'[d].source, "STAFF"}
             /\ report'.prioritySource \in {delivery'[d].prioritySource, "STAFF"}
             /\ delivery'[d].tries <= Settled(delivery'[d].source, delivery'[d].prioritySource)
             /\ delivery'[d].pc = "reload" =>
                  \/ report'.source # delivery'[d].source
                  \/ report'.prioritySource # delivery'[d].prioritySource
  <2>0. LostToStaff(d) /\ delivery[d].tries \in Nat /\ (delivery[d].pc = "load" => delivery[d].tries = 0)
    BY <1>0 DEF TriesInv, NotTried, DeliveryRecord
  <2>1. SameJob(d) /\ delivery[d].pc # "claimReport"
    <3>1. SameJob(d)
      BY <1>2, PastTheClaim
    <3> QED BY <1>0, <1>2, <3>1, WriterSteps DEF ClaimReport, Load, Reload, DeliveryRecord
  <2>2. /\ IsCurrentPending(d)
        /\ report'.source \in {report.source, "STAFF"}
        /\ report'.prioritySource \in {report.prioritySource, "STAFF"}
    BY <1>2, <2>1, CurrentBefore DEF SameJob
  <2>3. CASE UNCHANGED delivery[d]
    BY <1>2, <2>0, <2>2, <2>3 DEF LostToStaff
  <2>4. CASE /\ Load(d) /\ UNCHANGED report
             /\ delivery'[d].pc = "write" /\ delivery'[d].tries = delivery[d].tries
             /\ delivery'[d].source = report.source /\ delivery'[d].prioritySource = report.prioritySource
    BY <2>0, <2>4 DEF Load, Settled, Staff
  <2>5. CASE /\ delivery[d].pc = "write" /\ ~Unchanged(d) /\ UNCHANGED report
             /\ delivery'[d] = [delivery[d] EXCEPT !.pc = "reload"]
    <3>1. /\ delivery'[d].source = delivery[d].source /\ delivery'[d].prioritySource = delivery[d].prioritySource
          /\ delivery'[d].tries = delivery[d].tries
      BY <1>0, <2>5 DEF DeliveryRecord
    <3>2. report.source # delivery[d].source \/ report.prioritySource # delivery[d].prioritySource
      BY <2>2, <2>5 DEF Unchanged
    <3> QED BY <2>0, <2>2, <2>5, <3>1, <3>2 DEF LostToStaff
  <2>6. CASE /\ Reload(d) /\ UNCHANGED report
             /\ delivery'[d].pc = "write" /\ delivery'[d].tries = delivery[d].tries + 1
             /\ delivery'[d].source = report.source /\ delivery'[d].prioritySource = report.prioritySource
    <3>1. delivery[d].tries + 1 <= Settled(report.source, report.prioritySource)
      BY <2>0, <2>2, <2>6 DEF Reload, LostToStaff, Settled, Staff
    <3> QED BY <2>6, <3>1
  <2> QED BY <1>2, <2>1, <2>3, <2>4, <2>5, <2>6, WriterSteps
<1> QED BY <1>1, <1>2 DEF TriesInv, NotTried, LostToStaff

\* Three writes suffice, as many as WRITE_TRIES of aiJobs.js allows: the category and the priority can
\* each become a decision of staff once.
THEOREM TriesSuffice ==
  ASSUME WriteTries >= 3
  PROVE  Spec => []WriteTriesSuffice
<1>1. Init => TriesInv
  BY DEF Init, Free, TriesInv, NotTried, LostToStaff
<1>2. TypeOK /\ ReportInv /\ TriesInv /\ [Next]_vars => TriesInv'
  BY TriesStep DEF ReportInv
<1>3. TypeOK /\ TriesInv => WriteTriesSuffice
  <2> SUFFICES ASSUME TypeOK, TriesInv, NEW d \in Delivery, delivery[d].pc = "reload", Exhausted(d),
                      IsCurrentPending(d)
               PROVE  FALSE
    BY DEF WriteTriesSuffice
  <2>1. delivery[d].tries >= 2
    BY BoundsAssumption DEF TypeOK, DeliveryRecord, Exhausted
  <2>2. LostToStaff(d) /\ delivery[d].tries \in Nat
    BY DEF TriesInv, TypeOK, DeliveryRecord
  <2> QED BY <2>1, <2>2 DEF LostToStaff, Settled, Staff
<1> QED BY <1>1, <1>2, <1>3, TypeCorrect, ReportInvariant, PTL DEF Spec

-------------------------------------------------------------------------------
(* A request that waits has a job.                                             *)

\* Without a failing database, the delivery that holds the job and fails holds the report as well, as
\* long as the request is not answered.
FailsWithReport ==
  \A d \in Delivery : delivery[d].pc = "record" /\ delivery[d].outcome # "ok" /\ HoldsEntry(d) /\ Awaited(d) =>
                       report.token = d

\* Only a delivery that has claimed the report fails, if the database does not.
LEMMA FailureStage ==
  ASSUME TypeOK, [Next]_vars, "error" \notin Faults, NEW d \in Delivery, delivery'[d].pc = "record",
         delivery'[d].outcome # "ok"
  PROVE  UNCHANGED delivery[d] \/ delivery[d].pc \in {"load", "write", "reload"}
<1>0. delivery \in [Delivery -> DeliveryRecord] /\ delivery[d] \in DeliveryRecord
  BY DEF TypeOK
<1>1. CASE UNCHANGED delivery
  BY <1>1
<1>2. ASSUME NEW f \in Delivery, DeliveryNext(f) \/ DatabaseFails(f) \/ Dies(f), f # d PROVE UNCHANGED delivery[d]
  <2>1. PICK r : delivery' = [delivery EXCEPT ![f] = r]
    BY <1>2, DeliveryChange
  <2> QED BY <1>0, <1>2, <2>1
<1>3. ASSUME NEW e \in Entry, Claim(e) PROVE UNCHANGED delivery[d]
  <2>1. PICK f \in Delivery : ClaimedBy(f)
    BY <1>3, ClaimStep
  <2>2. PICK g \in Entry : delivery' = [delivery EXCEPT ![f] =
           [Free EXCEPT !.pc = "claimReport", !.entry = g, !.requestSeq = entry[g].requestSeq,
                        !.runKey = entry[g].runKey, !.attempts = entry[g].attempts]]
    BY <2>1 DEF ClaimedBy
  <2> QED BY <1>0, <2>2 DEF Free
<1>4. ~Goto(d, "load") /\ ~Ends(d, "ok")
  BY <1>0 DEF Goto, Ends, DeliveryRecord
<1>5. delivery' # [delivery EXCEPT ![d] = Free]
  BY <1>0 DEF Free
<1>6. CASE DeliveryNext(d) \/ DatabaseFails(d) \/ Dies(d)
  BY <1>4, <1>5, <1>6 DEF DeliveryNext, ClaimReport, Load, HandlerFails, WriteResult, Reload, RecordDone,
                          RecordRetry, RecordStale, RecordFailed, Record, DatabaseFails, Dies, Fault
<1> QED BY <1>1, <1>2, <1>3, <1>6, DeliverySteps

\* The failing delivery keeps the report until the request is answered.
LEMMA FailsWithReportStep ==
  ASSUME "error" \notin Faults
  PROVE  /\ TypeOK /\ Unfiled /\ SeqsPast /\ SeqsDistinct /\ OfAJob /\ TokenKept /\ FailsWithReport /\ [Next]_vars
         => FailsWithReport'
<1> SUFFICES ASSUME TypeOK, Unfiled, SeqsPast, SeqsDistinct, OfAJob, TokenKept, FailsWithReport, [Next]_vars,
                    NEW d \in Delivery, delivery'[d].pc = "record", delivery'[d].outcome # "ok",
                    HoldsEntry(d)', Awaited(d)'
             PROVE  report'.token = d
  BY DEF FailsWithReport
<1>1. SameJob(d)
  BY PastTheClaim
<1>2. HoldsEntry(d) /\ Awaited(d) /\ SameRequests
  BY <1>1, AwaitedBefore
<1>3. report.token = d
  BY <1>2, FailureStage DEF TokenKept, FailsWithReport
<1> QED BY <1>1, <1>2, <1>3, TokenStays DEF SameJob

\* A job that may run stops being one only by a terminal write of a delivery that holds it, if every
\* worker knows its type.
LEMMA OpenStep ==
  ASSUME TypeOK, OfAJob, [Next]_vars, SameRequests, "version" \notin Faults, NEW e \in Entry,
         entry[e].state = "OPEN", entry'[e].state # "OPEN"
  PROVE  \E d \in Delivery : /\ delivery[d].pc = "record" /\ delivery[d].entry = e /\ HoldsEntry(d)
                             /\ \/ RecordDone(d)
                                \/ \E code \in {"passing", "lasting"} : RecordFailed(d, code)
<1>0. entry \in [Entry -> EntryRecord] /\ entry[e] \in EntryRecord
  BY DEF TypeOK
<1>1. ASSUME NEW g \in Entry, DismissJob(g) \/ UnknownType(g) PROVE FALSE
  BY <1>0, <1>1 DEF DismissJob, UnknownType, Dismissed, EntryRecord, Fault
<1>2. ASSUME NEW g \in Entry, Claim(g) PROVE FALSE
  <2>1. PICK f \in Delivery : ClaimedBy(f)
    BY <1>2, ClaimStep
  <2> QED BY <1>0, <2>1 DEF ClaimedBy, EntryRecord
<1>3. ASSUME NEW seq, EnqueueClassification(seq) PROVE FALSE
  <2>1. (CHOOSE f \in {g \in Entry : entry[g].state = "NEW"} : TRUE) # e
    BY <1>3 DEF EnqueueClassification
  <2> QED BY <1>0, <1>3, <2>1 DEF EnqueueClassification, Dismissed
<1>4. ASSUME NEW g \in Entry, RetryJob(g) PROVE FALSE
  BY <1>0, <1>4 DEF RetryJob, Dismissed
<1>5. PICK d \in Delivery : DeliveryNext(d) \/ DatabaseFails(d) \/ Dies(d)
  <2>1. entry' # entry
    OBVIOUS
  <2> QED BY <1>1, <1>2, <1>3, <1>4, <2>1
          DEF Next, vars, People, SweepFailed, Reclassify, RequestClassification, EditComplaint, CreateComplaint,
              Withdraw, ChangePriority, Recategorise
<1>6. RecordDone(d) \/ RecordRetry(d) \/ \E code \in {"passing", "lasting"} : RecordFailed(d, code)
  BY <1>5 DEF DeliveryNext, ClaimReport, Load, HandlerFails, WriteResult, Reload, RecordStale, DatabaseFails, Dies
<1>7. delivery[d].entry = e /\ ~RecordRetry(d)
  BY <1>0, <1>6, ZenonT(60) DEF RecordDone, RecordRetry, RecordFailed, Record, EntryRecord
<1> QED BY <1>6, <1>7 DEF RecordDone, RecordFailed, Record, Fenced

\* A job that ends, ends with the request it is for.
LEMMA PendingStep ==
  ASSUME "version" \notin Faults
  PROVE  /\ TypeOK /\ Unfiled /\ OfAJob /\ OkIsAnswered /\ FailsWithReport /\ PendingHasJob /\ [Next]_vars
         => PendingHasJob'
<1> SUFFICES ASSUME TypeOK, Unfiled, OfAJob, OkIsAnswered, FailsWithReport, PendingHasJob, [Next]_vars,
                    Live', report'.aiStatus = "PENDING"
             PROVE  \E e \in Entry : entry'[e].state = "OPEN" /\ entry'[e].requestSeq = report'.requestSeq
  BY DEF PendingHasJob
<1>0. entry \in [Entry -> EntryRecord] /\ report \in Report
  BY DEF TypeOK
<1>1. CASE Requests
  <2>1. CASE EnqueueClassification(report.requestSeq + 1)
    <3> DEFINE first == CHOOSE f \in {e \in Entry : entry[e].state = "NEW"} : TRUE
    <3>1. first \in Entry /\ entry'[first] = [entry[first] EXCEPT !.state = "OPEN", !.requestSeq = report.requestSeq + 1]
      BY <2>1 DEF EnqueueClassification
    <3> HIDE DEF first
    <3> QED BY <1>0, <1>1, <3>1 DEF Requests, EntryRecord
  <2>2. ASSUME NEW e \in Entry, RetryJob(e)
        PROVE  entry'[e].state = "OPEN" /\ entry'[e].requestSeq = report.requestSeq + 1
    <3>1. entry'[e] = [entry[e] EXCEPT !.state = "OPEN", !.requestSeq = report.requestSeq + 1,
                                       !.attempts = 0, !.runKey = entry[e].runKey + 1]
      BY <2>2 DEF RetryJob
    <3> QED BY <1>0, <3>1 DEF EntryRecord
  <2> QED BY <1>1, <2>1, <2>2 DEF Requests
<1>2. CASE SameRequests
  <2>1. PICK e \in Entry : entry[e].state = "OPEN" /\ entry[e].requestSeq = report.requestSeq
    BY <1>2 DEF SameRequests, PendingHasJob, Live
  <2>2. entry'[e].requestSeq = report'.requestSeq
    BY <1>2, <2>1 DEF SameRequests
  <2>3. ASSUME entry'[e].state # "OPEN" PROVE FALSE
    <3>1. PICK d \in Delivery : /\ delivery[d].pc = "record" /\ delivery[d].entry = e /\ HoldsEntry(d)
                                /\ \/ RecordDone(d)
                                   \/ \E code \in {"passing", "lasting"} : RecordFailed(d, code)
      BY <1>2, <2>1, <2>3, OpenStep
    <3>2. Awaited(d)
      BY <1>2, <2>1, <3>1 DEF OfAJob, SameRequests, Awaited, Live
    <3>3. ~RecordDone(d)
      BY <3>1, <3>2 DEF OkIsAnswered, RecordDone
    <3>4. PICK code \in {"passing", "lasting"} : RecordFailed(d, code)
      BY <3>1, <3>3
    <3>5. IsCurrentPending(d)
      BY <3>1, <3>2, <3>4 DEF FailsWithReport, RecordFailed, IsCurrentPending
    <3>6. report' = FailedReport(code)
      BY <3>4, <3>5 DEF RecordFailed
    <3> QED BY <1>0, <3>6 DEF FailedReport, Report
  <2> QED BY <2>2, <2>3
<1> QED BY <1>1, <1>2, RequestSteps

\* A report that says it is being classified has a job that may still run, however deliveries crash, hang
\* and take each other over; a worker of another version and a database that fails while the report is
\* claimed are excluded, and each of them can leave a report without one.
THEOREM PendingHasAJob ==
  ASSUME Faults \subseteq {"crash", "slow"}
  PROVE  Spec => []PendingHasJob
<1>0. "error" \notin Faults /\ "version" \notin Faults
  OBVIOUS
<1>1. Init => FailsWithReport /\ PendingHasJob
  BY DEF Init, Free, FailsWithReport, PendingHasJob, Live
<1>2. /\ TypeOK /\ ReportInv /\ JobInv /\ FailsWithReport /\ PendingHasJob /\ [Next]_vars
      => FailsWithReport' /\ PendingHasJob'
  BY <1>0, FailsWithReportStep, PendingStep DEF ReportInv, JobInv
<1> QED BY <1>1, <1>2, TypeCorrect, ReportInvariant, JobInvariant, PTL DEF Spec
===============================================================================
