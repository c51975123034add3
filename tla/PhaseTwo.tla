------------------------------- MODULE PhaseTwo -------------------------------
(* The phase 2 migration of a report and the phase 4c migration after it, run  *)
(* beside the program: the category recorded with the report, the sources of   *)
(* its category and priority, its timeline, and the state of its               *)
(* classification.                                                             *)
(* Sources: scripts/migratePhase2.js, scripts/migratePhase4c.js,               *)
(* complaintEditService.js, complaintRecategoriseService.js,                   *)
(* complaintController.js, classificationRequests.js, classificationPolicy.js. *)
(*                                                                             *)
(* One report, which need not be classified when the scripts begin.  Phase 2   *)
(* writes it only at the version it read; phase 4c marks it in one update.     *)
EXTENDS Naturals

CONSTANTS
  Category,    \* categories
  Unset,       \* a field that is not there
  MaxChanges,  \* bound: changes the program makes
  MaxRuns      \* bound: runs of phase 2

UnsetAssumption == Unset \notin Category
BoundAssumption == MaxChanges \in Nat /\ MaxRuns \in Nat

VARIABLES
  report,    \* the report
  ai,        \* its classification state
  job,       \* the request a queued job stands for, 0 when there is none
  plan,      \* what phase 2 read, while it runs
  ghost,     \* entries ever written to the timeline; whether a decision of the staff was lost
  bounds     \* changes of the program and runs of phase 2

vars == <<report, ai, job, plan, ghost, bounds>>

PrioritySource == {"unset", "AI", "CATEGORY_DEFAULT", "STAFF"}
NoAi == [there |-> "absent", status |-> "unset", seq |-> 0, mode |-> FALSE, count |-> 0, error |-> FALSE]
OldAi == [NoAi EXCEPT !.there = "yes"]
NullAi == [NoAi EXCEPT !.there = "null"]
OldReport(c) == [category |-> c, snapshot |-> Unset, source |-> "unset", psource |-> "unset",
                 typed |-> FALSE, entries |-> 1, version |-> 0]

TypeOK ==
  /\ report \in [category: Category, snapshot: Category \cup {Unset}, source: {"unset", "AI", "FALLBACK", "STAFF"},
                 psource: PrioritySource, typed: BOOLEAN, entries: Nat, version: Nat]
  /\ ai \in [there: {"yes", "null", "absent"}, status: {"unset", "PENDING", "DONE", "FAILED"}, seq: Nat,
             mode: BOOLEAN, count: Nat, error: BOOLEAN]
  /\ job \in Nat /\ plan.ready \in BOOLEAN

NoPlan == [ready |-> FALSE, report |-> OldReport(CHOOSE c \in Category : TRUE), ai |-> NoAi]
Init ==
  /\ \E c \in Category : report = OldReport(c)
  /\ ai \in {NoAi, NullAi, OldAi, [OldAi EXCEPT !.error = TRUE]}
  /\ job = 0 /\ plan = NoPlan
  /\ ghost = [entries |-> 1, overruled |-> FALSE]
  /\ bounds = [changes |-> 0, runs |-> 0]

-----------------------------------------------------------------------------
(* The program *)

Change == bounds.changes < MaxChanges /\ bounds' = [bounds EXCEPT !.changes = @ + 1] /\ UNCHANGED plan
Wrote(n) == ghost' = [ghost EXCEPT !.entries = @ + n]

\* A request counts up and leaves nothing of the result before; a null field takes no counter.
Requested == [ai EXCEPT !.there = "yes", !.status = "PENDING", !.seq = @ + 1, !.mode = FALSE, !.error = FALSE]

\* The owner's material edit requests a classification and makes a version.
Edit ==
  /\ Change /\ ai.there # "null"
  /\ report' = [report EXCEPT !.version = @ + 1]
  /\ ai' = [Requested EXCEPT !.count = @ + 1] /\ job' = ai'.seq
  /\ UNCHANGED ghost

\* The administrator's request makes no version.
Reclassify ==
  /\ Change /\ ai.there # "null" /\ ai.status # "PENDING"
  /\ ai' = Requested /\ job' = ai'.seq
  /\ UNCHANGED <<report, ghost>>

Recategorise(c) ==
  /\ Change /\ c # report.category
  /\ report' = [report EXCEPT !.category = c, !.snapshot = c, !.source = "STAFF", !.entries = @ + 1, !.version = @ + 1]
  /\ Wrote(1) /\ UNCHANGED <<ai, job>>

\* A status or a priority changed by the staff.
UpdateStatus ==
  /\ Change
  /\ \E p \in {report.psource, "STAFF"} :
       report' = [report EXCEPT !.psource = p, !.entries = @ + 1, !.version = @ + 1]
  /\ Wrote(1) /\ UNCHANGED <<ai, job>>

\* The job writes its answer where the request is still the current one; it makes no version.
Classify(c) ==
  /\ job # 0
  /\ job' = 0
  /\ IF ai.status = "PENDING" /\ ai.seq = job
     THEN /\ report' = [report EXCEPT !.category = IF report.source = "STAFF" THEN @ ELSE c,
                                      !.snapshot = IF report.source = "STAFF" THEN @ ELSE c,
                                      !.source = IF @ = "STAFF" THEN @ ELSE "AI",
                                      !.psource = IF @ = "STAFF" THEN @ ELSE "AI"]
          /\ ai' = [ai EXCEPT !.status = "DONE", !.mode = TRUE, !.error = FALSE]
     ELSE UNCHANGED <<report, ai>>
  /\ UNCHANGED <<plan, ghost, bounds>>

Fail ==
  /\ job # 0
  /\ job' = 0
  /\ ai' = IF ai.status = "PENDING" /\ ai.seq = job THEN [ai EXCEPT !.status = "FAILED"] ELSE ai
  /\ UNCHANGED <<report, plan, ghost, bounds>>

-----------------------------------------------------------------------------
(* Phase 2 *)

\* What phase 2 verifies.
Complete == report.snapshot # Unset /\ report.psource # "unset" /\ ai.mode /\ ai.count > 0 /\ report.typed

\* The analysis reads the report.
Analyze ==
  /\ ~plan.ready /\ ~Complete /\ bounds.runs < MaxRuns
  /\ plan' = [ready |-> TRUE, report |-> report, ai |-> ai]
  /\ bounds' = [bounds EXCEPT !.runs = @ + 1]
  /\ UNCHANGED <<report, ai, job, ghost>>

\* The planned fields replace those of the report, the others are left alone.
\* An untyped timeline is replaced as a whole.
PlannedReport(r, seen) ==
  [r EXCEPT !.snapshot = IF seen.report.snapshot = Unset THEN seen.report.category ELSE @,
            !.psource = IF seen.report.psource # "unset" THEN @ ELSE IF seen.ai.error THEN "CATEGORY_DEFAULT" ELSE "AI",
            !.entries = IF seen.report.typed THEN @ ELSE seen.report.entries,
            !.typed = TRUE]
\* A null or missing state is written whole.
PlannedAi(a, seen) ==
  CASE seen.ai.there # "yes" -> [OldAi EXCEPT !.mode = TRUE, !.count = 1]
    [] OTHER -> [a EXCEPT !.mode = @ \/ ~seen.ai.mode, !.count = IF seen.ai.count = 0 THEN 1 ELSE @]

\* Mutant of Unchanged: the update finds the report by its id alone.
UnchangedNotAsked == TRUE
\* The update finds the report at the version it was read.
Unchanged == report.version = plan.report.version
Apply ==
  /\ plan.ready
  /\ IF Unchanged
     THEN /\ report' = PlannedReport(report, plan)
          /\ ai' = PlannedAi(ai, plan)
          /\ ghost' = [ghost EXCEPT !.overruled = @ \/ (report.psource = "STAFF" /\ report'.psource # "STAFF")]
     ELSE UNCHANGED <<report, ai, ghost>>
  /\ plan' = NoPlan /\ UNCHANGED <<job, bounds>>

\* The run is stopped, or stopped by another report that changed, before this one.
Crash == plan.ready /\ plan' = NoPlan /\ UNCHANGED <<report, ai, job, ghost, bounds>>

-----------------------------------------------------------------------------
(* Phase 4c, once phase 2 has verified *)

\* Only a report without a state is marked, whatever it was when it was counted.
ToMark == ai.status = "unset"
MarkReports ==
  /\ ~plan.ready /\ ToMark /\ Complete
  /\ report' = [report EXCEPT !.source = IF @ # "unset" THEN @ ELSE IF ai.error THEN "FALLBACK" ELSE "AI"]
  /\ ai' = [ai EXCEPT !.there = "yes", !.status = IF ai.error THEN "FAILED" ELSE "DONE", !.seq = IF @ = 0 THEN 1 ELSE @]
  /\ UNCHANGED <<job, plan, ghost, bounds>>

-----------------------------------------------------------------------------
Next ==
  \/ Edit \/ Reclassify \/ UpdateStatus \/ Fail \/ Analyze \/ Apply \/ Crash \/ MarkReports
  \/ \E c \in Category : Recategorise(c) \/ Classify(c)
Spec == Init /\ [][Next]_vars
-----------------------------------------------------------------------------
(* Properties *)

(* The timeline phase 2 replaces holds every entry written since it was read,  *)
(* however often it is stopped, refused and run again                          *)
(* (migratePhase2.js:45-56, 140-141).                                          *)
TimelineKept == report.entries = ghost.entries

(* A priority the staff set while phase 2 ran is still the staff's afterwards  *)
(* (migratePhase2.js:57-60, complaintController.js:244-247).                   *)
StaffPriorityKept == ~ghost.overruled

(* A classification under way is never marked as done or failed by phase 4c:   *)
(* it is answered by its job (migratePhase4c.js:16, 65).                       *)
AnswersByJob ==
  ai.status = "PENDING" /\ job = ai.seq /\ ai.seq > 0 /\ job' = job => ai'.status \notin {"DONE", "FAILED"}
OnlyJobsAnswer == [][AnswersByJob]_vars

(* "Complaint ... changed during migration; re-run after it settles"           *)
(* (migratePhase2.js:141): a report that changed is not written, so that the   *)
(* category recorded with a report is the report's category.                   *)
\* Does not hold: README, section 6.
SnapshotIsCategory == report.snapshot \in {Unset, report.category}

(* The same of a request, which makes no version either: the report waits for  *)
(* the classification that waits in the queue                                  *)
(* (classificationRequests.js:39-50).                                          *)
\* Does not hold: README, section 6.
QueuedIsPending == job > 0 => ai.status = "PENDING" /\ ai.seq = job

=============================================================================
