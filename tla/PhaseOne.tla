------------------------------- MODULE PhaseOne -------------------------------
(* The phase 1 migration of a report, run beside the program that uses it: the *)
(* assignment a report already had is imported in its history, and the time of *)
(* its resolution is made to agree with its status.                            *)
(* Sources: scripts/migratePhase1.js, complaintAssignmentService.js,           *)
(* complaintTransitionPolicy.js.                                               *)
(*                                                                             *)
(* One report: the script treats each by itself.  Its analysis reads it, its   *)
(* update finds it by its id alone.  The script may stop between the two, and  *)
(* is run again until its verification finds nothing.  Users are never lost.   *)
EXTENDS Naturals

CONSTANTS
  Staff,        \* agency staff
  Nobody,       \* no assignee
  MaxChanges    \* bound: changes the program makes

StaffAssumption == Nobody \notin Staff
BoundAssumption == MaxChanges \in Nat

VARIABLES
  report,    \* the report
  plan,      \* what the analysis found to do, while the script runs
  changes    \* changes made by the program

vars == <<report, plan, changes>>

Assignee == Staff \cup {Nobody}
Time == {"none", "recorded", "estimated"}
\* What one update does: a new import names its assignee.
NoImport == "noImport"
Nothing == [import |-> NoImport, time |-> "keep"]
NoPlan == [ready |-> FALSE, update |-> Nothing]
Import == Staff \cup {NoImport}

TypeOK ==
  /\ report \in [resolved: BOOLEAN, time: Time, entry: BOOLEAN, assignee: Assignee, imports: Nat,
                 last: Assignee, wrong: BOOLEAN]
  /\ plan \in [ready: BOOLEAN, update: [import: Import, time: Time \cup {"keep"}]]
  /\ changes \in 0..MaxChanges

\* A report of the earlier program: no history of assignments, a time of resolution that need
\* not fit its status, and an entry of its resolution or none.
\* A report from before phase 1.
Fresh == [resolved: BOOLEAN, time: {"none", "recorded"}, entry: BOOLEAN, assignee: Assignee,
          imports: {0}, last: {Nobody}, wrong: {FALSE}]

Init ==
  /\ report \in Fresh
  /\ plan = NoPlan /\ changes = 0

-----------------------------------------------------------------------------
(* The program *)

Change(new) == changes < MaxChanges /\ changes' = changes + 1 /\ report' = new /\ UNCHANGED plan

\* Assigned, reassigned or unassigned, with an entry in the history.
Assign(a) == a # report.assignee /\ Change([report EXCEPT !.assignee = a, !.last = a])
Resolve == ~report.resolved /\ Change([report EXCEPT !.resolved = TRUE, !.time = "recorded", !.entry = TRUE])
Reopen == report.resolved /\ Change([report EXCEPT !.resolved = FALSE, !.time = "none"])

-----------------------------------------------------------------------------
(* The script *)

MustImport(r) == r.assignee # Nobody /\ r.imports = 0

\* The latest entry of a resolution tells its time; without one it is estimated.
TimeFor(r) ==
  CASE ~r.resolved /\ r.time # "none" -> "none"
    [] r.resolved /\ r.time = "none" -> IF r.entry THEN "recorded" ELSE "estimated"
    [] OTHER -> "keep"

\* What --verify counts as failures.
Failures(r) ==
  {f \in {"ASSIGNMENT_IMPORT_MISSING", "NON_RESOLVED_TIMESTAMP_PRESENT", "RESOLVED_TIMESTAMP_MISSING"} :
     CASE f = "ASSIGNMENT_IMPORT_MISSING" -> r.assignee # Nobody /\ r.imports = 0
       [] f = "NON_RESOLVED_TIMESTAMP_PRESENT" -> ~r.resolved /\ r.time # "none"
       [] f = "RESOLVED_TIMESTAMP_MISSING" -> r.resolved /\ r.time = "none"}

\* --apply, after --verify failed: the analysis.
Analyze ==
  /\ ~plan.ready /\ Failures(report) # {}
  /\ plan' = [ready |-> TRUE, update |-> [import |-> IF MustImport(report) THEN report.assignee ELSE NoImport,
                                          time |-> TimeFor(report)]]
  /\ UNCHANGED <<report, changes>>

\* The update of the report as it is by now.
Updated(r, u) ==
  [r EXCEPT !.time = IF u.time = "keep" THEN @ ELSE u.time,
            !.imports = IF u.import = NoImport THEN @ ELSE @ + 1,
            !.last = IF u.import = NoImport THEN @ ELSE u.import,
            !.wrong = @ \/ (u.import # NoImport /\ u.import # r.assignee)]
Apply ==
  /\ plan.ready
  /\ report' = Updated(report, plan.update)
  /\ plan' = NoPlan /\ UNCHANGED changes

\* The script is stopped before it came to this report.
Crash == plan.ready /\ plan' = NoPlan /\ UNCHANGED <<report, changes>>

-----------------------------------------------------------------------------
Program == Resolve \/ Reopen \/ \E a \in Assignee : Assign(a)
Next == Program \/ Analyze \/ Apply \/ Crash
Spec == Init /\ [][Next]_vars
\* The operator runs the script again while it does not verify, and some run is not stopped.
FairSpec == Spec /\ WF_vars(Analyze) /\ SF_vars(Apply)
-----------------------------------------------------------------------------
(* Properties *)

(* However often the script is stopped and run again, an assignment is         *)
(* imported once (migratePhase1.js:64-65).                                     *)
ImportedOnce == report.imports <= 1

(* A report in use beside the script ends verified: what a race leaves wrong   *)
(* is found by the next run, and no run undoes another                         *)
(* (migratePhase1.js:79-96, 119-127).                                         *)
EndsVerified == <>[](Failures(report) = {})

(* "Imported current assignment during Phase 1 migration"                      *)
(* (migratePhase1.js:73): the assignee an import names is the current one.     *)
\* Does not hold: README, section 6.
ImportIsCurrent == ~report.wrong

=============================================================================
