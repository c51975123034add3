------------------------------ MODULE Workflow ------------------------------
(* One report and the accounts around it: staff move it through its statuses,  *)
(* set its priority and category, administrators assign and delete it, its     *)
(* reporter edits and withdraws it, and meanwhile administrators change roles, *)
(* suspend and retire accounts.                                                *)
(*                                                                             *)
(* A request reads first and writes later.  Two devices keep the writes        *)
(* honest: the filter of each report write (the version `__v` and what the     *)
(* decision was based on), and, for transactions that depend on accounts, one  *)
(* AdminControl document that each of them writes first, so that MongoDB lets  *)
(* only one of them be open (accountLifecycleGuard.js).                        *)
(*                                                                             *)
(* A transaction reads the database as it was at its first operation and       *)
(* aborts when a document it writes has been written since (snapshot           *)
(* isolation); `withTransaction` then runs it again.                           *)
EXTENDS Naturals, FiniteSets

CONSTANTS
  User,         \* accounts
  Reporter,     \* the account that filed the report
  Proved,       \* accounts whose address is proved (emailVerifiedAt, or Google)
  InitialRole,  \* the role each account starts with
  Request,      \* requests under way at a time
  Kinds,        \* the kinds of requests made
  Priority,     \* priorities
  Default,      \* the priority the category gives
  MAX_EDITS,    \* edits of a report (20 in the code)
  MaxVersion,   \* bound: versions of the report
  None

Role == {"citizen", "agency", "admin"}
Kind == {"staff", "reporter", "assign", "delete", "account", "leave", "bootstrap"}
Open == {"PENDING", "IN_REVIEW", "IN_PROGRESS"}
Status == Open \cup {"RESOLVED", "REJECTED", "WITHDRAWN", "DELETED"}
PrioritySource == {"CATEGORY_DEFAULT", "AI", "STAFF"}

ASSUME NamesAssumption ==
  /\ Reporter \in User /\ Proved \subseteq User /\ InitialRole \in [User -> Role]
  /\ None \notin User \cup Request \cup Priority \cup Status
  /\ Default \in Priority /\ Kinds \subseteq Kind
ASSUME BoundsAssumption == MAX_EDITS \in Nat /\ MaxVersion \in Nat

VARIABLES
  user,     \* the accounts
  report,   \* the report
  entry,    \* what the newest entry of its histories says of a priority or an assignee
  guard,    \* the request whose open transaction wrote the AdminControl document
  request   \* the requests

vars == <<user, report, entry, guard, request>>

Account == [role: Role, active: BOOLEAN, retired: BOOLEAN]
Report == [status: Status, assignee: User \cup {None}, version: Nat, edits: Nat,
           priority: Priority, prioritySource: PrioritySource]
Change(S) == [from: S, to: S]
\* `viewer` and `role` are what authentication found; `seen` is the report as first read,
\* `report` and `user` are the snapshot of the open transaction.
RequestState ==
  [pc: {"idle", "load", "write", "begin", "commit"}, kind: Kind, viewer: User, role: Role,
   seen: Report \cup {None}, report: Report \cup {None}, user: [User -> Account] \cup {None}]

Filed == [status |-> "PENDING", assignee |-> None, version |-> 0, edits |-> 0,
          priority |-> Default, prioritySource |-> "CATEGORY_DEFAULT"]
Idle == [pc |-> "idle", kind |-> "staff", viewer |-> Reporter, role |-> "citizen",
         seen |-> None, report |-> None, user |-> None]

TypeOK ==
  /\ user \in [User -> Account]
  /\ report \in Report
  /\ entry \in [priority: Change(Priority \cup {None}), assignee: Change(User \cup {None})]
  /\ guard \in Request \cup {None}
  /\ request \in [Request -> RequestState]

NoEntry == [priority |-> [from |-> None, to |-> None], assignee |-> [from |-> None, to |-> None]]

Init ==
  /\ user = [u \in User |-> [role |-> InitialRole[u], active |-> TRUE, retired |-> FALSE]]
  /\ report = Filed
  /\ entry = NoEntry
  /\ guard = None
  /\ request = [r \in Request |-> Idle]

-----------------------------------------------------------------------------
(* Authority.                                                                  *)

Active(a) == a.active /\ ~a.retired
Administrator(a) == Active(a) /\ a.role = "admin"
Administrators(us) == {u \in User : Administrator(us[u])}
Agency(a) == Active(a) /\ a.role = "agency"

\* The staff transitions of a report.
ALLOWED(from) ==
  CASE from = "PENDING"     -> {"IN_REVIEW", "REJECTED"}
    [] from = "IN_REVIEW"   -> {"PENDING", "IN_PROGRESS", "REJECTED"}
    [] from = "IN_PROGRESS" -> {"IN_REVIEW", "RESOLVED", "REJECTED"}
    [] from = "RESOLVED"    -> {"IN_PROGRESS"}
    [] from = "REJECTED"    -> {"PENDING"}
    [] OTHER                -> {}

\* Administrators act on any report, agency staff on those assigned to them.
CanManageStatus(r, complaint) ==
  request[r].role = "admin" \/ (request[r].role = "agency" /\ complaint.assignee = request[r].viewer)

\* The roles a route admits.
RestrictTo(kind) ==
  CASE kind = "staff" -> {"admin", "agency"}
    [] kind \in {"assign", "delete", "account"} -> {"admin"}
    [] OTHER -> Role

-----------------------------------------------------------------------------
(* Requests.                                                                   *)

At(r, kind, pc) == request[r].kind = kind /\ request[r].pc = pc

\* Authentication reads the account once; the request keeps that role to its end.
Arrive(r, v, kind) ==
  /\ request[r].pc = "idle"
  /\ kind \in Kinds \ {"bootstrap"}
  /\ Active(user[v]) /\ user[v].role \in RestrictTo(kind)
  /\ kind = "reporter" => v = Reporter
  /\ request' = [request EXCEPT ![r] = [Idle EXCEPT
       !.pc = IF kind \in {"account", "leave"} THEN "begin" ELSE "load",
       !.kind = kind, !.viewer = v, !.role = user[v].role]]
  /\ UNCHANGED <<user, report, entry, guard>>

\* The operator starts the script that creates the first administrator.
ArriveBootstrap(r) ==
  /\ request[r].pc = "idle" /\ "bootstrap" \in Kinds
  /\ request' = [request EXCEPT ![r] = [Idle EXCEPT !.pc = "begin", !.kind = "bootstrap"]]
  /\ UNCHANGED <<user, report, entry, guard>>

\* The request ends without an effect: refused, its filter matched nothing, or the process died,
\* which aborts its transaction.
Drop(r) ==
  /\ request[r].pc # "idle"
  /\ request' = [request EXCEPT ![r] = Idle]
  /\ guard' = IF guard = r THEN None ELSE guard
  /\ UNCHANGED <<user, report, entry>>

\* The handler reads the report and refuses what it must not touch.
Load(r) ==
  /\ request[r].pc = "load" /\ report.status # "DELETED"
  /\ \/ request[r].kind = "staff" /\ CanManageStatus(r, report)
     \/ request[r].kind = "reporter" /\ report.status = "PENDING"
     \/ request[r].kind = "assign" /\ report.status # "WITHDRAWN"
  /\ request' = [request EXCEPT ![r].seen = report,
                                ![r].pc = IF request[r].kind = "assign" THEN "begin" ELSE "write"]
  /\ UNCHANGED <<user, report, entry, guard>>

\* A report write lands, counted by the version.
Write(r, changed) ==
  /\ report.version < MaxVersion
  /\ report' = [changed EXCEPT !.version = report.version + 1]
  /\ request' = [request EXCEPT ![r] = Idle]

Recorded(field, from, to) == entry' = [NoEntry EXCEPT ![field] = [from |-> from, to |-> to]]

-----------------------------------------------------------------------------
(* Staff.                                                                      *)

\* Mutant of UpdateFilter: the classification's writes are forgotten, which do not count as a
\* version.
UpdateFilterWithoutPriority(r, p) ==
  /\ report.status = request[r].seen.status /\ report.version = request[r].seen.version
  /\ request[r].role = "agency" => report.assignee = request[r].seen.assignee

\* Mutant of UpdateFilter: the version is left to the client's expectedVersion.
UpdateFilterWithoutVersion(r, p) ==
  LET seen == request[r].seen IN
  /\ report.status = seen.status
  /\ p # None => report.priority = seen.priority /\ report.prioritySource = seen.prioritySource

\* The filter of a status or priority update.  `p` is None when no priority is asked for.
UpdateFilter(r, p) ==
  LET seen == request[r].seen IN
  /\ report.status = seen.status /\ report.version = seen.version
  /\ p # None => report.priority = seen.priority /\ report.prioritySource = seen.prioritySource
  /\ request[r].role = "agency" => report.assignee = seen.assignee

NewPriority(p, current) == IF p = None THEN current ELSE p

\* A change of status to `to`, of priority to `p`, or of both; None leaves one alone.
UpdateComplaintStatus(r, to, p) ==
  LET seen == request[r].seen
      setsPriority == p \notin {None, seen.priority} IN
  /\ At(r, "staff", "write")
  /\ IF to = None THEN seen.status # "WITHDRAWN" /\ setsPriority ELSE to \in ALLOWED(seen.status)
  /\ UpdateFilter(r, p)
  /\ Write(r, [report EXCEPT !.status = IF to = None THEN @ ELSE to,
                             !.priority = NewPriority(p, @),
                             !.prioritySource = IF setsPriority THEN "STAFF" ELSE @])
  /\ IF setsPriority THEN Recorded("priority", seen.priority, p) ELSE entry' = NoEntry
  /\ UNCHANGED <<user, guard>>

\* Staff change the category (the category itself is Classification's).
Recategorise(r) ==
  LET seen == request[r].seen IN
  /\ At(r, "staff", "write")
  /\ seen.status # "WITHDRAWN"
  /\ report.version = seen.version /\ report.status \notin {"WITHDRAWN", "DELETED"}
  /\ request[r].role = "agency" => report.assignee = request[r].viewer
  /\ Write(r, report)
  /\ entry' = NoEntry
  /\ UNCHANGED <<user, guard>>

\* The classification job sets a priority staff have not set; it does not count as a version.
ClassifierSetsPriority(p) ==
  /\ report.status \notin {"WITHDRAWN", "DELETED"} /\ report.prioritySource # "STAFF"
  /\ report' = [report EXCEPT !.priority = p, !.prioritySource = "AI"]
  /\ UNCHANGED <<user, entry, guard, request>>

\* An administrator deletes the report; the transaction reads and writes the one document, so a
\* concurrent write makes it start again and it takes effect at one instant.
DeleteComplaintPermanently(r) ==
  /\ At(r, "delete", "load") /\ report.status # "DELETED"
  /\ report' = [report EXCEPT !.status = "DELETED"]
  /\ request' = [request EXCEPT ![r] = Idle]
  /\ UNCHANGED <<user, entry, guard>>

-----------------------------------------------------------------------------
(* The reporter.                                                               *)

\* The filter of an edit or a withdrawal.
ReporterFilter(r) == report.status = "PENDING" /\ report.version = request[r].seen.version

\* A withdrawal also pins the assignee it releases.
WithdrawFilter(r) == ReporterFilter(r) /\ report.assignee = request[r].seen.assignee

EditComplaint(r) ==
  /\ At(r, "reporter", "write")
  /\ request[r].seen.edits < MAX_EDITS
  /\ ReporterFilter(r)
  /\ Write(r, [report EXCEPT !.edits = @ + 1])
  /\ entry' = NoEntry
  /\ UNCHANGED <<user, guard>>

\* Withdrawing releases the assignee, and records the one it read.
WithdrawComplaint(r) ==
  LET seen == request[r].seen IN
  /\ At(r, "reporter", "write")
  /\ WithdrawFilter(r)
  /\ Write(r, [report EXCEPT !.status = "WITHDRAWN",
                             !.assignee = IF seen.assignee = None THEN @ ELSE None])
  /\ IF seen.assignee = None THEN entry' = NoEntry ELSE Recorded("assignee", seen.assignee, None)
  /\ UNCHANGED <<user, guard>>

-----------------------------------------------------------------------------
(* Transactions under the lifecycle guard.                                     *)

\* Mutant of TouchAccountLifecycleGuard: the transaction reads the document and writes nothing.
ReadAccountLifecycleGuard(r) == guard' = guard

\* The transaction's first operation writes the AdminControl document: while another open
\* transaction has written it, MongoDB aborts this one and it starts again.
TouchAccountLifecycleGuard(r) == guard = None /\ guard' = r

\* Mutant of SameComplaint: only the assignee is compared.
SameAssignee(r) == report.status # "DELETED" /\ report.assignee = request[r].seen.assignee

\* An assignment goes on only with the report the handler had read.
SameComplaint(r) ==
  /\ report.status # "DELETED"
  /\ report.version = request[r].seen.version /\ report.assignee = request[r].seen.assignee

Begin(r) ==
  /\ request[r].pc = "begin"
  /\ TouchAccountLifecycleGuard(r)
  /\ request[r].kind = "assign" => SameComplaint(r)
  /\ request' = [request EXCEPT ![r].pc = "commit", ![r].report = report, ![r].user = user]
  /\ UNCHANGED <<user, report, entry>>

\* The transaction fails for a time, as after a write conflict, and starts again.
Retry(r) ==
  /\ request[r].pc = "commit"
  /\ request' = [request EXCEPT ![r].pc = "begin", ![r].report = None, ![r].user = None]
  /\ guard' = None
  /\ UNCHANGED <<user, report, entry>>

\* The transaction commits and ends the request.
Release(r) ==
  /\ guard' = None
  /\ request' = [request EXCEPT ![r] = Idle]

\* A transaction that writes the report commits only if nobody wrote it since the snapshot.
NoWriteConflict(r) == report = request[r].report

\* Assign to `t`, or to nobody; the transaction judges the accounts of its snapshot.
AssignComplaint(r, t) ==
  LET users == request[r].user
      current == request[r].report.assignee IN
  /\ At(r, "assign", "commit")
  /\ Administrator(users[request[r].viewer])
  /\ t # current
  /\ t # None => Agency(users[t])
  /\ NoWriteConflict(r) /\ report.version < MaxVersion
  /\ report' = [report EXCEPT !.assignee = t, !.version = @ + 1]
  /\ Recorded("assignee", current, t)
  /\ Release(r)
  /\ UNCHANGED user

\* Open work of account `t` in the snapshot.
OpenAssignment(r, t) == request[r].report.assignee = t /\ request[r].report.status \in Open

\* An administrator gives `t` a role and a standing.  The open assignments are counted, not
\* written: the transaction does not conflict with a write of the report.
MutateAdministrator(r, t, role, active) ==
  LET users == request[r].user
      actor == request[r].viewer IN
  /\ At(r, "account", "commit")
  /\ Administrator(users[actor]) /\ ~users[t].retired
  /\ role \in {"citizen", users[t].role} \/ t \in Proved
  /\ users[t].role = "admin" /\ ~(role = "admin" /\ active) =>
       actor # t /\ Cardinality(Administrators(users)) > 1
  /\ users[t].role = "agency" /\ ~(role = "agency" /\ active) => ~OpenAssignment(r, t)
  /\ user' = [user EXCEPT ![t].role = role, ![t].active = active]
  /\ Release(r)
  /\ UNCHANGED <<report, entry>>

\* Who may retire `t`: its owner (profile settings), or an administrator, never on themselves.
MayRetire(r, t) ==
  IF request[r].kind = "leave"
  THEN t = request[r].viewer /\ request[r].user[t].role # "admin"
  ELSE t # request[r].viewer /\ Administrator(request[r].user[request[r].viewer])

\* An account is retired; an agency's open report is given back in the same transaction.
RetireAccount(r, t) ==
  LET users == request[r].user IN
  /\ request[r].kind \in {"account", "leave"} /\ request[r].pc = "commit"
  /\ ~users[t].retired /\ MayRetire(r, t)
  /\ users[t].role = "admin" => Cardinality(Administrators(users)) > 1
  /\ user' = [user EXCEPT ![t].active = FALSE, ![t].retired = TRUE]
  /\ IF users[t].role = "agency" /\ OpenAssignment(r, t)
     THEN /\ NoWriteConflict(r) /\ report.version < MaxVersion
          /\ report' = [report EXCEPT !.assignee = None, !.version = @ + 1]
          /\ Recorded("assignee", t, None)
     ELSE UNCHANGED <<report, entry>>
  /\ Release(r)

\* The script makes an active citizen the first administrator.
BootstrapFirstAdministrator(r, t) ==
  LET users == request[r].user IN
  /\ At(r, "bootstrap", "commit")
  /\ Active(users[t]) /\ users[t].role = "citizen"
  /\ Administrators(users) = {}
  /\ user' = [user EXCEPT ![t].role = "admin"]
  /\ Release(r)
  /\ UNCHANGED <<report, entry>>

-----------------------------------------------------------------------------
ReportStep(r) ==
  \/ \E to \in Status \cup {None}, p \in Priority \cup {None} : UpdateComplaintStatus(r, to, p)
  \/ Recategorise(r)
  \/ DeleteComplaintPermanently(r)
  \/ EditComplaint(r)
  \/ WithdrawComplaint(r)

AccountStep(r) ==
  \/ \E t \in User \cup {None} : AssignComplaint(r, t)
  \/ \E t \in User :
       \/ \E role \in Role, active \in BOOLEAN : MutateAdministrator(r, t, role, active)
       \/ RetireAccount(r, t)
       \/ BootstrapFirstAdministrator(r, t)

Next ==
  \/ \E r \in Request :
       \/ \E v \in User, kind \in Kind : Arrive(r, v, kind)
       \/ ArriveBootstrap(r)
       \/ Drop(r)
       \/ Load(r)
       \/ Begin(r)
       \/ Retry(r)
       \/ ReportStep(r)
       \/ AccountStep(r)
  \/ \E p \in Priority : ClassifierSetsPriority(p)

Spec == Init /\ [][Next]_vars

-----------------------------------------------------------------------------
(* Properties.                                                                 *)

\* Once there is an active administrator there always is one: no interleaving of demotions,
\* suspensions and retirements, each judging accounts it read earlier, removes the last
\* (accountRetirementService.js, "The final active administrator cannot be changed").
AdministratorRemains == [][Administrators(user) # {} => Administrators(user)' # {}]_vars

\* The lifecycle transactions are serial: each change of an account takes effect at one instant
\* with the authority its rules ask for then.
Accounts == INSTANCE Roster
ImplementsRoster == Accounts!Spec

\* A report is only ever given to an account that is an active agency at that instant, though the
\* transaction read the account before (assignmentPolicy.js).
AssigneeEligible ==
  [][report'.assignee \notin {report.assignee, None} => Agency(user[report'.assignee])]_vars

\* A write by agency staff lands only while the report is assigned to them, however long ago the
\* handler checked it ("a reassignment mid-request cannot slip through",
\* complaintController.js:189-192).
AgencyActsOnOwn ==
  [][\A r \in Request :
       /\ At(r, "staff", "write") /\ request[r].role = "agency" /\ request'[r].pc = "idle"
       /\ report' # report
       => report.assignee = request[r].viewer]_vars

\* Whatever two requests read, statuses only move as the policy allows, by the reporter's
\* withdrawal of a pending report, or by deletion (complaintTransitionPolicy.js).
StatusFollowsPolicy ==
  [][report'.status # report.status =>
       \/ report'.status \in ALLOWED(report.status) \cup {"DELETED"}
       \/ report.status = "PENDING" /\ report'.status = "WITHDRAWN"]_vars

\* A withdrawn report is nobody's work: the withdrawal releases the assignee, and no assignment
\* that read the report before lands after it.
WithdrawnUnassigned == report.status = "WITHDRAWN" => report.assignee = None

\* The reporter never gets more edits than the limit by sending two at a time.
EditsWithinLimit == report.edits <= MAX_EDITS

\* Every change of assignee has its entry, and an entry names the account that really had the
\* report and the one that really has it, whatever was read before (complaintEditService.js,
\* complaintAssignmentService.js, accountRetirementService.js).
AssignmentRecorded ==
  [][\/ report'.assignee # report.assignee
     \/ entry' # entry /\ entry'.assignee # NoEntry.assignee
     => entry'.assignee = [from |-> report.assignee, to |-> report'.assignee]]_vars

\* Every change of priority by staff has its entry, and the priority an entry says was replaced
\* is the one the report had, although the classification writes priorities without a version.
PriorityRecorded ==
  [][\/ report'.priority # report.priority /\ report'.prioritySource = "STAFF"
     \/ entry' # entry /\ entry'.priority # NoEntry.priority
     => entry'.priority = [from |-> report.priority, to |-> report'.priority]]_vars

\* An account stops being an active agency only when no open report is assigned to it: a change
\* of the account is refused until the report is given up, a retirement gives it up
\* (accountRetirementService.js:62-76 and 190-202).
AgencyLeavesNoOpenWork ==
  [][\A u \in User : Agency(user[u]) /\ ~Agency(user'[u]) =>
       ~(report'.assignee = u /\ report'.status \in Open)]_vars

\* Filters on what was read keep the limits of the report, on a state of the right types
\* (complaintEditService.js:100-110, complaintAssignmentService.js:31-60).
ReportKept == TypeOK /\ WithdrawnUnassigned /\ EditsWithinLimit

\* Accounts keep the roles that the system and its reports need: an administrator, and an agency
\* for each assignment that is made (accountRetirementService.js:182, assignmentPolicy.js).
RolesKept == AdministratorRemains /\ AssigneeEligible

\* Whoever updates a report may, and may do what they do, at the instant of the write
\* (complaintController.js:256-262).
UpdatesLawful == AgencyActsOnOwn /\ StatusFollowsPolicy

\* The edit history tells what happened (complaintController.js:258, complaintEditService.js:103).
HistoryTrue == AssignmentRecorded /\ PriorityRecorded
=============================================================================
