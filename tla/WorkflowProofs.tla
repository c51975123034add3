--------------------------- MODULE WorkflowProofs ----------------------------
(* Proofs about Workflow, for any accounts, requests, priorities and bounds.   *)
EXTENDS Workflow, TLAPS

-----------------------------------------------------------------------------
(* Types.                                                                      *)

\* The record of a slot without a request is well-formed.
LEMMA IdleType == Idle \in RequestState
BY NamesAssumption DEF Idle, RequestState, Kind, Role

\* A step of a request changes that request alone, to a well-formed record.
LEMMA RequestType ==
  TypeOK /\ [Next]_vars => request' \in [Request -> RequestState] /\ guard' \in Request \cup {None}
<1> SUFFICES ASSUME TypeOK, [Next]_vars
             PROVE  request' \in [Request -> RequestState] /\ guard' \in Request \cup {None}
  OBVIOUS
<1> DEFINE Goal == request' \in [Request -> RequestState] /\ guard' \in Request \cup {None}
<1>0. ASSUME NEW r \in Request, NEW x \in RequestState PROVE [request EXCEPT ![r] = x] \in [Request -> RequestState]
  BY DEF TypeOK
<1>1. ASSUME NEW r \in Request, request' = [request EXCEPT ![r] = Idle] PROVE request' \in [Request -> RequestState]
  BY <1>0, <1>1, IdleType
<1>2. ASSUME NEW r \in Request, NEW v \in User, NEW kind \in Kind, Arrive(r, v, kind) PROVE Goal
  <2> DEFINE x == [Idle EXCEPT !.pc = IF kind \in {"account", "leave"} THEN "begin" ELSE "load",
                               !.kind = kind, !.viewer = v, !.role = user[v].role]
  <2>1. user[v].role \in Role
    BY DEF TypeOK, Account
  <2>2. x \in RequestState
    BY <2>1, IdleType DEF RequestState
  <2> QED BY <1>0, <1>2, <2>2 DEF Arrive, TypeOK
<1>3. ASSUME NEW r \in Request, ArriveBootstrap(r) PROVE Goal
  <2>1. [Idle EXCEPT !.pc = "begin", !.kind = "bootstrap"] \in RequestState
    BY IdleType DEF RequestState, Kind
  <2> QED BY <1>0, <1>3, <2>1 DEF ArriveBootstrap, TypeOK
<1>4. ASSUME NEW r \in Request, Drop(r) PROVE Goal
  BY <1>1, <1>4 DEF Drop, TypeOK
<1>5. ASSUME NEW r \in Request, Load(r) PROVE Goal
  BY <1>5 DEF Load, TypeOK, RequestState
<1>6. ASSUME NEW r \in Request, Begin(r) PROVE Goal
  <2>1. request[r] \in RequestState
    BY DEF TypeOK
  <2>2. [request[r] EXCEPT !.pc = "commit", !.report = report, !.user = user] \in RequestState
    BY <2>1 DEF RequestState, TypeOK
  <2>3. request' = [request EXCEPT ![r] = [request[r] EXCEPT !.pc = "commit", !.report = report, !.user = user]]
    BY <1>6 DEF Begin, TypeOK
  <2> QED BY <1>0, <1>6, <2>2, <2>3 DEF Begin, TouchAccountLifecycleGuard
<1>7. ASSUME NEW r \in Request, Retry(r) PROVE Goal
  <2>1. request[r] \in RequestState
    BY DEF TypeOK
  <2>2. [request[r] EXCEPT !.pc = "begin", !.report = None, !.user = None] \in RequestState
    BY <2>1 DEF RequestState
  <2>3. request' = [request EXCEPT ![r] = [request[r] EXCEPT !.pc = "begin", !.report = None, !.user = None]]
    BY <1>7 DEF Retry, TypeOK
  <2> QED BY <1>0, <1>7, <2>2, <2>3 DEF Retry
<1>8. ASSUME NEW r \in Request, ReportStep(r) PROVE Goal
  <2>1. request' = [request EXCEPT ![r] = Idle] /\ UNCHANGED guard
    BY <1>8 DEF ReportStep, UpdateComplaintStatus, Recategorise, DeleteComplaintPermanently,
                EditComplaint, WithdrawComplaint, Write
  <2> QED BY <1>1, <2>1 DEF TypeOK
<1>9. ASSUME NEW r \in Request, AccountStep(r) PROVE Goal
  <2>1. request' = [request EXCEPT ![r] = Idle] /\ guard' = None
    BY <1>9 DEF AccountStep, AssignComplaint, MutateAdministrator, RetireAccount,
                BootstrapFirstAdministrator, Release
  <2> QED BY <1>1, <2>1
<1>10. CASE \E p \in Priority : ClassifierSetsPriority(p)
  BY <1>10 DEF ClassifierSetsPriority, TypeOK
<1>11. CASE UNCHANGED vars
  BY <1>11 DEF vars, TypeOK
<1> QED BY <1>2, <1>3, <1>4, <1>5, <1>6, <1>7, <1>8, <1>9, <1>10, <1>11 DEF Next

\* Only three transactions change an account.
LEMMA UserSteps ==
  [Next]_vars => \/ UNCHANGED user
                 \/ \E r \in Request, t \in User :
                      \/ BootstrapFirstAdministrator(r, t)
                      \/ RetireAccount(r, t)
                      \/ \E role \in Role, active \in BOOLEAN : MutateAdministrator(r, t, role, active)
<1> SUFFICES ASSUME Next
             PROVE  \/ UNCHANGED user
                    \/ \E r \in Request : AccountStep(r)
  BY DEF AccountStep, AssignComplaint, vars
<1> QED BY DEF Next, Arrive, ArriveBootstrap, Drop, Load, Begin, Retry, ReportStep, UpdateComplaintStatus,
               Recategorise, DeleteComplaintPermanently, EditComplaint, WithdrawComplaint,
               ClassifierSetsPriority

\* A change of an account leaves it well-formed.
LEMMA UserType == TypeOK /\ [Next]_vars => user' \in [User -> Account]
<1> SUFFICES ASSUME TypeOK, [Next]_vars PROVE user' \in [User -> Account]
  OBVIOUS
<1>1. ASSUME NEW r \in Request, NEW t \in User, BootstrapFirstAdministrator(r, t)
      PROVE  user' \in [User -> Account]
  BY <1>1 DEF BootstrapFirstAdministrator, TypeOK, Account, Role
<1>2. ASSUME NEW r \in Request, NEW t \in User, RetireAccount(r, t)
      PROVE  user' \in [User -> Account]
  BY <1>2 DEF RetireAccount, TypeOK, Account
<1>3. ASSUME NEW r \in Request, NEW t \in User, NEW role \in Role, NEW active \in BOOLEAN,
             MutateAdministrator(r, t, role, active)
      PROVE  user' \in [User -> Account]
  BY <1>3 DEF MutateAdministrator, TypeOK, Account
<1> QED BY <1>1, <1>2, <1>3, UserSteps DEF TypeOK

\* What a report write may make of the report.
LEMMA WriteType ==
  ASSUME TypeOK, NEW r, NEW changed \in Report, Write(r, changed)
  PROVE  report' \in Report /\ report'.version = report.version + 1
BY DEF TypeOK, Write, Report

\* Every write leaves the report well-formed.
LEMMA ReportType == TypeOK /\ [Next]_vars => report' \in Report
<1> SUFFICES ASSUME TypeOK, [Next]_vars PROVE report' \in Report
  OBVIOUS
<1> USE DEF TypeOK
<1>1. ASSUME NEW r \in Request, ReportStep(r) PROVE report' \in Report
  <2>1. ASSUME NEW to \in Status \cup {None}, NEW p \in Priority \cup {None}, UpdateComplaintStatus(r, to, p)
        PROVE  report' \in Report
    <3> DEFINE sets == p \notin {None, request[r].seen.priority}
               x == [report EXCEPT !.status = IF to = None THEN @ ELSE to,
                                   !.priority = NewPriority(p, @),
                                   !.prioritySource = IF sets THEN "STAFF" ELSE @]
    <3>1. NewPriority(p, report.priority) \in Priority
      BY DEF NewPriority, Report
    <3>2. x \in Report
      BY <3>1 DEF Report, PrioritySource
    <3>3. Write(r, x)
      BY <2>1 DEF UpdateComplaintStatus
    <3> QED BY <3>2, <3>3, WriteType
  <2>2. CASE Recategorise(r)
    BY <2>2, WriteType DEF Recategorise
  <2>3. CASE DeleteComplaintPermanently(r)
    BY <2>3 DEF DeleteComplaintPermanently, Report, Status
  <2>4. CASE EditComplaint(r)
    <3>1. [report EXCEPT !.edits = @ + 1] \in Report
      BY DEF Report
    <3> QED BY <2>4, <3>1, WriteType DEF EditComplaint
  <2>5. CASE WithdrawComplaint(r)
    <3> DEFINE x == [report EXCEPT !.status = "WITHDRAWN",
                                   !.assignee = IF request[r].seen.assignee = None THEN @ ELSE None]
    <3>1. x \in Report
      BY DEF Report, Status
    <3>2. Write(r, x)
      BY <2>5 DEF WithdrawComplaint
    <3> QED BY <3>1, <3>2, WriteType
  <2> QED BY <1>1, <2>1, <2>2, <2>3, <2>4, <2>5 DEF ReportStep
<1>2. ASSUME NEW r \in Request, AccountStep(r) PROVE report' \in Report
  <2>0. ASSUME NEW t \in User \cup {None} PROVE [report EXCEPT !.assignee = t, !.version = @ + 1] \in Report
    <3>1. report \in Report /\ report.version + 1 \in Nat
      BY DEF Report
    <3>2. [report EXCEPT !.version = @ + 1] \in Report
      BY <3>1 DEF Report
    <3> DEFINE x == [report EXCEPT !.version = @ + 1]
    <3>3. [x EXCEPT !.assignee = t] \in Report
      BY <3>2 DEF Report
    <3>4. [report EXCEPT !.assignee = t, !.version = @ + 1] = [x EXCEPT !.assignee = t]
      BY <3>1 DEF Report
    <3> QED BY <3>3, <3>4
  <2>1. ASSUME NEW t \in User \cup {None}, AssignComplaint(r, t) PROVE report' \in Report
    <3>1. report' = [report EXCEPT !.assignee = t, !.version = @ + 1]
      BY <2>1 DEF AssignComplaint
    <3> QED BY <2>0, <3>1
  <2>2. ASSUME NEW t \in User, RetireAccount(r, t) PROVE report' \in Report
    BY <2>0, <2>2, ZenonT(60) DEF RetireAccount
  <2> QED BY <1>2, <2>1, <2>2 DEF AccountStep, MutateAdministrator, BootstrapFirstAdministrator
<1>3. ASSUME NEW p \in Priority, ClassifierSetsPriority(p) PROVE report' \in Report
  BY <1>3 DEF ClassifierSetsPriority, Report, PrioritySource
<1>4. ASSUME NEW r \in Request, \/ \E v \in User, kind \in Kind : Arrive(r, v, kind)
             \/ ArriveBootstrap(r) \/ Drop(r) \/ Load(r) \/ Begin(r) \/ Retry(r)
      PROVE  report' \in Report
  BY <1>4 DEF Arrive, ArriveBootstrap, Drop, Load, Begin, Retry
<1> QED BY <1>1, <1>2, <1>3, <1>4 DEF Next, vars

\* An entry a step records is well-formed when its two sides are.
LEMMA RecordedType ==
  /\ NoEntry \in [priority: Change(Priority \cup {None}), assignee: Change(User \cup {None})]
  /\ \A from, to \in Priority \cup {None} : Recorded("priority", from, to) =>
       entry' = [priority |-> [from |-> from, to |-> to], assignee |-> [from |-> None, to |-> None]]
  /\ \A from, to \in User \cup {None} : Recorded("assignee", from, to) =>
       entry' = [priority |-> [from |-> None, to |-> None], assignee |-> [from |-> from, to |-> to]]
BY DEF NoEntry, Change, Recorded

Entries == [priority: Change(Priority \cup {None}), assignee: Change(User \cup {None})]

\* Every entry recorded is well-formed.
LEMMA EntryType == TypeOK /\ [Next]_vars => entry' \in Entries
<1> SUFFICES ASSUME TypeOK, [Next]_vars PROVE entry' \in Entries
  OBVIOUS
<1>1. /\ report.priority \in Priority /\ report.assignee \in User \cup {None}
      /\ entry \in Entries /\ NoEntry \in Entries
  BY RecordedType DEF TypeOK, Report, Entries
<1>2. ASSUME NEW from \in Priority \cup {None}, NEW to \in Priority \cup {None}, Recorded("priority", from, to)
      PROVE  entry' \in Entries
  BY <1>2, RecordedType DEF Entries, Change
<1>3. ASSUME NEW from \in User \cup {None}, NEW to \in User \cup {None}, Recorded("assignee", from, to)
      PROVE  entry' \in Entries
  BY <1>3, RecordedType DEF Entries, Change
<1>4. ASSUME NEW r \in Request, ReportStep(r) PROVE entry' \in Entries
  <2>1. ASSUME NEW to \in Status \cup {None}, NEW p \in Priority \cup {None}, UpdateComplaintStatus(r, to, p)
        PROVE  entry' \in Entries
    <3>1. \/ entry' = NoEntry
          \/ p # None /\ Recorded("priority", request[r].seen.priority, p)
      BY <2>1 DEF UpdateComplaintStatus
    <3>2. p # None => request[r].seen.priority = report.priority
      BY <2>1 DEF UpdateComplaintStatus, UpdateFilter
    <3> QED BY <1>1, <1>2, <3>1, <3>2
  <2>2. CASE WithdrawComplaint(r)
    <3>1. \/ entry' = NoEntry
          \/ Recorded("assignee", request[r].seen.assignee, None)
      BY <2>2 DEF WithdrawComplaint
    <3>2. request[r].seen.assignee = report.assignee
      BY <2>2 DEF WithdrawComplaint, WithdrawFilter
    <3> QED BY <1>1, <1>3, <3>1, <3>2
  <2>3. CASE Recategorise(r) \/ EditComplaint(r) \/ DeleteComplaintPermanently(r)
    BY <1>1, <2>3 DEF Recategorise, EditComplaint, DeleteComplaintPermanently
  <2> QED BY <1>4, <2>1, <2>2, <2>3 DEF ReportStep
<1>5. ASSUME NEW r \in Request, AccountStep(r) PROVE entry' \in Entries
  <2>1. ASSUME NEW t \in User \cup {None}, AssignComplaint(r, t) PROVE entry' \in Entries
    <3>1. Recorded("assignee", report.assignee, t)
      BY <2>1 DEF AssignComplaint, NoWriteConflict
    <3> QED BY <1>1, <1>3, <3>1
  <2>2. ASSUME NEW t \in User, RetireAccount(r, t) PROVE entry' \in Entries
    <3>1. entry' = entry \/ Recorded("assignee", t, None)
      BY <2>2 DEF RetireAccount
    <3> QED BY <1>1, <1>3, <3>1
  <2> QED BY <1>1, <1>5, <2>1, <2>2 DEF AccountStep, MutateAdministrator, BootstrapFirstAdministrator
<1> QED BY <1>1, <1>4, <1>5 DEF Next, vars, Arrive, ArriveBootstrap, Drop, Load, Begin, Retry, ClassifierSetsPriority

\* The initial values have their types.
LEMMA InitType == Init => TypeOK
<1> SUFFICES ASSUME Init PROVE TypeOK
  OBVIOUS
<1>1. user \in [User -> Account]
  BY NamesAssumption DEF Init, Account
<1>2. report \in Report
  BY NamesAssumption DEF Init, Filed, Report, Status, Open, PrioritySource
<1>3. entry \in [priority: Change(Priority \cup {None}), assignee: Change(User \cup {None})]
  BY RecordedType DEF Init
<1> QED BY <1>1, <1>2, <1>3, IdleType DEF Init, TypeOK

\* The accounts, the report, its newest entry, the guard and the requests keep their types.
THEOREM TypeCorrect == Spec => []TypeOK
<1>1. TypeOK /\ [Next]_vars => TypeOK'
  <2> SUFFICES ASSUME TypeOK, [Next]_vars PROVE TypeOK'
    OBVIOUS
  <2>1. entry' \in [priority: Change(Priority \cup {None}), assignee: Change(User \cup {None})]
    BY EntryType DEF Entries
  <2> QED BY <2>1, UserType, ReportType, RequestType DEF TypeOK
<1> QED BY <1>1, InitType, PTL DEF Spec

-----------------------------------------------------------------------------
(* The guard makes the lifecycle transactions serial.                          *)

\* A request whose transaction is open holds the guard, and its snapshot of the accounts is
\* still what they are.
SnapshotIsCurrent ==
  \A r \in Request : request[r].pc = "commit" => guard = r /\ request[r].user = user

\* While one transaction holds the guard no other opens, and only its holder changes accounts.
LEMMA SnapshotStep == TypeOK /\ SnapshotIsCurrent /\ [Next]_vars => SnapshotIsCurrent'
<1> SUFFICES ASSUME TypeOK, SnapshotIsCurrent, [Next]_vars, NEW q \in Request, request'[q].pc = "commit"
             PROVE  guard' = q /\ request'[q].user = user'
  BY DEF SnapshotIsCurrent
<1> USE NamesAssumption DEF TypeOK, SnapshotIsCurrent
<1>1. ASSUME NEW r \in Request, request' = [request EXCEPT ![r] = Idle] PROVE q # r /\ request'[q] = request[q]
  BY <1>1 DEF Idle
<1>2. ASSUME NEW r \in Request, NEW v \in User, NEW kind \in Kind, Arrive(r, v, kind)
      PROVE  guard' = q /\ request'[q].user = user'
  BY <1>2 DEF Arrive, Idle
<1>3. ASSUME NEW r \in Request, ArriveBootstrap(r) \/ Load(r)
      PROVE  guard' = q /\ request'[q].user = user'
  <2>1. CASE ArriveBootstrap(r)
    BY <2>1 DEF ArriveBootstrap, Idle
  <2>2. CASE Load(r)
    <3>1. request'[r].pc # "commit" /\ (q # r => request'[q] = request[q])
      BY <2>2 DEF Load, RequestState
    <3> QED BY <2>2, <3>1 DEF Load
  <2> QED BY <1>3, <2>1, <2>2
<1>4. ASSUME NEW r \in Request, Drop(r) PROVE guard' = q /\ request'[q].user = user'
  BY <1>1, <1>4 DEF Drop
<1>5. ASSUME NEW r \in Request, Begin(r) PROVE guard' = q /\ request'[q].user = user'
  <2>1. q = r
    BY <1>5 DEF Begin, TouchAccountLifecycleGuard
  <2> QED BY <1>5, <2>1 DEF Begin, TouchAccountLifecycleGuard, RequestState
<1>6. ASSUME NEW r \in Request, Retry(r) PROVE guard' = q /\ request'[q].user = user'
  BY <1>6 DEF Retry
<1>7. ASSUME NEW r \in Request, ReportStep(r) PROVE guard' = q /\ request'[q].user = user'
  <2>1. request' = [request EXCEPT ![r] = Idle] /\ UNCHANGED <<user, guard>>
    BY <1>7 DEF ReportStep, UpdateComplaintStatus, Recategorise, DeleteComplaintPermanently,
                EditComplaint, WithdrawComplaint, Write
  <2> QED BY <1>1, <2>1
<1>8. ASSUME NEW r \in Request, AccountStep(r) PROVE guard' = q /\ request'[q].user = user'
  <2>1. request[r].pc = "commit" /\ request' = [request EXCEPT ![r] = Idle]
    BY <1>8 DEF AccountStep, AssignComplaint, MutateAdministrator, RetireAccount,
                BootstrapFirstAdministrator, Release, At
  <2>2. guard = r /\ request[q].pc = "commit" /\ q # r
    BY <1>1, <2>1
  <2> QED BY <2>2
<1>9. CASE UNCHANGED vars \/ \E p \in Priority : ClassifierSetsPriority(p)
  BY <1>9 DEF vars, ClassifierSetsPriority
<1> QED BY <1>2, <1>3, <1>4, <1>5, <1>6, <1>7, <1>8, <1>9 DEF Next

\* In every reachable state the snapshots of open transactions are current.
LEMMA SnapshotInvariant == Spec => [](TypeOK /\ SnapshotIsCurrent)
<1>1. Init => SnapshotIsCurrent
  BY DEF Init, Idle, SnapshotIsCurrent
<1>2. TypeOK /\ SnapshotIsCurrent /\ [Next]_vars => SnapshotIsCurrent'
  BY SnapshotStep
<1> QED BY <1>1, <1>2, TypeCorrect, PTL DEF Spec

\* A step of a lifecycle transaction is a step of the roster.
LEMMA RosterStep ==
  TypeOK /\ SnapshotIsCurrent /\ [Next]_vars => [Accounts!Next]_user
<1> SUFFICES ASSUME TypeOK, SnapshotIsCurrent, Next, UNCHANGED user => FALSE
             PROVE  Accounts!Next
  BY DEF vars
<1> USE DEF SnapshotIsCurrent, Accounts!Next, Accounts!Administrators, Accounts!Administrator, Accounts!Active,
            Administrators, Administrator, Active
<1>1. ASSUME NEW r \in Request, NEW t \in User, BootstrapFirstAdministrator(r, t) PROVE Accounts!Next
  <2>1. request[r].user = user
    BY <1>1 DEF BootstrapFirstAdministrator, At
  <2>2. Accounts!CreateFirst(t)
    BY <1>1, <2>1 DEF BootstrapFirstAdministrator, Accounts!CreateFirst
  <2> QED BY <2>2
<1>2. ASSUME NEW r \in Request, NEW t \in User, RetireAccount(r, t) PROVE Accounts!Next
  <2> DEFINE a == request[r].viewer
  <2>1. request[r].user = user /\ a \in User
    BY <1>2 DEF RetireAccount, TypeOK, RequestState
  <2>2. IF a = t THEN user[t].role # "admin" ELSE Administrator(user[a])
    BY <1>2, <2>1 DEF RetireAccount, MayRetire
  <2>3. Accounts!Retire(a, t)
    BY <1>2, <2>1, <2>2 DEF RetireAccount, Accounts!Retire
  <2> QED BY <2>1, <2>3
<1>3. ASSUME NEW r \in Request, NEW t \in User, NEW role \in Role, NEW active \in BOOLEAN,
             MutateAdministrator(r, t, role, active)
      PROVE  Accounts!Next
  <2> DEFINE a == request[r].viewer
  <2>1. request[r].user = user /\ a \in User
    BY <1>3 DEF MutateAdministrator, At, TypeOK, RequestState
  <2>2. Accounts!Change(a, t, role, active)
    BY <1>3, <2>1 DEF MutateAdministrator, Accounts!Change
  <2> QED BY <2>1, <2>2 DEF Role, Accounts!Role
<1> QED BY <1>1, <1>2, <1>3, UserSteps

\* The lifecycle transactions, which read accounts first and write them later, implement the
\* roster, whose changes happen at one instant.
THEOREM WorkflowImplementsRoster == Spec => ImplementsRoster
<1>1. Init => Accounts!Init
  BY DEF Init, Accounts!Init
<1> QED BY <1>1, RosterStep, SnapshotInvariant, PTL DEF Spec, ImplementsRoster, Accounts!Spec

\* No step of the roster removes the last active administrator: whoever takes a role or a
\* standing from an administrator is another one, and stays.
LEMMA RosterKeepsAdministrator ==
  user \in [User -> Account] /\ [Accounts!Next]_user /\ Administrators(user) # {} => Administrators(user)' # {}
<1> SUFFICES ASSUME user \in [User -> Account], Accounts!Next, NEW b \in User, Administrator(user[b])
             PROVE  \E u \in User : Administrator(user'[u])
  BY DEF Administrators, Administrator, Active
<1> USE DEF Administrator, Active, Account, Accounts!Administrators, Accounts!Administrator, Accounts!Active
<1>1. ASSUME NEW t \in User, Accounts!CreateFirst(t) PROVE FALSE
  BY <1>1 DEF Accounts!CreateFirst
<1>2. ASSUME NEW t \in User, NEW a \in User, Accounts!Retire(a, t)
      PROVE  \E u \in User : Administrator(user'[u])
  <2>1. CASE b # t
    BY <1>2, <2>1 DEF Accounts!Retire
  <2>2. CASE b = t
    <3>1. a # t /\ Administrator(user'[a])
      BY <1>2, <2>2 DEF Accounts!Retire
    <3> QED BY <3>1
  <2> QED BY <2>1, <2>2
<1>3. ASSUME NEW t \in User, NEW a \in User, NEW role \in Accounts!Role, NEW active \in BOOLEAN,
             Accounts!Change(a, t, role, active)
      PROVE  \E u \in User : Administrator(user'[u])
  <2>1. CASE b # t
    BY <1>3, <2>1 DEF Accounts!Change
  <2>2. CASE b = t /\ role = "admin" /\ active
    BY <1>3, <2>2 DEF Accounts!Change
  <2>3. CASE b = t /\ ~(role = "admin" /\ active)
    <3>1. a # t /\ Administrator(user'[a])
      BY <1>3, <2>3 DEF Accounts!Change
    <3> QED BY <3>1
  <2> QED BY <2>1, <2>2, <2>3
<1> QED BY <1>1, <1>2, <1>3 DEF Accounts!Next

\* Once there is an active administrator there always is one.
THEOREM AdministratorAlwaysRemains == Spec => AdministratorRemains
<1>1. TypeOK /\ SnapshotIsCurrent /\ [Next]_vars =>
        [Administrators(user) # {} => Administrators(user)' # {}]_vars
  BY RosterStep, RosterKeepsAdministrator DEF TypeOK
<1> QED BY <1>1, SnapshotInvariant, PTL DEF Spec, AdministratorRemains

-----------------------------------------------------------------------------
(* What the filters of the report writes pin.                                  *)

\* Only these steps write the report.
LEMMA ReportSteps ==
  [Next]_vars => \/ UNCHANGED <<report, entry>>
                 \/ \E r \in Request : ReportStep(r)
                 \/ \E r \in Request : \/ \E t \in User \cup {None} : AssignComplaint(r, t)
                                       \/ \E t \in User : RetireAccount(r, t)
                 \/ \E p \in Priority : ClassifierSetsPriority(p)
<1>1. ASSUME NEW r \in Request, NEW t \in User, NEW role, NEW active,
             MutateAdministrator(r, t, role, active) \/ BootstrapFirstAdministrator(r, t)
      PROVE  UNCHANGED <<report, entry>>
  BY <1>1 DEF MutateAdministrator, BootstrapFirstAdministrator
<1>2. ASSUME NEW r \in Request, AccountStep(r)
      PROVE  \/ UNCHANGED <<report, entry>>
             \/ \E t \in User \cup {None} : AssignComplaint(r, t)
             \/ \E t \in User : RetireAccount(r, t)
  BY <1>1, <1>2 DEF AccountStep
<1>3. Next => \/ UNCHANGED <<report, entry>>
              \/ \E r \in Request : ReportStep(r) \/ AccountStep(r)
              \/ \E p \in Priority : ClassifierSetsPriority(p)
  BY DEF Next, Arrive, ArriveBootstrap, Drop, Load, Begin, Retry
<1>4. UNCHANGED vars => UNCHANGED <<report, entry>>
  BY DEF vars
<1> QED BY <1>2, <1>3, <1>4

\* A retirement that gives a report back, as a step on the report.
LEMMA RetirementOfReport ==
  ASSUME TypeOK, NEW r \in Request, NEW t \in User, RetireAccount(r, t)
  PROVE  \/ UNCHANGED <<report, entry>>
         \/ /\ report.assignee = t /\ report.status \in Open
            /\ report' = [report EXCEPT !.assignee = None, !.version = report.version + 1]
            /\ Recorded("assignee", t, None)
BY DEF RetireAccount, OpenAssignment, NoWriteConflict

\* A report is only ever given to an account that is an active agency at that instant.
THEOREM AssigneeIsEligible == Spec => AssigneeEligible
<1> DEFINE Given == report'.assignee \notin {report.assignee, None}
<1>1. ASSUME TypeOK, SnapshotIsCurrent, [Next]_vars, Given PROVE Agency(user[report'.assignee])
  <2> USE <1>1
  <2>1. ASSUME NEW r \in Request, NEW t \in User \cup {None}, AssignComplaint(r, t)
        PROVE  Agency(user[report'.assignee])
    <3>1. report'.assignee = t /\ Agency(request[r].user[t])
      BY <2>1 DEF AssignComplaint, TypeOK, Report
    <3>2. request[r].user = user
      BY <2>1 DEF AssignComplaint, At, SnapshotIsCurrent
    <3> QED BY <3>1, <3>2
  <2>2. ASSUME NEW r \in Request, NEW t \in User, RetireAccount(r, t) PROVE FALSE
    <3>1. report' = report \/ report' = [report EXCEPT !.assignee = None, !.version = report.version + 1]
      BY <2>2, RetirementOfReport
    <3> QED BY <3>1 DEF TypeOK, Report
  <2>3. ASSUME NEW r \in Request, ReportStep(r) PROVE FALSE
    BY <2>3 DEF ReportStep, UpdateComplaintStatus, Recategorise, DeleteComplaintPermanently,
                EditComplaint, WithdrawComplaint, Write, TypeOK, Report
  <2>4. ASSUME NEW p \in Priority, ClassifierSetsPriority(p) PROVE FALSE
    BY <2>4 DEF ClassifierSetsPriority, TypeOK, Report
  <2> QED BY <2>1, <2>2, <2>3, <2>4, ReportSteps
<1>2. TypeOK /\ SnapshotIsCurrent /\ [Next]_vars => [Given => Agency(user[report'.assignee])]_vars
  BY <1>1
<1> QED BY <1>2, SnapshotInvariant, PTL DEF Spec, AssigneeEligible

\* Whatever two requests read, statuses only move as the policy allows.
THEOREM StatusesFollowPolicy == Spec => StatusFollowsPolicy
<1> DEFINE Allowed == \/ report'.status \in ALLOWED(report.status) \cup {"DELETED"}
                      \/ report.status = "PENDING" /\ report'.status = "WITHDRAWN"
<1>1. ASSUME TypeOK, [Next]_vars, report'.status # report.status PROVE Allowed
  <2> USE <1>1
  <2>1. ASSUME NEW r \in Request, NEW to \in Status \cup {None}, NEW p \in Priority \cup {None},
               UpdateComplaintStatus(r, to, p)
        PROVE  Allowed
    <3>1. report'.status = IF to = None THEN report.status ELSE to
      BY <2>1 DEF UpdateComplaintStatus, Write, TypeOK, Report
    <3>2. to # None => to \in ALLOWED(report.status)
      BY <2>1 DEF UpdateComplaintStatus, UpdateFilter
    <3> QED BY <3>1, <3>2
  <2>2. ASSUME NEW r \in Request, WithdrawComplaint(r) PROVE Allowed
    BY <2>2 DEF WithdrawComplaint, WithdrawFilter, ReporterFilter, Write, TypeOK, Report
  <2>3. ASSUME NEW r \in Request, DeleteComplaintPermanently(r) PROVE Allowed
    BY <2>3 DEF DeleteComplaintPermanently, TypeOK, Report
  <2>4. ASSUME NEW r \in Request, Recategorise(r) \/ EditComplaint(r) PROVE FALSE
    BY <2>4 DEF Recategorise, EditComplaint, Write, TypeOK, Report
  <2>5. ASSUME NEW r \in Request, NEW t \in User \cup {None}, AssignComplaint(r, t) PROVE FALSE
    BY <2>5 DEF AssignComplaint, TypeOK, Report
  <2>6. ASSUME NEW r \in Request, NEW t \in User, RetireAccount(r, t) PROVE FALSE
    BY <2>6, RetirementOfReport DEF TypeOK, Report
  <2>7. ASSUME NEW p \in Priority, ClassifierSetsPriority(p) PROVE FALSE
    BY <2>7 DEF ClassifierSetsPriority, TypeOK, Report
  <2> QED BY <2>1, <2>2, <2>3, <2>4, <2>5, <2>6, <2>7, ReportSteps DEF ReportStep
<1>2. TypeOK /\ [Next]_vars => [report'.status # report.status => Allowed]_vars
  BY <1>1
<1> QED BY <1>2, TypeCorrect, PTL DEF Spec, StatusFollowsPolicy

\* Every change of assignee has a true entry.
THEOREM AssignmentsAreRecorded == Spec => AssignmentRecorded
<1> DEFINE Now == \/ report'.assignee # report.assignee
                  \/ entry' # entry /\ entry'.assignee # NoEntry.assignee
           Entered == entry'.assignee = [from |-> report.assignee, to |-> report'.assignee]
<1>1. ASSUME TypeOK, [Next]_vars, Now PROVE Entered
  <2> USE <1>1
  <2>1. ASSUME NEW r \in Request, WithdrawComplaint(r) PROVE Entered
    <3>1. report'.assignee = IF report.assignee = None THEN report.assignee ELSE None
      BY <2>1 DEF WithdrawComplaint, WithdrawFilter, Write, TypeOK, Report
    <3>2. \/ report.assignee = None /\ entry' = NoEntry
          \/ report.assignee # None /\ Recorded("assignee", report.assignee, None)
      BY <2>1 DEF WithdrawComplaint, WithdrawFilter
    <3> QED BY <3>1, <3>2, RecordedType DEF TypeOK, Report
  <2>2. ASSUME NEW r \in Request, NEW t \in User \cup {None}, AssignComplaint(r, t) PROVE Entered
    <3>1. Recorded("assignee", report.assignee, t) /\ report'.assignee = t
      BY <2>2 DEF AssignComplaint, NoWriteConflict, TypeOK, Report
    <3> QED BY <3>1, RecordedType DEF TypeOK, Report
  <2>3. ASSUME NEW r \in Request, NEW t \in User, RetireAccount(r, t) PROVE Entered
    <3>1. Recorded("assignee", report.assignee, None) /\ report'.assignee = None
      BY <2>3, RetirementOfReport DEF TypeOK, Report
    <3> QED BY <3>1, RecordedType DEF TypeOK, Report
  <2>4. ASSUME NEW r \in Request, NEW to \in Status \cup {None}, NEW p \in Priority \cup {None},
               UpdateComplaintStatus(r, to, p)
        PROVE  FALSE
    <3>1. report'.assignee = report.assignee
      BY <2>4 DEF UpdateComplaintStatus, Write, TypeOK, Report
    <3>2. \/ entry' = NoEntry
          \/ Recorded("priority", request[r].seen.priority, p) /\ p # None
      BY <2>4 DEF UpdateComplaintStatus
    <3>3. p # None => request[r].seen.priority \in Priority
      BY <2>4 DEF UpdateComplaintStatus, UpdateFilter, TypeOK, Report
    <3>4. entry'.assignee = NoEntry.assignee
      BY <3>2, <3>3, RecordedType DEF NoEntry
    <3> QED BY <3>1, <3>4
  <2>5. ASSUME NEW r \in Request, Recategorise(r) \/ EditComplaint(r) \/ DeleteComplaintPermanently(r)
        PROVE  FALSE
    BY <2>5 DEF Recategorise, EditComplaint, DeleteComplaintPermanently, Write, TypeOK, Report
  <2>6. ASSUME NEW p \in Priority, ClassifierSetsPriority(p) PROVE FALSE
    BY <2>6 DEF ClassifierSetsPriority, TypeOK, Report
  <2> QED BY <2>1, <2>2, <2>3, <2>4, <2>5, <2>6, ReportSteps DEF ReportStep
<1>2. TypeOK /\ [Next]_vars => [Now => Entered]_vars
  BY <1>1
<1> QED BY <1>2, TypeCorrect, PTL DEF Spec, AssignmentRecorded

\* Every change of priority by staff has a true entry.
THEOREM PrioritiesAreRecorded == Spec => PriorityRecorded
<1> DEFINE Now == \/ report'.priority # report.priority /\ report'.prioritySource = "STAFF"
                  \/ entry' # entry /\ entry'.priority # NoEntry.priority
           Entered == entry'.priority = [from |-> report.priority, to |-> report'.priority]
<1>1. ASSUME TypeOK, [Next]_vars, Now PROVE Entered
  <2> USE <1>1
  <2>1. ASSUME NEW r \in Request, NEW to \in Status \cup {None}, NEW p \in Priority \cup {None},
               UpdateComplaintStatus(r, to, p)
        PROVE  Entered
    <3>1. report'.priority = NewPriority(p, report.priority)
      BY <2>1 DEF UpdateComplaintStatus, Write, TypeOK, Report
    <3>2. p # None => request[r].seen.priority = report.priority
      BY <2>1 DEF UpdateComplaintStatus, UpdateFilter
    <3>3. \/ p \in {None, report.priority} /\ entry' = NoEntry
          \/ p \notin {None, report.priority} /\ Recorded("priority", report.priority, p)
      BY <2>1, <3>2 DEF UpdateComplaintStatus
    <3> QED BY <3>1, <3>3, RecordedType DEF NewPriority, TypeOK, Report
  <2>2. ASSUME NEW r \in Request, WithdrawComplaint(r) PROVE FALSE
    <3>1. report'.priority = report.priority
      BY <2>2 DEF WithdrawComplaint, Write, TypeOK, Report
    <3>2. entry' = NoEntry \/ Recorded("assignee", report.assignee, None)
      BY <2>2 DEF WithdrawComplaint, WithdrawFilter
    <3> QED BY <3>1, <3>2, RecordedType DEF NoEntry, TypeOK, Report
  <2>3. ASSUME NEW r \in Request, NEW t \in User \cup {None}, AssignComplaint(r, t) PROVE FALSE
    <3>1. Recorded("assignee", report.assignee, t) /\ report'.priority = report.priority
      BY <2>3 DEF AssignComplaint, NoWriteConflict, TypeOK, Report
    <3> QED BY <3>1, RecordedType DEF NoEntry, TypeOK, Report
  <2>4. ASSUME NEW r \in Request, NEW t \in User, RetireAccount(r, t) PROVE FALSE
    <3>1. Recorded("assignee", report.assignee, None) /\ report'.priority = report.priority
      BY <2>4, RetirementOfReport DEF TypeOK, Report
    <3> QED BY <3>1, RecordedType DEF NoEntry, TypeOK, Report
  <2>5. ASSUME NEW r \in Request, Recategorise(r) \/ EditComplaint(r) \/ DeleteComplaintPermanently(r)
        PROVE  FALSE
    BY <2>5 DEF Recategorise, EditComplaint, DeleteComplaintPermanently, Write, TypeOK, Report
  <2>6. ASSUME NEW p \in Priority, ClassifierSetsPriority(p) PROVE FALSE
    BY <2>6 DEF ClassifierSetsPriority, TypeOK, Report
  <2> QED BY <2>1, <2>2, <2>3, <2>4, <2>5, <2>6, ReportSteps DEF ReportStep
<1>2. TypeOK /\ [Next]_vars => [Now => Entered]_vars
  BY <1>1
<1> QED BY <1>2, TypeCorrect, PTL DEF Spec, PriorityRecorded

-----------------------------------------------------------------------------
(* What a request has read is a past of the report, told by the version.       *)

\* While the version is the one read, so is everything that a version counts; a deletion keeps
\* the version, but ends every write.
Past(seen) ==
  /\ seen.version <= report.version
  /\ seen.version = report.version =>
       /\ seen.edits = report.edits /\ seen.assignee = report.assignee
       /\ report.status \in {seen.status, "DELETED"}

\* Each step counts a version or leaves those parts of the report alone.
LEMMA ReportAdvances ==
  TypeOK /\ [Next]_vars =>
    \/ report'.version = report.version + 1
    \/ /\ report'.version = report.version /\ report'.edits = report.edits
       /\ report'.assignee = report.assignee /\ report'.status \in {report.status, "DELETED"}
<1> SUFFICES ASSUME TypeOK, [Next]_vars, report'.version # report.version + 1
             PROVE  /\ report'.version = report.version /\ report'.edits = report.edits
                    /\ report'.assignee = report.assignee /\ report'.status \in {report.status, "DELETED"}
  OBVIOUS
<1> USE DEF TypeOK, Report
<1>1. ASSUME NEW r \in Request, ReportStep(r) PROVE DeleteComplaintPermanently(r)
  BY <1>1 DEF ReportStep, UpdateComplaintStatus, Recategorise, EditComplaint, WithdrawComplaint, Write
<1>2. ASSUME NEW r \in Request, NEW t \in User \cup {None}, AssignComplaint(r, t) PROVE FALSE
  BY <1>2 DEF AssignComplaint
<1>3. ASSUME NEW r \in Request, NEW t \in User, RetireAccount(r, t) PROVE report' = report
  BY <1>3, RetirementOfReport
<1> QED BY <1>1, <1>2, <1>3, ReportSteps DEF DeleteComplaintPermanently, ClassifierSetsPriority

\* What was read stays a past of the report.
LEMMA PastStep ==
  ASSUME TypeOK, TypeOK', [Next]_vars, NEW seen \in Report, Past(seen)
  PROVE  Past(seen)'
<1>1. /\ seen.version \in Nat /\ report.version \in Nat
  BY DEF TypeOK, Report
<1>2. CASE report'.version = report.version + 1
  BY <1>1, <1>2 DEF Past
<1>3. CASE /\ report'.version = report.version /\ report'.edits = report.edits
           /\ report'.assignee = report.assignee /\ report'.status \in {report.status, "DELETED"}
  BY <1>1, <1>3 DEF Past
<1> QED BY <1>2, <1>3, ReportAdvances

\* A request that is past its reading still works on what it read.
Reads(r) == request[r].pc = "write" \/ (request[r].kind = "assign" /\ request[r].pc \in {"begin", "commit"})

\* The request has read a past of the report, of the kind its handler lets through; and an
\* assignment whose transaction is open found the report not withdrawn.
SeenOK(r) ==
  Reads(r) =>
    /\ request[r].seen \in Report /\ Past(request[r].seen)
    /\ request[r].kind = "assign" => request[r].seen.status # "WITHDRAWN"
    /\ request[r].kind = "staff" /\ request[r].role = "agency" => request[r].seen.assignee = request[r].viewer
    /\ request[r].pc = "commit" => request[r].report.status # "WITHDRAWN"

SeenIsPast == \A r \in Request : SeenOK(r)

\* Every step keeps what the requests have read in order.
LEMMA SeenStep == TypeOK /\ TypeOK' /\ SeenIsPast /\ [Next]_vars => SeenIsPast'
<1> SUFFICES ASSUME TypeOK, TypeOK', SeenIsPast, [Next]_vars, NEW q \in Request PROVE SeenOK(q)'
  BY DEF SeenIsPast
<1>1. ASSUME request'[q] = request[q] PROVE SeenOK(q)'
  <2>1. SeenOK(q)
    BY DEF SeenIsPast
  <2>2. Reads(q)' => Reads(q)
    BY <1>1 DEF Reads
  <2>3. CASE Reads(q)
    <3>1. PICK seen \in Report : seen = request[q].seen /\ Past(seen)
      BY <2>1, <2>3 DEF SeenOK
    <3>2. Past(seen)'
      BY <3>1, PastStep
    <3>3. request'[q].seen = seen
      BY <1>1, <3>1
    <3> QED BY <1>1, <2>1, <2>3, <3>2, <3>3 DEF SeenOK, Past
  <2> QED BY <2>2, <2>3 DEF SeenOK
<1>2. ASSUME NEW r \in Request, request' = [request EXCEPT ![r] = Idle] PROVE SeenOK(q)'
  <2>1. CASE q = r
    BY <1>2, <2>1 DEF SeenOK, Reads, Idle, TypeOK
  <2> QED BY <1>1, <1>2, <2>1 DEF TypeOK
<1>3. ASSUME NEW r \in Request, NEW v \in User, NEW kind \in Kind, Arrive(r, v, kind) PROVE SeenOK(q)'
  <2>1. CASE q = r
    BY <1>3, <2>1 DEF Arrive, SeenOK, Reads, Idle, TypeOK
  <2> QED BY <1>1, <1>3, <2>1 DEF Arrive, TypeOK
<1>4. ASSUME NEW r \in Request, ArriveBootstrap(r) PROVE SeenOK(q)'
  <2>1. CASE q = r
    BY <1>4, <2>1 DEF ArriveBootstrap, SeenOK, Reads, Idle, TypeOK
  <2> QED BY <1>1, <1>4, <2>1 DEF ArriveBootstrap, TypeOK
<1>5. ASSUME NEW r \in Request, Load(r) PROVE SeenOK(q)'
  <2>1. CASE q = r
    <3>1. /\ request'[q].seen = report /\ report' = report
          /\ request'[q].kind = request[q].kind /\ request'[q].role = request[q].role
          /\ request'[q].viewer = request[q].viewer
          /\ request'[q].pc \in {"begin", "write"}
      BY <1>5, <2>1 DEF Load, TypeOK, RequestState
    <3>2. report \in Report /\ Past(report)
      BY DEF TypeOK, Past, Report
    <3>3. /\ request[q].kind = "assign" => report.status # "WITHDRAWN"
          /\ request[q].kind = "staff" /\ request[q].role = "agency" => report.assignee = request[q].viewer
      BY <1>5, <2>1 DEF Load, CanManageStatus
    <3> QED BY <3>1, <3>2, <3>3 DEF SeenOK, Past
  <2> QED BY <1>1, <1>5, <2>1 DEF Load, TypeOK
<1>6. ASSUME NEW r \in Request, Begin(r) PROVE SeenOK(q)'
  <2>1. CASE q = r
    <3>1. /\ request'[q].seen = request[q].seen /\ report' = report
          /\ request'[q].kind = request[q].kind /\ request'[q].role = request[q].role
          /\ request'[q].viewer = request[q].viewer
          /\ request'[q].pc = "commit" /\ request'[q].report = report
      BY <1>6, <2>1 DEF Begin, TypeOK, RequestState
    <3>2. CASE request[q].kind = "assign"
      <4>1. SeenOK(q) /\ Reads(q)
        BY <1>6, <2>1, <3>2 DEF Begin, SeenIsPast, Reads
      <4>2. SameComplaint(q)
        BY <1>6, <2>1, <3>2 DEF Begin
      <4>3. report.status # "WITHDRAWN"
        BY <3>2, <4>1, <4>2 DEF SeenOK, Past, SameComplaint
      <4> QED BY <3>1, <3>2, <4>1, <4>3 DEF SeenOK, Past
    <3> QED BY <3>1, <3>2 DEF SeenOK, Reads
  <2> QED BY <1>1, <1>6, <2>1 DEF Begin, TypeOK
<1>7. ASSUME NEW r \in Request, Retry(r) PROVE SeenOK(q)'
  <2>1. CASE q = r
    <3>1. /\ request'[q].seen = request[q].seen /\ report' = report
          /\ request'[q].kind = request[q].kind /\ request'[q].role = request[q].role
          /\ request'[q].viewer = request[q].viewer
          /\ request'[q].pc = "begin" /\ request[q].pc = "commit"
      BY <1>7, <2>1 DEF Retry, TypeOK, RequestState
    <3>2. Reads(q)' => Reads(q)
      BY <3>1 DEF Reads
    <3> QED BY <3>1, <3>2 DEF SeenIsPast, SeenOK, Past
  <2> QED BY <1>1, <1>7, <2>1 DEF Retry, TypeOK
<1>8. ASSUME NEW r \in Request, Drop(r) \/ ReportStep(r) \/ AccountStep(r) PROVE SeenOK(q)'
  <2>1. request' = [request EXCEPT ![r] = Idle]
    BY <1>8 DEF Drop, ReportStep, UpdateComplaintStatus, Recategorise, DeleteComplaintPermanently,
                EditComplaint, WithdrawComplaint, Write, AccountStep, AssignComplaint,
                MutateAdministrator, RetireAccount, BootstrapFirstAdministrator, Release
  <2> QED BY <1>2, <2>1
<1>9. CASE UNCHANGED vars \/ \E p \in Priority : ClassifierSetsPriority(p)
  BY <1>1, <1>9 DEF vars, ClassifierSetsPriority
<1> QED BY <1>3, <1>4, <1>5, <1>6, <1>7, <1>8, <1>9 DEF Next

\* In every reachable state what the requests have read is a past of the report.
LEMMA SeenInvariant == Spec => [](TypeOK /\ SeenIsPast)
<1>1. Init => SeenIsPast
  BY DEF Init, Idle, SeenIsPast, SeenOK, Reads
<1>2. TypeOK /\ TypeOK' /\ SeenIsPast /\ [Next]_vars => SeenIsPast'
  BY SeenStep
<1> QED BY <1>1, <1>2, TypeCorrect, PTL DEF Spec

\* A write by agency staff lands only while the report is assigned to them.
THEOREM AgencyOnlyActsOnOwn == Spec => AgencyActsOnOwn
<1> DEFINE Lands(r) == /\ At(r, "staff", "write") /\ request[r].role = "agency" /\ request'[r].pc = "idle"
                       /\ report' # report
           Own == \A r \in Request : Lands(r) => report.assignee = request[r].viewer
<1>1. ASSUME TypeOK, SeenIsPast, [Next]_vars, NEW r \in Request, Lands(r)
      PROVE  report.assignee = request[r].viewer
  <2> USE <1>1
  <2>0. request[r].seen.assignee = request[r].viewer
    BY DEF SeenIsPast, SeenOK, Reads, At
  <2>1. ASSUME NEW q \in Request, request' = [request EXCEPT ![q] = Idle] PROVE q = r
    BY <2>1 DEF At, TypeOK
  <2>2. ASSUME NEW q \in Request, ReportStep(q) PROVE report.assignee = request[r].viewer
    <3>1. q = r
      BY <2>1, <2>2 DEF ReportStep, UpdateComplaintStatus, Recategorise, DeleteComplaintPermanently,
                        EditComplaint, WithdrawComplaint, Write
    <3>2. \/ \E to \in Status \cup {None}, p \in Priority \cup {None} : UpdateComplaintStatus(r, to, p)
          \/ Recategorise(r)
      BY <2>2, <3>1 DEF ReportStep, At, DeleteComplaintPermanently, EditComplaint, WithdrawComplaint
    <3> QED BY <2>0, <3>2 DEF UpdateComplaintStatus, UpdateFilter, Recategorise
  <2>3. ASSUME NEW q \in Request, NEW t \in User \cup {None}, AssignComplaint(q, t) PROVE FALSE
    BY <2>1, <2>3 DEF AssignComplaint, Release, At
  <2>4. ASSUME NEW q \in Request, NEW t \in User, RetireAccount(q, t) PROVE FALSE
    BY <2>1, <2>4 DEF RetireAccount, Release, At
  <2>5. ASSUME NEW p \in Priority, ClassifierSetsPriority(p) PROVE FALSE
    BY <2>5 DEF ClassifierSetsPriority, At
  <2> QED BY <2>2, <2>3, <2>4, <2>5, ReportSteps
<1>2. TypeOK /\ SeenIsPast /\ [Next]_vars => [Own]_vars
  BY <1>1
<1> QED BY <1>2, SeenInvariant, PTL DEF Spec, AgencyActsOnOwn

\* A withdrawn report is nobody's work.
THEOREM WithdrawnIsUnassigned == Spec => []WithdrawnUnassigned
<1>1. ASSUME TypeOK, SeenIsPast, WithdrawnUnassigned, [Next]_vars PROVE WithdrawnUnassigned'
  <2> USE <1>1 DEF WithdrawnUnassigned, TypeOK, Report
  <2>1. ASSUME NEW r \in Request, NEW to \in Status \cup {None}, NEW p \in Priority \cup {None},
               UpdateComplaintStatus(r, to, p)
        PROVE  WithdrawnUnassigned'
    <3>1. /\ report'.assignee = report.assignee
          /\ report'.status = IF to = None THEN report.status ELSE to
      BY <2>1 DEF UpdateComplaintStatus, Write
    <3>2. to # None => to \in ALLOWED(request[r].seen.status)
      BY <2>1 DEF UpdateComplaintStatus
    <3>3. to # None => to # "WITHDRAWN"
      BY <3>2 DEF ALLOWED
    <3> QED BY <3>1, <3>3
  <2>2. ASSUME NEW r \in Request, WithdrawComplaint(r) PROVE WithdrawnUnassigned'
    <3>1. report'.assignee = IF report.assignee = None THEN report.assignee ELSE None
      BY <2>2 DEF WithdrawComplaint, WithdrawFilter, Write
    <3> QED BY <3>1
  <2>3. ASSUME NEW r \in Request, Recategorise(r) \/ EditComplaint(r) \/ DeleteComplaintPermanently(r)
        PROVE  WithdrawnUnassigned'
    BY <2>3 DEF Recategorise, EditComplaint, DeleteComplaintPermanently, Write
  <2>4. ASSUME NEW r \in Request, NEW t \in User \cup {None}, AssignComplaint(r, t) PROVE WithdrawnUnassigned'
    <3>1. request[r].report.status # "WITHDRAWN"
      BY <2>4 DEF AssignComplaint, At, SeenIsPast, SeenOK, Reads
    <3>2. report'.status = report.status /\ report = request[r].report
      BY <2>4 DEF AssignComplaint, NoWriteConflict
    <3> QED BY <3>1, <3>2
  <2>5. ASSUME NEW r \in Request, NEW t \in User, RetireAccount(r, t) PROVE WithdrawnUnassigned'
    BY <2>5, RetirementOfReport
  <2>6. ASSUME NEW p \in Priority, ClassifierSetsPriority(p) PROVE WithdrawnUnassigned'
    BY <2>6 DEF ClassifierSetsPriority
  <2> QED BY <2>1, <2>2, <2>3, <2>4, <2>5, <2>6, ReportSteps DEF ReportStep
<1>2. Init => WithdrawnUnassigned
  BY DEF Init, Filed, WithdrawnUnassigned
<1>3. TypeOK /\ SeenIsPast /\ WithdrawnUnassigned /\ [Next]_vars => WithdrawnUnassigned'
  BY <1>1
<1> QED BY <1>2, <1>3, SeenInvariant, PTL DEF Spec

\* Two edits sent at a time never pass the limit together.
THEOREM EditsStayWithinLimit == Spec => []EditsWithinLimit
<1>1. ASSUME TypeOK, SeenIsPast, EditsWithinLimit, [Next]_vars PROVE EditsWithinLimit'
  <2> USE <1>1, BoundsAssumption DEF EditsWithinLimit, TypeOK, Report
  <2>1. ASSUME NEW r \in Request, EditComplaint(r) PROVE EditsWithinLimit'
    <3>1. SeenOK(r) /\ Reads(r)
      BY <2>1 DEF EditComplaint, At, SeenIsPast, Reads
    <3>2. report.edits < MAX_EDITS
      BY <2>1, <3>1 DEF EditComplaint, ReporterFilter, SeenOK, Past
    <3>3. report'.edits = report.edits + 1
      BY <2>1 DEF EditComplaint, Write
    <3> QED BY <3>2, <3>3
  <2>2. ASSUME NEW r \in Request, ReportStep(r), ~EditComplaint(r) PROVE report'.edits = report.edits
    BY <2>2 DEF ReportStep, UpdateComplaintStatus, Recategorise, DeleteComplaintPermanently,
                WithdrawComplaint, Write
  <2>3. ASSUME NEW r \in Request, NEW t \in User \cup {None}, AssignComplaint(r, t)
        PROVE  report'.edits = report.edits
    BY <2>3 DEF AssignComplaint
  <2>4. ASSUME NEW r \in Request, NEW t \in User, RetireAccount(r, t) PROVE report'.edits = report.edits
    BY <2>4, RetirementOfReport
  <2>5. ASSUME NEW p \in Priority, ClassifierSetsPriority(p) PROVE report'.edits = report.edits
    BY <2>5 DEF ClassifierSetsPriority
  <2> QED BY <2>1, <2>2, <2>3, <2>4, <2>5, ReportSteps
<1>2. Init => EditsWithinLimit
  BY BoundsAssumption DEF Init, Filed, EditsWithinLimit
<1>3. TypeOK /\ SeenIsPast /\ EditsWithinLimit /\ [Next]_vars => EditsWithinLimit'
  BY <1>1
<1> QED BY <1>2, <1>3, SeenInvariant, PTL DEF Spec

\* Nothing an edit, a withdrawal or an assignment read earlier takes the report past its limits
\* (complaintEditService.js:100-110, complaintAssignmentService.js:31-60).
THEOREM ReportIsKept == Spec => []ReportKept
<1>1. TypeOK /\ WithdrawnUnassigned /\ EditsWithinLimit => ReportKept
  BY DEF ReportKept
<1> QED
  BY <1>1, TypeCorrect, WithdrawnIsUnassigned, EditsStayWithinLimit, PTL

\* Accounts keep the roles that the system and its reports need (accountRetirementService.js:182,
\* assignmentPolicy.js).
THEOREM RolesAreKept == Spec => RolesKept
<1> QED
  BY AdministratorAlwaysRemains, AssigneeIsEligible DEF RolesKept

\* Whoever updates a report may, and may do what they do, at that instant
\* (complaintController.js:256-262).
THEOREM UpdatesAreLawful == Spec => UpdatesLawful
<1> QED
  BY AgencyOnlyActsOnOwn, StatusesFollowPolicy DEF UpdatesLawful

\* The edit history tells what happened (complaintController.js:258, complaintEditService.js:103).
THEOREM HistoryIsTrue == Spec => HistoryTrue
<1> QED
  BY AssignmentsAreRecorded, PrioritiesAreRecorded DEF HistoryTrue
==============================================================================
